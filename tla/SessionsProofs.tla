--------------------------- MODULE SessionsProofs ----------------------------
(* Proofs about Sessions, for any number of users, sessions and requests. *)
EXTENDS SessionProperties, TLAPS

USE SessionDataAssumption, SessionsAssumption

LEMMA MinuteIndexType ==
  ASSUME NEW a \in Int, NEW t \in Int
  PROVE  MinuteIndex(a, t) \in Int
BY DEF MinuteIndex

(* The labels and the status codes, so that a step need not list them. *)
LEMMA SnapTypes ==
  ASSUME TypeOK, NEW r \in Requests
  PROVE  /\ snap[r] \in Snapshot
         /\ snap[r].session \in SessionRow
         /\ snap[r].session.startedAt \in Int
         /\ snap[r].logs \subseteq Log
         /\ snap[r].at \in Int
BY DEF TypeOK, TablesOK, SlotsOK, Snapshot, SessionRow

LEMMA RowTypes ==
  ASSUME TypeOK, NEW s \in SessionIds
  PROVE  /\ sessions[s] \in SessionRow
         /\ LogsOf(logs, s) \subseteq Log
BY DEF TypeOK, TablesOK, SlotsOK, LogsOf

LEMMA NewLogType ==
  ASSUME TypeOK, NEW r \in Requests, pc[r] # "idle", IsLog(r),
         FirstMinuteOver(NewLog(r, snap[r].session.startedAt))
  PROVE  NewLog(r, snap[r].session.startedAt) \in Log
<1> DEFINE a == snap[r].session.startedAt
           t == IF req[r].kind = "v1" THEN req[r].time ELSE req[r].measuredAt
<1>1. req[r] \in Request /\ req[r].content \in Contents
  BY DEF TypeOK, TablesOK, SlotsOK, IsLog
<1>2. a \in Int
  BY SnapTypes
<1>3. MinuteIndex(a, t) \in Int
  BY <1>1, <1>2, MinuteIndexType DEF Request
<1>4. NewLog(r, a).minute = MinuteIndex(a, t)
  BY DEF NewLog
<1>5. MinuteIndex(a, t) \in Nat \ {0}
  BY <1>3, <1>4 DEF FirstMinuteOver
<1> HIDE DEF a
<1>6. NewLog(r, a) = [session |-> req[r].session, minute |-> MinuteIndex(a, t),
                      loggedAt |-> req[r].time, client |-> req[r].client,
                      measuredAt |-> req[r].measuredAt, content |-> req[r].content]
  BY DEF NewLog
<1> HIDE DEF t
<1>7. NewLog(r, a) \in Log
  BY <1>1, <1>5, <1>6 DEF Log, Request
<1> QED BY <1>7 DEF a

LEMMA InitType == Init => TypeOK
BY DEF Init, TypeOK, TablesOK, SlotsOK, Labels, Codes, NoSession, SessionRow, Request, NoRequest, Bare, Snapshot, NoSnapshot, NoTime

(* What the shared forms of a step leave typed. *)
LEMMA AnswerType ==
  ASSUME TypeOK, NEW r \in Requests, pc[r] # "idle",
         \E code \in Codes, rows \in SUBSET Log : Answer(r, code, rows)
  PROVE  SlotsOK'
<1>1. PICK code \in Codes, rows \in SUBSET Log : Answer(r, code, rows)
  OBVIOUS
<1>2. NoSnapshot \in Snapshot
  BY DEF NoSnapshot, Snapshot, NoSession, SessionRow, NoTime
<1>3. 1 \in 1 .. MaxAttempts /\ "done" \in Labels
  BY DEF Labels
<1> QED BY <1>1, <1>2, <1>3 DEF TypeOK, SlotsOK, Answer

LEMMA AnswerEmpty ==
  ASSUME TypeOK, NEW r \in Requests, pc[r] # "idle",
         NEW code \in Codes, Answer(r, code, {})
  PROVE  SlotsOK'
<1>1. {} \in SUBSET Log
  OBVIOUS
<1> QED BY <1>1, AnswerType

LEMMA IssueType ==
  ASSUME TypeOK, NEW r \in Requests, NEW q \in Request, NEW label \in {"check", "begin"},
         q.kind \in {"v1", "v2"} => q.content \in Contents,
         Issue(r, q, label)
  PROVE  TypeOK'
<1>1. req' \in [Requests -> Request \cup {NoRequest}]
  BY DEF TypeOK, SlotsOK, Issue
<1>2. pc' \in [Requests -> Labels]
  BY DEF TypeOK, SlotsOK, Issue, Labels
<1>3. answer' \in [Requests -> [code : Codes, rows : SUBSET Log]]
  BY DEF TypeOK, SlotsOK, Issue, Codes
<1>4. /\ \A p \in Requests : pc'[p] # "idle" => req'[p] \in Request
      /\ \A p \in Requests : req'[p].kind \in {"v1", "v2"} => req'[p].content \in Contents
  BY DEF TypeOK, SlotsOK, Issue
<1> QED BY <1>1, <1>2, <1>3, <1>4 DEF TypeOK, TablesOK, SlotsOK, Issue

LEMMA GotoType ==
  ASSUME TypeOK, NEW r \in Requests, pc[r] # "idle",
         NEW label \in Labels, Goto(r, label),
         attempt' \in [Requests -> 1 .. MaxAttempts],
         snap' \in [Requests -> Snapshot]
  PROVE  SlotsOK'
BY DEF TypeOK, SlotsOK, Goto

LEMMA SessionCheckCode ==
  ASSUME NEW row, NEW u
  PROVE  SessionCheck(row, u) \in {200, 403, 404, 409}
BY DEF SessionCheck

LEMMA RequestType == TypeOK /\ (\E r \in Requests : Receive(r)) => TypeOK'
<1> SUFFICES ASSUME TypeOK, NEW r \in Requests, Receive(r) PROVE TypeOK'
  OBVIOUS
<1>1. CASE RequestStart(r)
  <2>1. PICK u \in Users, s \in SessionIds :
          Issue(r, Bare("start", u, s), "check")
    BY <1>1 DEF RequestStart
  <2>2. Bare("start", u, s) \in Request
    BY DEF Bare, Request, NoTime
  <2> QED BY <2>1, <2>2, IssueType DEF Bare
<1>2. CASE RequestLogV1(r)
  <2>1. PICK u \in Users, s \in SessionIds, c \in Contents :
          Issue(r, [kind |-> "v1", user |-> u, session |-> s, time |-> clock,
                    client |-> NULL, measuredAt |-> NoTime, content |-> c], "begin")
    BY <1>2 DEF RequestLogV1
  <2>2. [kind |-> "v1", user |-> u, session |-> s, time |-> clock,
         client |-> NULL, measuredAt |-> NoTime, content |-> c] \in Request
    BY DEF Request, NoTime, TypeOK, TablesOK, SlotsOK
  <2> QED BY <2>1, <2>2, IssueType
<1>3. CASE RequestLogV2(r)
  <2>1. PICK u \in Users, s \in SessionIds, c \in Contents, id \in ClientIds,
             t \in 0 .. MaxClock + MaxFuture + 1 :
          Issue(r, [kind |-> "v2", user |-> u, session |-> s, time |-> clock,
                    client |-> id, measuredAt |-> t, content |-> c], "begin")
    BY <1>3 DEF RequestLogV2
  <2>2. [kind |-> "v2", user |-> u, session |-> s, time |-> clock,
         client |-> id, measuredAt |-> t, content |-> c] \in Request
    BY DEF Request, TypeOK, TablesOK, SlotsOK
  <2> QED BY <2>1, <2>2, IssueType
<1>4. CASE RequestEnd(r)
  <2>1. PICK u \in Users, s \in SessionIds :
          Issue(r, Bare("end", u, s), "begin")
    BY <1>4 DEF RequestEnd
  <2>2. Bare("end", u, s) \in Request
    BY DEF Bare, Request, NoTime
  <2> QED BY <2>1, <2>2, IssueType DEF Bare
<1> QED BY <1>1, <1>2, <1>3, <1>4 DEF Receive

LEMMA HandleType == TypeOK /\ (\E r \in Requests : Handle(r)) => TypeOK'
<1> SUFFICES ASSUME TypeOK, NEW r \in Requests, Handle(r) PROVE TypeOK'
  OBVIOUS
<1> DEFINE s0 == req[r].session
<1>0. pc[r] # "idle" => req[r] \in Request /\ s0 \in SessionIds /\ req[r].user \in Users
  BY DEF TypeOK, TablesOK, SlotsOK, Request
<1>1. CASE CheckActive(r)
  <2>1. CASE Answer(r, 409, {})
    BY <1>1, <2>1, AnswerEmpty DEF CheckActive, TypeOK, TablesOK, tables, Codes
  <2>2. CASE ~ Answer(r, 409, {})
    <3>1. /\ req' = [req EXCEPT ![r].time = clock]
          /\ pc' = [pc EXCEPT ![r] = "create"]
          /\ UNCHANGED <<sessions, logs, reports, clock, attempt, snap, answer>>
          /\ pc[r] # "idle"
      BY <1>1, <2>2 DEF CheckActive, tables
    <3>2. req[r] \in Request /\ clock \in Int
      BY <3>1, <1>0 DEF TypeOK, SlotsOK
    <3>3. /\ [req[r] EXCEPT !.time = clock] \in Request
          /\ [req[r] EXCEPT !.time = clock].kind = req[r].kind
          /\ [req[r] EXCEPT !.time = clock].content = req[r].content
      BY <3>2 DEF Request
    <3>4. /\ req' \in [Requests -> Request \cup {NoRequest}]
          /\ \A q \in Requests : pc'[q] # "idle" => req'[q] \in Request
          /\ \A q \in Requests : req'[q].kind \in {"v1", "v2"} => req'[q].content \in Contents
      BY <3>1, <3>2, <3>3 DEF TypeOK, SlotsOK
    <3>5. pc' \in [Requests -> Labels]
      BY <3>1 DEF TypeOK, SlotsOK, Labels
    <3> QED BY <3>1, <3>4, <3>5 DEF TypeOK, TablesOK, SlotsOK
  <2> QED BY <2>1, <2>2
<1>2. CASE CreateSession(r)
  <2>1. pc[r] # "idle" /\ UNCHANGED <<logs, reports>>
        /\ (Answer(r, 201, {}) \/ Answer(r, 409, {}))
    BY <1>2 DEF CreateSession
  <2>2. [status |-> "IN_PROGRESS", user |-> req[r].user,
         startedAt |-> req[r].time, endedAt |-> NoTime] \in SessionRow
    BY <2>1, <1>0 DEF SessionRow, NoTime, Request
  <2>3. sessions' \in [SessionIds -> SessionRow]
    BY <1>2, <2>2 DEF CreateSession, TypeOK, TablesOK, SlotsOK
  <2> QED BY <2>1, <2>3, AnswerEmpty DEF TypeOK, TablesOK, Codes
<1>3. CASE BeginTx(r)
  <2>1. /\ pc[r] # "idle" /\ Goto(r, "tx") /\ UNCHANGED <<sessions, logs, reports, attempt>>
        /\ snap' = [snap EXCEPT ![r] = [session |-> sessions[s0],
                                        logs |-> LogsOf(logs, s0), at |-> clock]]
    BY <1>3 DEF BeginTx
  <2>2. [session |-> sessions[s0], logs |-> LogsOf(logs, s0), at |-> clock] \in Snapshot
    BY <2>1, <1>0, RowTypes DEF Snapshot, TypeOK, TablesOK, SlotsOK
  <2>3. snap' \in [Requests -> Snapshot]
    BY <2>1, <2>2 DEF TypeOK, TablesOK, SlotsOK
  <2> QED BY <2>1, <2>3, GotoType DEF TypeOK, TablesOK, SlotsOK, Labels
<1>4. CASE RejectedBySession(r)
  BY <1>4, SessionCheckCode, AnswerEmpty DEF RejectedBySession, TypeOK, TablesOK, tables, Codes
<1>5. CASE SerializationFailure(r)
  <2>1. CASE Answer(r, 500, {})
    BY <1>5, <2>1, AnswerEmpty DEF SerializationFailure, TypeOK, TablesOK, tables, Codes
  <2>2. CASE /\ MayRetry(r) /\ Goto(r, "begin")
             /\ attempt' = [attempt EXCEPT ![r] = NextAttempt(r)]
             /\ snap' = [snap EXCEPT ![r] = NoSnapshot]
    <3>1. UNCHANGED <<sessions, logs, reports>> /\ pc[r] # "idle"
      BY <1>5 DEF SerializationFailure, tables
    <3>2. NextAttempt(r) \in 1 .. MaxAttempts
      <4>1. attempt[r] \in 1 .. MaxAttempts
        BY DEF TypeOK, SlotsOK
      <4> QED BY <2>2, <4>1 DEF NextAttempt, MayRetry
    <3>3. attempt' \in [Requests -> 1 .. MaxAttempts]
      BY <2>2, <3>2 DEF TypeOK, TablesOK, SlotsOK
    <3>4. snap' \in [Requests -> Snapshot]
      BY <2>2 DEF TypeOK, SlotsOK, NoSnapshot, Snapshot, NoSession, SessionRow, NoTime
    <3> QED BY <2>2, <3>1, <3>3, <3>4, GotoType DEF TypeOK, TablesOK, SlotsOK, Labels
  <2> QED BY <1>5, <2>1, <2>2 DEF SerializationFailure
<1>6. CASE TooEarly(r)
  BY <1>6, AnswerEmpty DEF TooEarly, Logging, TypeOK, TablesOK, tables, Codes
<1>7. CASE FindExisting(r)
  <2> DEFINE l == NewLog(r, snap[r].session.startedAt)
  <2>1. pc[r] # "idle" /\ UNCHANGED <<sessions, logs, reports>>
    BY <1>7 DEF FindExisting, Logging, tables
  <2>2. Twins(r, snap[r].logs, l) \subseteq Log
    BY SnapTypes DEF Twins, AtMinute, ByClient, LogsOf
  <2>3. \E code \in Codes, rows \in SUBSET Log : Answer(r, code, rows)
    <3>1. CASE Answer(r, 409, {})
      BY <3>1 DEF Codes
    <3>2. CASE \E x \in Twins(r, snap[r].logs, l) : Answer(r, 200, {x})
      BY <2>2, <3>2 DEF Codes
    <3> QED BY <1>7, <3>1, <3>2 DEF FindExisting
  <2> QED BY <2>1, <2>3, AnswerType DEF TypeOK, TablesOK
<1>8. CASE InsertLog(r)
  <2> DEFINE l == NewLog(r, snap[r].session.startedAt)
  <2>1. /\ pc[r] # "idle" /\ IsLog(r) /\ FirstMinuteOver(l) /\ UNCHANGED <<sessions, reports>>
        /\ logs' = logs \cup {l} /\ Answer(r, 200, {l})
    BY <1>8 DEF InsertLog, WantsInsert, Logging
  <2>2. l \in Log
    BY <2>1, NewLogType
  <2> HIDE DEF l
  <2>3. {l} \in SUBSET Log /\ 200 \in Codes
    BY <2>2 DEF Codes
  <2>4. logs' \subseteq Log
    BY <2>1, <2>2 DEF TypeOK, TablesOK, SlotsOK
  <2> QED BY <2>1, <2>3, <2>4, AnswerType DEF TypeOK, TablesOK
<1>9. CASE UniqueViolation(r)
  BY <1>9, GotoType DEF UniqueViolation, WantsInsert, Logging, TypeOK, TablesOK, SlotsOK, Labels
<1>10. CASE RecheckSession(r)
  <2>1. pc[r] # "idle" /\ UNCHANGED <<sessions, logs, reports>>
    BY <1>10 DEF RecheckSession, tables
  <2>2. CASE Answer(r, SessionCheck(sessions[s0], req[r].user), {})
    BY <2>1, <2>2, SessionCheckCode, AnswerEmpty DEF TypeOK, TablesOK, Codes
  <2>3. CASE Goto(r, "concurrent") /\ UNCHANGED <<attempt, snap>>
    BY <2>1, <2>3, GotoType DEF TypeOK, TablesOK, SlotsOK, Labels
  <2> QED BY <1>10, <2>2, <2>3 DEF RecheckSession
<1>11. CASE FindConcurrent(r)
  <2> DEFINE l == NewLog(r, snap[r].session.startedAt)
  <2>1. pc[r] # "idle" /\ UNCHANGED <<sessions, logs, reports>>
    BY <1>11 DEF FindConcurrent, tables
  <2>2. Twins(r, logs, l) \subseteq Log
    BY DEF Twins, AtMinute, ByClient, LogsOf, TypeOK, TablesOK, SlotsOK
  <2>3. \E code \in Codes, rows \in SUBSET Log : Answer(r, code, rows)
    <3>1. CASE Answer(r, 409, {})
      BY <3>1 DEF Codes
    <3>2. CASE \E x \in Twins(r, logs, l) : Answer(r, 200, {x})
      BY <2>2, <3>2 DEF Codes
    <3> QED BY <1>11, <3>1, <3>2 DEF FindConcurrent
  <2> QED BY <2>1, <2>3, AnswerType DEF TypeOK, TablesOK
<1>12. CASE EndSession(r)
  <2>1. PICK e \in snap[r].at .. clock :
          /\ pc[r] # "idle" /\ UNCHANGED logs /\ Answer(r, 200, snap[r].logs)
          /\ sessions' = [sessions EXCEPT ![s0].status = "COMPLETED", ![s0].endedAt = e]
          /\ reports' = reports \cup {Summary(s0, snap[r].session, snap[r].logs, e)}
    BY <1>12 DEF EndSession
  <2>2. e \in Int /\ sessions[s0] \in SessionRow
    BY <1>0, <2>1, SnapTypes, RowTypes DEF TypeOK, TablesOK, SlotsOK
  <2>3. sessions'[s0] \in SessionRow
    BY <1>0, <2>1, <2>2 DEF SessionRow, TypeOK, TablesOK, SlotsOK
  <2>4. sessions' \in [SessionIds -> SessionRow]
    BY <1>0, <2>1, <2>3 DEF TypeOK, TablesOK, SlotsOK
  <2>5. LogsOf(snap[r].logs, s0) \subseteq Log /\ e - snap[r].session.startedAt \in Int
    BY <2>2, SnapTypes DEF LogsOf
  <2>6. reports' \subseteq Report
    BY <1>0, <2>1, <2>5 DEF Summary, Report, TypeOK, TablesOK, SlotsOK
  <2>7. 200 \in Codes /\ snap[r].logs \in SUBSET Log
    BY SnapTypes DEF Codes
  <2> QED BY <2>1, <2>4, <2>6, <2>7, AnswerType DEF TypeOK, TablesOK
<1> QED BY <1>1, <1>2, <1>3, <1>4, <1>5, <1>6, <1>7, <1>8, <1>9, <1>10, <1>11, <1>12
        DEF Handle

LEMMA StepType == TypeOK /\ [Next]_vars => TypeOK'
<1>1. CASE TypeOK /\ Tick
  BY <1>1 DEF Tick, TypeOK, TablesOK, SlotsOK
<1>2. CASE TypeOK /\ UNCHANGED vars
  BY <1>2 DEF vars, TypeOK, TablesOK, SlotsOK
<1> QED BY <1>1, <1>2, RequestType, HandleType DEF Next

(* The variables always hold what TypeOK says, in particular no request    *)
(* makes more than MaxAttempts attempts.                                   *)
THEOREM TypeCorrect == Spec => []TypeOK
BY InitType, StepType, PTL DEF Spec

-------------------------------------------------------------------------------
(* Every step of a handler is a step of the ledger or leaves the tables alone. *)

LEMMA CheckOK ==
  ASSUME TypeOK, NEW r \in Requests,
         SessionCheck(snap[r].session, req[r].user) = 200
  PROVE  snap[r].session.status = "IN_PROGRESS" /\ snap[r].session.user = req[r].user
BY DEF SessionCheck

LEMMA CreateIsStart ==
  ASSUME IInv, NEW r \in Requests, CreateSession(r)
  PROVE  [Ledger!LedgerNext]_tables
<1> DEFINE s == req[r].session
           row == [status |-> "IN_PROGRESS", user |-> req[r].user,
                   startedAt |-> req[r].time, endedAt |-> NoTime]
<1>1. CASE ~ ActiveIndexAllows(req[r].user)
  BY <1>1 DEF CreateSession, tables
<1>2. CASE ActiveIndexAllows(req[r].user)
  <2>1. /\ UNCHANGED <<logs, reports>> /\ sessions' = [sessions EXCEPT ![s] = row]
        /\ pc[r] = "create"
    BY <1>2 DEF CreateSession
  <2>2. s \in SessionIds /\ req[r].user \in Users /\ sessions[s] = NoSession
    BY <2>1 DEF IInv, HandlerInv, LedgerInv, FreshIds, Starting, Blank, TypeOK, SlotsOK, Request
  <2>3. sessions'[s] = row /\ row.startedAt = sessions'[s].startedAt
    BY <2>1, <2>2 DEF IInv, TypeOK, TablesOK
  <2>4. row = [status |-> "IN_PROGRESS", user |-> req[r].user,
               startedAt |-> sessions'[s].startedAt, endedAt |-> NoTime]
    BY <2>3
  <2>5. ActiveOf(sessions, req[r].user) = {}
    BY <1>2 DEF ActiveIndexAllows
  <2> HIDE DEF row, s
  <2>6. Ledger!Start(s)
    BY <2>1, <2>2, <2>4, <2>5 DEF Ledger!Start, Ledger!ActiveOf, ActiveOf,
       Ledger!NoSession, NoSession, Ledger!NoTime, NoTime
  <2> QED BY <2>2, <2>6 DEF Ledger!LedgerNext
<1> QED BY <1>1, <1>2

LEMMA InsertIsRecord ==
  ASSUME IInv, NEW r \in Requests, InsertLog(r)
  PROVE  Ledger!LedgerNext
<1> DEFINE s == req[r].session
           a == snap[r].session.startedAt
           l == NewLog(r, a)
<1>1. /\ pc[r] = "tx" /\ IsLog(r) /\ FirstMinuteOver(l)
      /\ SessionCheck(snap[r].session, req[r].user) = 200
      /\ sessions[s] = snap[r].session /\ ~ Clash(logs, l)
      /\ logs' = logs \cup {l} /\ UNCHANGED <<sessions, reports>>
  BY DEF InsertLog, WantsInsert, Logging, SessionRowCurrent
<1>2. s \in SessionIds /\ l.session = s /\ l \in Log
  BY <1>1, NewLogType DEF IInv, NewLog, TypeOK, SlotsOK, Request
<1>3. sessions[s].status = "IN_PROGRESS" /\ sessions[s].startedAt = a
  BY <1>1, CheckOK DEF IInv
<1>4. /\ l.minute >= 1
      /\ l.minute = MinuteIndex(a, MeasuredTime(l))
      /\ MeasuredTime(l) <= l.loggedAt + MaxFuture
  <2>1. /\ l.minute = MinuteIndex(a, IF req[r].kind = "v1" THEN req[r].time ELSE req[r].measuredAt)
        /\ l.loggedAt = req[r].time /\ l.client = req[r].client
        /\ l.measuredAt = req[r].measuredAt
    BY DEF NewLog
  <2>2. /\ req[r].kind = "v1" => req[r].client = NULL
        /\ req[r].kind = "v2" => /\ req[r].client # NULL
                                 /\ req[r].measuredAt <= req[r].time + MaxFuture
        /\ req[r].kind \in {"v1", "v2"} /\ req[r].time \in Int
    BY <1>1 DEF IInv, HandlerInv, Bounded, IsLog, TypeOK, SlotsOK, Request
  <2> HIDE DEF l, a
  <2> QED BY <1>1, <2>1, <2>2 DEF FirstMinuteOver, MeasuredTime
<1> HIDE DEF l, a, s
<1>5. l \in logs'
  BY <1>1
<1>6. Ledger!Record(s)
  BY <1>1, <1>2, <1>3, <1>4, <1>5
     DEF Ledger!Record, Ledger!Clash, Clash, Ledger!AtMinute, AtMinute, Ledger!ByClient, ByClient,
         Ledger!LogsOf, LogsOf, Ledger!MinuteIndex, MinuteIndex, Ledger!MeasuredTime, MeasuredTime
<1> QED BY <1>2, <1>6 DEF Ledger!LedgerNext

LEMMA EndIsComplete ==
  ASSUME IInv, NEW r \in Requests, EndSession(r)
  PROVE  Ledger!LedgerNext
<1> DEFINE s == req[r].session
<1>1. PICK e \in snap[r].at .. clock :
        /\ sessions' = [sessions EXCEPT ![s].status = "COMPLETED", ![s].endedAt = e]
        /\ reports' = reports \cup {Summary(s, snap[r].session, snap[r].logs, e)}
  BY DEF EndSession
<1>2. /\ pc[r] = "tx" /\ SessionCheck(snap[r].session, req[r].user) = 200
      /\ sessions[s] = snap[r].session /\ LogsOf(logs, s) = snap[r].logs /\ UNCHANGED logs
  BY DEF EndSession, SessionRowCurrent, LogsCurrent
<1>3. s \in SessionIds /\ sessions \in [SessionIds -> SessionRow]
  BY <1>2 DEF IInv, TypeOK, TablesOK, SlotsOK, Request
<1>4. sessions[s].status = "IN_PROGRESS"
  BY <1>2, CheckOK DEF IInv
<1>5. sessions'[s].endedAt = e
  BY <1>1, <1>3 DEF SessionRow
<1>6. SnapshotOfPast(r)
  BY <1>2 DEF IInv, HandlerInv, Snapshots, InTransaction
<1>7. snap[r].at \in Int /\ snap[r].session.startedAt \in Int /\ snap[r].logs \subseteq Log
  BY SnapTypes DEF IInv
<1>8. e >= sessions[s].startedAt /\ \A l \in LogsOf(logs, s) : l.loggedAt <= e
  <2>1. e \in Int /\ snap[r].at <= e
    BY <1>7 DEF IInv, TypeOK, SlotsOK
  <2> QED BY <1>2, <1>6, <1>7, <2>1 DEF SnapshotOfPast, Log
<1>9. LogsOf(snap[r].logs, s) = LogsOf(logs, s)
  BY <1>2 DEF LogsOf
<1> HIDE DEF s
<1>10. Ledger!Complete(s)
  BY <1>1, <1>2, <1>3, <1>4, <1>5, <1>8, <1>9
     DEF Ledger!Complete, Ledger!LogsOf, LogsOf, Ledger!Summary, Summary
<1> QED BY <1>3, <1>10 DEF Ledger!LedgerNext

LEMMA StepRefines == IInv /\ [Next]_vars => [Ledger!LedgerNext]_tables
<1> SUFFICES ASSUME IInv, [Next]_vars PROVE [Ledger!LedgerNext]_tables
  OBVIOUS
<1>1. CASE UNCHANGED vars \/ Tick
  BY <1>1 DEF vars, tables, Tick
<1>2. ASSUME NEW r \in Requests, Receive(r) PROVE UNCHANGED tables
  BY <1>2 DEF Receive, RequestStart, RequestLogV1, RequestLogV2, RequestEnd, Issue, tables
<1>3. ASSUME NEW r \in Requests, Handle(r) PROVE [Ledger!LedgerNext]_tables
  <2>1. CASE CreateSession(r)
    BY <2>1, CreateIsStart
  <2>2. CASE InsertLog(r)
    BY <2>2, InsertIsRecord
  <2>3. CASE EndSession(r)
    BY <2>3, EndIsComplete
  <2>4. CASE \/ CheckActive(r) \/ BeginTx(r) \/ RejectedBySession(r) \/ SerializationFailure(r)
             \/ TooEarly(r) \/ FindExisting(r) \/ UniqueViolation(r) \/ RecheckSession(r)
             \/ FindConcurrent(r)
    BY <2>4 DEF CheckActive, BeginTx, RejectedBySession, SerializationFailure, TooEarly,
       FindExisting, UniqueViolation, RecheckSession, FindConcurrent, tables
  <2> QED BY <1>3, <2>1, <2>2, <2>3, <2>4 DEF Handle
<1> QED BY <1>1, <1>2, <1>3 DEF Next

-------------------------------------------------------------------------------
(* The invariants of the tables follow from the steps of the ledger. *)

LEMMA StartKeeps ==
  ASSUME TypeOK, TypeOK', LedgerInv, NEW s \in SessionIds, Ledger!Start(s)
  PROVE  LedgerInv'
<1>1. PICK u \in Users :
        /\ sessions[s] = NoSession
        /\ ActiveOf(sessions, u) = {}
        /\ sessions' = [sessions EXCEPT ![s] =
             [status |-> "IN_PROGRESS", user |-> u,
              startedAt |-> sessions'[s].startedAt, endedAt |-> NoTime]]
        /\ UNCHANGED <<logs, reports>>
  BY DEF Ledger!Start, Ledger!ActiveOf, ActiveOf, Ledger!NoSession, NoSession,
         Ledger!NoTime, NoTime
<1>2. /\ \A t \in SessionIds : t # s => sessions'[t] = sessions[t]
      /\ sessions'[s].status = "IN_PROGRESS" /\ sessions'[s].user = u
      /\ sessions[s].status = "NONE"
  BY <1>1 DEF TypeOK, TablesOK, NoSession
<1>3. LogsOf(logs, s) = {}
  BY <1>2 DEF LedgerInv, Blank
<1>4. Blank'
  BY <1>1, <1>2 DEF LedgerInv, Blank, LogsOf
<1>5. OneActivePerUser'
  BY <1>1, <1>2 DEF LedgerInv, OneActivePerUser, ActiveOf
<1>6. ReportsComplete'
  <2>1. {rep \in reports : rep.session = s} = {}
    BY <1>2 DEF LedgerInv, ReportsComplete
  <2> QED BY <1>1, <1>2, <2>1 DEF LedgerInv, ReportsComplete, Summary, LogsOf
<1>7. OneLogPerMeasurement'
  BY <1>1 DEF LedgerInv, OneLogPerMeasurement
<1>8. TimesAgree'
  <2>1. \A l \in logs : l.session \in SessionIds /\ l.session # s
    BY <1>3 DEF LogsOf, TypeOK, TablesOK, Log
  <2>2. \A l \in logs : sessions'[l.session] = sessions[l.session]
    BY <1>2, <2>1
  <2> QED BY <1>1, <1>2, <2>2 DEF LedgerInv, TimesAgree
<1> QED BY <1>4, <1>5, <1>6, <1>7, <1>8 DEF LedgerInv

LEMMA RecordKeeps ==
  ASSUME TypeOK, TypeOK', LedgerInv, NEW s \in SessionIds, Ledger!Record(s)
  PROVE  LedgerInv'
<1>1. PICK l \in logs' :
        /\ sessions[s].status = "IN_PROGRESS"
        /\ l.session = s
        /\ ~ Clash(logs, l)
        /\ l.minute >= 1
        /\ l.minute = MinuteIndex(sessions[s].startedAt, MeasuredTime(l))
        /\ MeasuredTime(l) <= l.loggedAt + MaxFuture
        /\ logs' = logs \cup {l}
        /\ UNCHANGED <<sessions, reports>>
  BY DEF Ledger!Record, Ledger!Clash, Clash, Ledger!AtMinute, AtMinute, Ledger!ByClient, ByClient,
         Ledger!LogsOf, LogsOf, Ledger!MinuteIndex, MinuteIndex, Ledger!MeasuredTime, MeasuredTime
<1>2. \A t \in SessionIds : t # s => LogsOf(logs', t) = LogsOf(logs, t)
  BY <1>1 DEF LogsOf
<1>3. Blank'
  BY <1>1, <1>2 DEF LedgerInv, Blank
<1>4. OneActivePerUser'
  BY <1>1 DEF LedgerInv, OneActivePerUser, ActiveOf
<1>5. ReportsComplete'
  BY <1>1, <1>2 DEF LedgerInv, ReportsComplete, Summary
<1>6. OneLogPerMeasurement'
  <2>1. \A m \in logs : m.session = s =>
          m.minute # l.minute /\ (l.client # NULL => m.client # l.client)
    BY <1>1 DEF Clash, AtMinute, ByClient, LogsOf
  <2> QED BY <1>1, <2>1 DEF LedgerInv, OneLogPerMeasurement
<1>7. TimesAgree'
  BY <1>1 DEF LedgerInv, TimesAgree
<1> QED BY <1>3, <1>4, <1>5, <1>6, <1>7 DEF LedgerInv

LEMMA CompleteKeeps ==
  ASSUME TypeOK, TypeOK', LedgerInv, NEW s \in SessionIds, Ledger!Complete(s)
  PROVE  LedgerInv'
<1> DEFINE e == sessions'[s].endedAt
<1>1. /\ sessions[s].status = "IN_PROGRESS"
      /\ e >= sessions[s].startedAt
      /\ \A l \in LogsOf(logs, s) : l.loggedAt <= e
      /\ sessions' = [sessions EXCEPT ![s].status = "COMPLETED", ![s].endedAt = e]
      /\ reports' = reports \cup {Summary(s, sessions[s], logs, e)}
      /\ UNCHANGED logs
  BY DEF Ledger!Complete, Ledger!LogsOf, LogsOf, Ledger!Summary, Summary
<1>2. /\ \A t \in SessionIds : t # s => sessions'[t] = sessions[t]
      /\ sessions'[s].status = "COMPLETED" /\ sessions'[s].user = sessions[s].user
      /\ sessions'[s].startedAt = sessions[s].startedAt
  <2> HIDE DEF e
  <2>1. sessions \in [SessionIds -> SessionRow]
    BY DEF TypeOK, TablesOK
  <2> QED BY <1>1, <2>1 DEF SessionRow
<1>3. Blank'
  BY <1>1, <1>2 DEF LedgerInv, Blank
<1>4. OneActivePerUser'
  BY <1>1, <1>2 DEF LedgerInv, OneActivePerUser, ActiveOf
<1>5. ReportsComplete'
  <2>1. {rep \in reports : rep.session = s} = {}
    BY <1>1 DEF LedgerInv, ReportsComplete
  <2>2. Summary(s, sessions[s], logs, e) = Summary(s, sessions'[s], logs, e)
    BY <1>2 DEF Summary
  <2>3. Summary(s, sessions[s], logs, e).session = s
    BY DEF Summary
  <2>4. \A t \in SessionIds :
          {rep \in reports' : rep.session = t} =
            IF t = s THEN {Summary(s, sessions'[s], logs', e)}
                     ELSE {rep \in reports : rep.session = t}
    BY <1>1, <2>1, <2>2, <2>3
  <2>5. \A t \in SessionIds : t # s =>
          Summary(t, sessions'[t], logs', sessions'[t].endedAt)
            = Summary(t, sessions[t], logs, sessions[t].endedAt)
    BY <1>1, <1>2
  <2> HIDE DEF e
  <2>6. ASSUME NEW t \in SessionIds
        PROVE  {rep \in reports' : rep.session = t} =
                 IF sessions'[t].status = "COMPLETED"
                 THEN {Summary(t, sessions'[t], logs', sessions'[t].endedAt)} ELSE {}
    <3>1. CASE t = s
      BY <1>2, <2>4, <3>1 DEF e
    <3>2. CASE t # s
      BY <1>2, <2>4, <2>5, <3>2 DEF LedgerInv, ReportsComplete
    <3> QED BY <3>1, <3>2
  <2> QED BY <2>6 DEF ReportsComplete
<1>6. OneLogPerMeasurement'
  BY <1>1 DEF LedgerInv, OneLogPerMeasurement
<1>7. TimesAgree'
  <2>1. \A l \in logs : l.session \in SessionIds
    BY DEF TypeOK, TablesOK, Log
  <2>2. \A t \in SessionIds : sessions'[t].status = "COMPLETED" =>
          sessions'[t].endedAt >= sessions'[t].startedAt
    BY <1>1, <1>2 DEF LedgerInv, TimesAgree
  <2>3. \A l \in logs :
          /\ l.minute >= 1
          /\ l.minute = MinuteIndex(sessions[l.session].startedAt, MeasuredTime(l))
          /\ MeasuredTime(l) <= l.loggedAt + MaxFuture
          /\ sessions[l.session].status = "COMPLETED" => l.loggedAt <= sessions[l.session].endedAt
    BY DEF LedgerInv, TimesAgree
  <2>4. \A l \in logs : sessions'[l.session].startedAt = sessions[l.session].startedAt
    BY <1>2, <2>1
  <2>5. \A l \in logs : sessions'[l.session].status = "COMPLETED" =>
                          l.loggedAt <= sessions'[l.session].endedAt
    BY <1>1, <1>2, <2>1, <2>3 DEF LogsOf
  <2> QED BY <1>1, <2>2, <2>3, <2>4, <2>5 DEF TimesAgree
<1> QED BY <1>3, <1>4, <1>5, <1>6, <1>7 DEF LedgerInv

LEMMA LedgerKeeps ==
  TypeOK /\ TypeOK' /\ LedgerInv /\ [Ledger!LedgerNext]_tables => LedgerInv'
<1>1. ASSUME LedgerInv, UNCHANGED tables PROVE LedgerInv'
  BY <1>1 DEF tables, LedgerInv, Blank, OneActivePerUser, ReportsComplete,
     OneLogPerMeasurement, TimesAgree, ActiveOf
<1> QED BY <1>1, StartKeeps, RecordKeeps, CompleteKeeps DEF Ledger!LedgerNext

-------------------------------------------------------------------------------
(* The invariants of the handlers. *)

Grows == /\ clock' \in Nat /\ clock <= clock'
         /\ logs \subseteq logs'
         /\ \A s \in SessionIds : sessions[s].status # "NONE" =>
              /\ sessions'[s].status # "NONE"
              /\ sessions'[s].user = sessions[s].user
              /\ sessions'[s].startedAt = sessions[s].startedAt

LEMMA StepGrows == IInv /\ TypeOK' /\ [Next]_vars => Grows
<1> SUFFICES ASSUME IInv, TypeOK', [Next]_vars PROVE Grows
  OBVIOUS
<1>1. clock' \in Nat /\ clock <= clock'
  <2>1. CASE UNCHANGED vars \/ Tick
    BY <2>1 DEF vars, Tick, IInv, TypeOK, SlotsOK
  <2>2. ASSUME NEW r \in Requests, Receive(r) PROVE clock' = clock
    BY <2>2 DEF Receive, RequestStart, RequestLogV1, RequestLogV2, RequestEnd, Issue
  <2>3. ASSUME NEW r \in Requests, Handle(r) PROVE clock' = clock
    BY <2>3 DEF Handle, CheckActive, CreateSession, BeginTx, RejectedBySession,
       SerializationFailure, TooEarly, FindExisting, InsertLog, UniqueViolation,
       RecheckSession, FindConcurrent, EndSession, Answer, Goto
  <2> QED BY <2>1, <2>2, <2>3 DEF Next, IInv, TypeOK, SlotsOK
<1>2. [Ledger!LedgerNext]_tables /\ sessions \in [SessionIds -> SessionRow]
  BY StepRefines DEF IInv, TypeOK, TablesOK
<1>3. CASE UNCHANGED tables
  BY <1>1, <1>3 DEF Grows, tables
<1>4. ASSUME NEW s \in SessionIds, Ledger!Start(s) PROVE Grows
  BY <1>1, <1>2, <1>4 DEF Grows, Ledger!Start, Ledger!NoSession, NoSession
<1>5. ASSUME NEW s \in SessionIds, Ledger!Record(s) PROVE Grows
  BY <1>1, <1>5 DEF Grows, Ledger!Record
<1>6. ASSUME NEW s \in SessionIds, Ledger!Complete(s) PROVE Grows
  <2>1. /\ logs' = logs /\ sessions[s].status = "IN_PROGRESS"
        /\ sessions' = [sessions EXCEPT ![s].status = "COMPLETED",
                                        ![s].endedAt = sessions'[s].endedAt]
    BY <1>6 DEF Ledger!Complete
  <2>2. \A t \in SessionIds : /\ sessions'[t].user = sessions[t].user
                              /\ sessions'[t].startedAt = sessions[t].startedAt
                              /\ sessions[t].status # "NONE" => sessions'[t].status # "NONE"
    BY <1>2, <2>1 DEF SessionRow
  <2> QED BY <1>1, <2>1, <2>2 DEF Grows
<1> QED BY <1>2, <1>3, <1>4, <1>5, <1>6 DEF Ledger!LedgerNext

(* A step of one slot does not touch the others. *)
OnlySlot(r) == \A q \in Requests : q # r => /\ pc'[q] = pc[q] /\ req'[q] = req[q]
                                            /\ snap'[q] = snap[q] /\ answer'[q] = answer[q]

LEMMA StepOfOne ==
  ASSUME TypeOK, NEW r \in Requests, Receive(r) \/ Handle(r)
  PROVE  OnlySlot(r)
BY DEF OnlySlot, TypeOK, SlotsOK, Receive, RequestStart, RequestLogV1, RequestLogV2, RequestEnd,
       Issue, Handle, CheckActive, CreateSession, BeginTx, RejectedBySession,
       SerializationFailure, TooEarly, FindExisting, InsertLog, UniqueViolation,
       RecheckSession, FindConcurrent, EndSession, Answer, Goto

LEMMA SnapshotKept ==
  ASSUME IInv, Grows, NEW q \in Requests, SnapshotOfPast(q),
         snap'[q] = snap[q], req'[q] = req[q], pc[q] # "idle"
  PROVE  SnapshotOfPast(q)'
<1> DEFINE s == req[q].session
           row == snap[q].session
<1>1. s \in SessionIds /\ snap[q].at \in Int /\ clock \in Int /\ clock' \in Int
  BY SnapTypes DEF IInv, TypeOK, SlotsOK, Request, Grows
<1>2. snap[q].at <= clock'
  BY <1>1 DEF Grows, SnapshotOfPast
<1>3. snap[q].logs \subseteq LogsOf(logs', s)
  BY DEF Grows, SnapshotOfPast, LogsOf
<1>4. row.status # "NONE" => /\ sessions'[s].status # "NONE"
                             /\ sessions'[s].user = row.user
                             /\ sessions'[s].startedAt = row.startedAt
  BY <1>1 DEF Grows, SnapshotOfPast
<1> QED BY <1>2, <1>3, <1>4 DEF SnapshotOfPast

LEMMA FreshSnapshot ==
  ASSUME IInv, NEW r \in Requests, BeginTx(r)
  PROVE  SnapshotOfPast(r)'
<1> DEFINE s == req[r].session
<1>1. /\ snap'[r] = [session |-> sessions[s], logs |-> LogsOf(logs, s), at |-> clock]
      /\ req' = req /\ clock' = clock /\ UNCHANGED <<sessions, logs>> /\ s \in SessionIds
  BY DEF BeginTx, Goto, IInv, TypeOK, SlotsOK, Request
<1>2. /\ snap'[r].session = sessions[s] /\ snap'[r].logs = LogsOf(logs, s)
      /\ snap'[r].at = clock
  BY <1>1
<1>3. /\ \A l \in LogsOf(logs, s) : l.loggedAt <= clock
      /\ sessions[s].startedAt <= clock
      /\ clock <= clock
  BY <1>1 DEF IInv, HandlerInv, Past, LogsOf, TypeOK, SlotsOK
<1> QED BY <1>1, <1>2, <1>3 DEF SnapshotOfPast

LEMMA SnapshotsStep ==
  IInv /\ Grows /\ [Next]_vars => Snapshots'
<1> SUFFICES ASSUME IInv, Grows, [Next]_vars,
                    NEW q \in Requests, InTransaction(q)'
             PROVE  /\ SnapshotOfPast(q)'
                    /\ pc'[q] # "tx" => /\ IsLog(q)'
                                        /\ SessionCheck(snap'[q].session, req'[q].user) = 200
  BY DEF Snapshots
<1> DEFINE Known == /\ SnapshotOfPast(q)
                    /\ pc[q] # "tx" => /\ IsLog(q)
                                       /\ SessionCheck(snap[q].session, req[q].user) = 200
<1>1. CASE pc'[q] = pc[q] /\ snap'[q] = snap[q] /\ req'[q] = req[q]
  <2>1. InTransaction(q) /\ pc[q] # "idle"
    BY <1>1 DEF InTransaction
  <2>2. Known
    BY <2>1 DEF IInv, HandlerInv, Snapshots
  <2> QED BY <1>1, <2>1, <2>2, SnapshotKept DEF IsLog
<1>2. CASE BeginTx(q)
  BY <1>2, FreshSnapshot DEF BeginTx, Goto, IInv, TypeOK, SlotsOK
<1>3. CASE UniqueViolation(q)
  <2>1. /\ pc[q] = "tx" /\ snap' = snap /\ req' = req /\ IsLog(q)
        /\ SessionCheck(snap[q].session, req[q].user) = 200
    BY <1>3 DEF UniqueViolation, WantsInsert, Logging, Goto
  <2>2. SnapshotOfPast(q)
    BY <2>1 DEF IInv, HandlerInv, Snapshots, InTransaction
  <2> QED BY <2>1, <2>2, SnapshotKept DEF IsLog
<1>4. CASE RecheckSession(q)
  <2>1. pc[q] = "recheck" /\ pc'[q] # "done"
    BY <1>4 DEF RecheckSession, InTransaction
  <2>2. snap' = snap /\ req' = req
    BY <1>4, <2>1 DEF RecheckSession, Answer, Goto, IInv, TypeOK, SlotsOK
  <2>3. Known
    BY <2>1 DEF IInv, HandlerInv, Snapshots, InTransaction
  <2> QED BY <2>1, <2>2, <2>3, SnapshotKept DEF IsLog
<1>5. CASE \/ CheckActive(q) \/ CreateSession(q) \/ RejectedBySession(q) \/ SerializationFailure(q)
           \/ TooEarly(q) \/ FindExisting(q) \/ InsertLog(q) \/ FindConcurrent(q)
           \/ EndSession(q) \/ Receive(q)
  <2>1. pc'[q] \in {"done", "create", "begin", "check"}
    BY <1>5 DEF CheckActive, CreateSession, RejectedBySession, SerializationFailure, TooEarly,
       FindExisting, InsertLog, FindConcurrent, EndSession, Receive, RequestStart, RequestLogV1,
       RequestLogV2, RequestEnd, Issue, Answer, Goto, IInv, TypeOK, SlotsOK
  <2> QED BY <2>1 DEF InTransaction
<1>6. CASE UNCHANGED vars \/ Tick
  BY <1>1, <1>6 DEF vars, Tick
<1>7. ASSUME NEW r \in Requests, r # q, Receive(r) \/ Handle(r) PROVE pc'[q] = pc[q] /\ snap'[q] = snap[q] /\ req'[q] = req[q]
  BY <1>7, StepOfOne DEF OnlySlot, IInv
<1> QED BY <1>1, <1>2, <1>3, <1>4, <1>5, <1>6, <1>7 DEF Next, Handle

LEMMA PastStep ==
  ASSUME IInv, TypeOK', Grows, [Next]_vars
  PROVE  Past'
<1>1. clock \in Int /\ clock' \in Int /\ clock <= clock'
  BY DEF IInv, TypeOK, SlotsOK, Grows
<1>2. \A r \in Requests : req'[r].time <= clock'
  <2> SUFFICES ASSUME NEW q \in Requests PROVE req'[q].time <= clock'
    OBVIOUS
  <2>1. req[q].time \in Int /\ req[q].time <= clock
    BY DEF IInv, HandlerInv, Past, TypeOK, SlotsOK, Request, NoRequest, Bare, NoTime
  <2>2. CASE req'[q] = req[q]
    BY <1>1, <2>1, <2>2
  <2>3. CASE CheckActive(q)
    BY <1>1, <2>1, <2>3 DEF CheckActive, Answer, IInv, TypeOK, SlotsOK, Request
  <2>4. CASE Receive(q)
    BY <1>1, <2>4 DEF Receive, RequestStart, RequestLogV1, RequestLogV2, RequestEnd, Issue,
       Bare, NoTime, IInv, TypeOK, SlotsOK
  <2>5. ASSUME Handle(q), ~ CheckActive(q) PROVE req' = req
    BY <2>5 DEF Handle, CreateSession, BeginTx, RejectedBySession,
       SerializationFailure, TooEarly, FindExisting, InsertLog, UniqueViolation,
       RecheckSession, FindConcurrent, EndSession, Answer, Goto
  <2>6. CASE UNCHANGED vars \/ Tick
    BY <2>2, <2>6 DEF vars, Tick
  <2>7. ASSUME NEW r \in Requests, r # q, Receive(r) \/ Handle(r) PROVE req'[q] = req[q]
    BY <2>7, StepOfOne DEF OnlySlot, IInv
  <2> QED BY <2>2, <2>3, <2>4, <2>5, <2>6, <2>7 DEF Next
<1>3. \A s \in SessionIds : sessions'[s].startedAt <= clock'
  <2> SUFFICES ASSUME NEW s \in SessionIds PROVE sessions'[s].startedAt <= clock'
    OBVIOUS
  <2>1. sessions[s].startedAt <= clock /\ sessions[s] \in SessionRow
        /\ sessions \in [SessionIds -> SessionRow] /\ sessions'[s] \in SessionRow
    BY DEF IInv, HandlerInv, Past, TypeOK, TablesOK
  <2>2. CASE sessions[s].status # "NONE"
    BY <1>1, <2>1, <2>2 DEF Grows, SessionRow
  <2>3. CASE sessions' = sessions
    BY <1>1, <2>1, <2>3 DEF SessionRow
  <2>4. ASSUME NEW r \in Requests, CreateSession(r) PROVE sessions'[s].startedAt <= clock'
    <3>1. req[r].time <= clock /\ req[r].time \in Int /\ req[r].session \in SessionIds
      BY <2>4 DEF CreateSession, IInv, HandlerInv, Past, TypeOK, SlotsOK, Request
    <3>2. sessions'[s] = sessions[s] \/ sessions'[s].startedAt = req[r].time
      BY <2>1, <2>4, <3>1 DEF CreateSession
    <3> QED BY <1>1, <2>1, <3>1, <3>2 DEF SessionRow
  <2>5. ASSUME NEW r \in Requests, EndSession(r) PROVE sessions'[s].startedAt <= clock'
    <3>1. PICK e \in snap[r].at .. clock :
            sessions' = [sessions EXCEPT ![req[r].session].status = "COMPLETED",
                                         ![req[r].session].endedAt = e]
      BY <2>5 DEF EndSession
    <3>2. sessions'[s].startedAt = sessions[s].startedAt
      BY <2>1, <3>1 DEF SessionRow
    <3> QED BY <1>1, <2>1, <3>2 DEF SessionRow
  <2>6. ASSUME NEW r \in Requests, Handle(r), ~ CreateSession(r), ~ EndSession(r)
        PROVE  sessions' = sessions
    BY <2>6 DEF Handle, CheckActive, BeginTx, RejectedBySession,
       SerializationFailure, TooEarly, FindExisting, InsertLog, UniqueViolation,
       RecheckSession, FindConcurrent, tables
  <2>7. ASSUME NEW r \in Requests, Receive(r) PROVE sessions' = sessions
    BY <2>7 DEF Receive, RequestStart, RequestLogV1, RequestLogV2, RequestEnd, Issue
  <2> QED BY <2>3, <2>4, <2>5, <2>6, <2>7 DEF Next, vars, Tick
<1>4. \A l \in logs' : l.loggedAt <= clock'
  <2> SUFFICES ASSUME NEW l \in logs' PROVE l.loggedAt <= clock'
    OBVIOUS
  <2>1. l.loggedAt \in Int
    BY DEF TypeOK, TablesOK, Log
  <2>2. CASE l \in logs
    BY <1>1, <2>1, <2>2 DEF IInv, HandlerInv, Past
  <2>3. ASSUME NEW r \in Requests, InsertLog(r), l \notin logs PROVE l.loggedAt <= clock'
    <3>1. l.loggedAt = req[r].time
      BY <2>3 DEF InsertLog, NewLog
    <3> QED BY <1>1, <2>1, <3>1 DEF IInv, HandlerInv, Past
  <2>4. ASSUME NEW r \in Requests, Handle(r), ~ InsertLog(r) PROVE logs' = logs
    BY <2>4 DEF Handle, CheckActive, CreateSession, BeginTx, RejectedBySession,
       SerializationFailure, TooEarly, FindExisting, UniqueViolation,
       RecheckSession, FindConcurrent, EndSession, tables
  <2>5. ASSUME NEW r \in Requests, Receive(r) PROVE logs' = logs
    BY <2>5 DEF Receive, RequestStart, RequestLogV1, RequestLogV2, RequestEnd, Issue
  <2> QED BY <2>2, <2>3, <2>4, <2>5 DEF Next, vars, Tick
<1> QED BY <1>2, <1>3, <1>4 DEF Past

LEMMA BoundedStep ==
  ASSUME IInv, [Next]_vars
  PROVE  Bounded'
<1> SUFFICES ASSUME NEW q \in Requests
             PROVE  /\ req'[q].kind = "v1" => req'[q].client = NULL
                    /\ req'[q].kind = "v2" => /\ req'[q].client # NULL
                                              /\ req'[q].measuredAt <= req'[q].time + MaxFuture
  BY DEF Bounded
<1>1. CASE req'[q] = req[q]
  BY <1>1 DEF IInv, HandlerInv, Bounded
<1>2. CASE CheckActive(q) /\ req'[q] # req[q]
  <2>1. req[q].kind = "start"
    BY <1>2 DEF CheckActive, IInv, HandlerInv, FreshIds, Starting
  <2>2. req'[q].kind = req[q].kind
    BY <1>2 DEF CheckActive, Answer, IInv, TypeOK, SlotsOK, Request
  <2> QED BY <2>1, <2>2
<1>3. CASE Receive(q)
  BY <1>3 DEF Receive, RequestStart, RequestLogV1, RequestLogV2, RequestEnd, Issue,
     NotTooFuture, Bare, NoTime, IInv, TypeOK, SlotsOK
<1>4. ASSUME Handle(q), ~ CheckActive(q) PROVE req' = req
  BY <1>4 DEF Handle, CreateSession, BeginTx, RejectedBySession,
     SerializationFailure, TooEarly, FindExisting, InsertLog, UniqueViolation,
     RecheckSession, FindConcurrent, EndSession, Answer, Goto
<1>5. CASE UNCHANGED vars \/ Tick
  BY <1>1, <1>5 DEF vars, Tick
<1>6. ASSUME NEW r \in Requests, r # q, Receive(r) \/ Handle(r) PROVE req'[q] = req[q]
  BY <1>6, StepOfOne DEF OnlySlot, IInv
<1> QED BY <1>1, <1>2, <1>3, <1>4, <1>5, <1>6 DEF Next

LEMMA FreshIdsStep ==
  ASSUME IInv, [Next]_vars
  PROVE  FreshIds'
<1> DEFINE id(r) == req[r].session
(* A slot that is starting after the step was so before, on the same id, unless it *)
(* has just been issued on an id nobody uses.                                       *)
<1>1. ASSUME NEW q \in Requests, Starting(q)', ~ RequestStart(q)
      PROVE  Starting(q) /\ req'[q].session = req[q].session /\ req'[q].kind = req[q].kind
  <2>1. CASE pc'[q] = pc[q] /\ req'[q] = req[q]
    BY <1>1, <2>1 DEF Starting
  <2>2. CASE CheckActive(q)
    BY <1>1, <2>2 DEF CheckActive, Answer, Starting, IInv, TypeOK, SlotsOK, Request
  <2>3. ASSUME Handle(q), ~ CheckActive(q) PROVE ~ Starting(q)'
    BY <2>3 DEF Handle, CreateSession, BeginTx, RejectedBySession,
       SerializationFailure, TooEarly, FindExisting, InsertLog, UniqueViolation,
       RecheckSession, FindConcurrent, EndSession, Answer, Goto, Starting, IInv, TypeOK, SlotsOK
  <2>4. ASSUME RequestLogV1(q) \/ RequestLogV2(q) \/ RequestEnd(q) PROVE ~ Starting(q)'
    BY <2>4 DEF RequestLogV1, RequestLogV2, RequestEnd, Issue, Starting, IInv, TypeOK, SlotsOK
  <2>5. CASE UNCHANGED vars \/ Tick
    BY <2>1, <2>5 DEF vars, Tick
  <2>6. ASSUME NEW r \in Requests, r # q, Receive(r) \/ Handle(r)
        PROVE  pc'[q] = pc[q] /\ req'[q] = req[q]
    BY <2>6, StepOfOne DEF OnlySlot, IInv
  <2> QED BY <1>1, <2>1, <2>2, <2>3, <2>4, <2>5, <2>6 DEF Next, Receive
<1>2. ASSUME NEW q \in Requests, RequestStart(q)
      PROVE  /\ sessions' = sessions /\ req'[q].kind = "start" /\ req'[q].session \in SessionIds
             /\ sessions[req'[q].session].status = "NONE"
             /\ \A p \in Requests : Starting(p) => req[p].session # req'[q].session
             /\ \A p \in Requests : p # q => req'[p] = req[p]
             /\ \A p \in Requests : p # q => pc'[p] = pc[p]
  BY <1>2 DEF RequestStart, Issue, Bare, Starting, IInv, TypeOK, SlotsOK
<1>3. ASSUME NEW q \in Requests, Starting(q), ~ CreateSession(q)
      PROVE  sessions'[id(q)].status = "NONE"
  <2>1. /\ sessions[id(q)].status = "NONE" /\ id(q) \in SessionIds
        /\ \A r \in Requests : Starting(r) /\ r # q => id(r) # id(q)
        /\ sessions \in [SessionIds -> SessionRow]
    BY <1>3 DEF IInv, HandlerInv, FreshIds, TypeOK, TablesOK, SlotsOK, Request, Starting
  <2>2. CASE sessions' = sessions
    BY <2>1, <2>2
  <2>3. ASSUME NEW r \in Requests, CreateSession(r) PROVE sessions'[id(q)].status = "NONE"
    <3>1. r # q /\ Starting(r)
      BY <1>3, <2>3 DEF CreateSession, Starting
    <3> QED BY <2>1, <2>3, <3>1 DEF CreateSession
  <2>4. ASSUME NEW r \in Requests, EndSession(r) PROVE sessions'[id(q)].status = "NONE"
    <3>1. sessions[id(r)].status = "IN_PROGRESS"
      BY <2>4, CheckOK DEF EndSession, SessionRowCurrent, IInv
    <3>2. id(r) # id(q)
      BY <2>1, <3>1
    <3> QED BY <2>1, <2>4, <3>2 DEF EndSession
  <2>5. ASSUME NEW r \in Requests, Handle(r), ~ CreateSession(r), ~ EndSession(r)
        PROVE  sessions' = sessions
    BY <2>5 DEF Handle, CheckActive, BeginTx, RejectedBySession,
       SerializationFailure, TooEarly, FindExisting, InsertLog, UniqueViolation,
       RecheckSession, FindConcurrent, tables
  <2>6. ASSUME NEW r \in Requests, Receive(r) PROVE sessions' = sessions
    BY <2>6 DEF Receive, RequestStart, RequestLogV1, RequestLogV2, RequestEnd, Issue
  <2> QED BY <2>2, <2>3, <2>4, <2>5, <2>6 DEF Next, vars, Tick
<1> SUFFICES ASSUME NEW q \in Requests, Starting(q)'
             PROVE  /\ req'[q].kind = "start"
                    /\ sessions'[req'[q].session].status = "NONE"
                    /\ \A p \in Requests : Starting(p)' /\ p # q => req'[p].session # req'[q].session
  BY DEF FreshIds
<1>4. CASE RequestStart(q)
  <2>1. ASSUME NEW p \in Requests, p # q, Starting(p)' PROVE req'[p].session # req'[q].session
    <3>1. Starting(p) /\ req'[p] = req[p]
      BY <1>2, <1>4, <2>1 DEF Starting
    <3> QED BY <1>2, <1>4, <3>1
  <2> QED BY <1>2, <1>4, <2>1
<1>5. CASE ~ RequestStart(q)
  <2>1. Starting(q) /\ req'[q].session = id(q) /\ req'[q].kind = req[q].kind
    BY <1>1, <1>5
  <2>2. ~ CreateSession(q)
    BY DEF CreateSession, Answer, Starting, IInv, TypeOK, SlotsOK
  <2>3. ASSUME NEW p \in Requests, p # q, Starting(p)' PROVE req'[p].session # req'[q].session
    <3>1. CASE RequestStart(p)
      BY <1>2, <2>1, <3>1
    <3>2. CASE ~ RequestStart(p)
      BY <1>1, <2>1, <2>3, <3>2 DEF IInv, HandlerInv, FreshIds
    <3> QED BY <3>1, <3>2
  <2> QED BY <1>3, <2>1, <2>2, <2>3 DEF IInv, HandlerInv, FreshIds
<1> QED BY <1>4, <1>5

LEMMA InitInvariant == Init => IInv
<1> SUFFICES ASSUME Init PROVE LedgerInv /\ HandlerInv
  BY InitType DEF IInv
<1>1. LedgerInv
  BY DEF Init, LedgerInv, Blank, OneActivePerUser, ReportsComplete, OneLogPerMeasurement,
         TimesAgree, ActiveOf, LogsOf, NoSession
<1>2. HandlerInv
  BY DEF Init, HandlerInv, FreshIds, Starting, Past, Bounded, Snapshots, InTransaction,
         NoSession, NoRequest, Bare, NoTime
<1> QED BY <1>1, <1>2

LEMMA StepInvariant == IInv /\ [Next]_vars => IInv'
<1> SUFFICES ASSUME IInv, [Next]_vars PROVE IInv'
  OBVIOUS
<1>1. TypeOK'
  BY StepType DEF IInv
<1>2. LedgerInv'
  BY <1>1, StepRefines, LedgerKeeps DEF IInv
<1>3. HandlerInv'
  BY <1>1, StepGrows, FreshIdsStep, PastStep, BoundedStep, SnapshotsStep DEF HandlerInv
<1> QED BY <1>1, <1>2, <1>3 DEF IInv

(* The inductive invariant: the rows of the tables agree with each other,   *)
(* and what every handler holds was true of the tables when it read it.     *)
THEOREM Invariant == Spec => []IInv
BY InitInvariant, StepInvariant, PTL DEF Spec

(* startSession: a user never has two sessions in progress.                 *)
THEOREM OneActive == Spec => []OneActivePerUser
<1>1. IInv => OneActivePerUser
  BY DEF IInv, LedgerInv
<1> QED BY <1>1, Invariant, PTL

(* endSession: the report of a completed session is of exactly its logs.    *)
THEOREM ReportsAreComplete == Spec => []ReportsComplete
<1>1. IInv => ReportsComplete
  BY DEF IInv, LedgerInv
<1> QED BY <1>1, Invariant, PTL

(* logConcentration, logConcentrationV2: retries are stored once.           *)
THEOREM LogsAreUnique == Spec => []OneLogPerMeasurement
<1>1. IInv => OneLogPerMeasurement
  BY DEF IInv, LedgerInv
<1> QED BY <1>1, Invariant, PTL

(* The instants the handlers read agree in what they store.                 *)
THEOREM TimesDoAgree == Spec => []TimesAgree
<1>1. IInv => TimesAgree
  BY DEF IInv, LedgerInv
<1> QED BY <1>1, Invariant, PTL

(* The handlers, their transactions, retries and rechecks implement the     *)
(* atomic ledger.                                                           *)
THEOREM Refinement == Spec => ImplementsLedger
<1>1. Init => Ledger!LedgerInit
  BY DEF Init, Ledger!LedgerInit, NoSession, Ledger!NoSession, NoTime, Ledger!NoTime
<1>2. IInv /\ [Next]_vars => [Ledger!LedgerNext]_(Ledger!ledger)
  BY StepRefines DEF tables, Ledger!ledger
<1> QED BY <1>1, <1>2, Invariant, PTL DEF Spec, ImplementsLedger, Ledger!LedgerSpec

-------------------------------------------------------------------------------
(* Acknowledgements and history. *)

Frozen == /\ logs \subseteq logs'
          /\ reports \subseteq reports'
          /\ \A s \in SessionIds : sessions[s].status = "COMPLETED" =>
               sessions'[s] = sessions[s] /\ LogsOf(logs', s) = LogsOf(logs, s)

LEMMA LedgerFreezes ==
  ASSUME TypeOK, Ledger!LedgerNext
  PROVE  Frozen
<1>0. sessions \in [SessionIds -> SessionRow]
  BY DEF TypeOK, TablesOK
<1>1. ASSUME NEW s \in SessionIds, Ledger!Start(s) PROVE Frozen
  BY <1>0, <1>1 DEF Frozen, Ledger!Start, Ledger!NoSession
<1>2. ASSUME NEW s \in SessionIds, Ledger!Record(s) PROVE Frozen
  BY <1>2 DEF Frozen, Ledger!Record, LogsOf
<1>3. ASSUME NEW s \in SessionIds, Ledger!Complete(s) PROVE Frozen
  BY <1>0, <1>3 DEF Frozen, Ledger!Complete
<1> QED BY <1>1, <1>2, <1>3 DEF Ledger!LedgerNext

(* A completed session, its logs and its report never change again.         *)
THEOREM HistoryIsFrozen == Spec => HistoryFrozen
<1>1. IInv /\ [Next]_vars => [Frozen]_tables
  BY StepRefines, LedgerFreezes DEF IInv
<1> QED BY <1>1, Invariant, PTL DEF Spec, HistoryFrozen, Frozen

Acknowledged(q) ==
  pc[q] = "done" /\ IsLog(q) /\ answer[q].code = 200 =>
    /\ sessions[req[q].session].user = req[q].user
    /\ \E l \in logs :
         /\ answer[q].rows = {l}
         /\ l.session = req[q].session
         /\ l.content = req[q].content
         /\ req[q].kind = "v2" => l.client = req[q].client /\ l.measuredAt = req[q].measuredAt

LEMMA SnapshotUser ==
  ASSUME IInv, NEW r \in Requests, InTransaction(r),
         SessionCheck(snap[r].session, req[r].user) = 200
  PROVE  /\ sessions[req[r].session].user = req[r].user
         /\ sessions[req[r].session].status # "NONE"
         /\ snap[r].logs \subseteq LogsOf(logs, req[r].session)
BY CheckOK DEF IInv, HandlerInv, Snapshots, SnapshotOfPast

LEMMA TwinAnswers ==
  ASSUME IInv, NEW q \in Requests, IsLog(q), NEW x \in LogsOf(logs, req[q].session),
         SameContent(q, x, NewLog(q, snap[q].session.startedAt)),
         sessions[req[q].session].user = req[q].user,
         answer'[q].rows = {x}, req' = req, UNCHANGED <<sessions, logs>>
  PROVE  Acknowledged(q)'
<1> DEFINE l == NewLog(q, snap[q].session.startedAt)
<1>1. /\ l.content = req[q].content /\ l.client = req[q].client
      /\ l.measuredAt = req[q].measuredAt
  BY DEF NewLog
<1>2. /\ x \in logs /\ x.session = req[q].session /\ x.content = req[q].content
      /\ req[q].kind = "v2" => x.client = req[q].client /\ x.measuredAt = req[q].measuredAt
  BY <1>1 DEF SameContent, LogsOf
<1> QED BY <1>2 DEF Acknowledged

LEMMA AcknowledgedStep ==
  IInv /\ AcknowledgedLogsStored /\ [Next]_vars => AcknowledgedLogsStored'
<1> SUFFICES ASSUME IInv, AcknowledgedLogsStored, [Next]_vars, NEW q \in Requests
             PROVE  Acknowledged(q)'
  BY DEF AcknowledgedLogsStored, Acknowledged, IsLog
<1> DEFINE l == NewLog(q, snap[q].session.startedAt)
           s == req[q].session
<1>1. Grows
  BY StepGrows, StepType DEF IInv
<1>2. CASE pc'[q] = pc[q] /\ req'[q] = req[q] /\ answer'[q] = answer[q]
  <2> SUFFICES ASSUME pc[q] = "done", IsLog(q), answer[q].code = 200 PROVE Acknowledged(q)'
    BY <1>2 DEF Acknowledged, IsLog
  <2>1. s \in SessionIds /\ req[q].user \in Users
    BY DEF IInv, TypeOK, SlotsOK, Request
  <2>2. sessions[s].user = req[q].user
    BY DEF AcknowledgedLogsStored
  <2>3. sessions[s].status # "NONE"
    BY <2>1, <2>2 DEF IInv, LedgerInv, Blank, NoSession
  <2>4. sessions'[s].user = req[q].user
    BY <1>1, <2>1, <2>2, <2>3 DEF Grows
  <2> QED BY <1>1, <1>2, <2>4 DEF Acknowledged, AcknowledgedLogsStored, Grows
<1>3. CASE FindExisting(q)
  <2>1. /\ pc[q] = "tx" /\ IsLog(q) /\ SessionCheck(snap[q].session, req[q].user) = 200
        /\ UNCHANGED <<sessions, logs>>
    BY <1>3 DEF FindExisting, Logging, tables
  <2>2. CASE Answer(q, 409, {})
    BY <2>2 DEF Acknowledged, Answer, IInv, TypeOK, SlotsOK
  <2>3. ASSUME NEW x \in Twins(q, snap[q].logs, l), SameContent(q, x, l), Answer(q, 200, {x})
        PROVE  Acknowledged(q)'
    <3>1. x \in snap[q].logs
      BY <2>3 DEF Twins, AtMinute, ByClient, LogsOf
    <3>2. x \in LogsOf(logs, s) /\ sessions[s].user = req[q].user
      BY <2>1, <3>1, SnapshotUser DEF InTransaction
    <3>3. answer'[q].rows = {x} /\ req' = req
      BY <2>3 DEF Answer, IInv, TypeOK, SlotsOK
    <3> QED BY <2>1, <2>3, <3>2, <3>3, TwinAnswers
  <2> QED BY <1>3, <2>2, <2>3 DEF FindExisting
<1>4. CASE InsertLog(q)
  <2>1. /\ pc[q] = "tx" /\ IsLog(q) /\ SessionCheck(snap[q].session, req[q].user) = 200
        /\ logs' = logs \cup {l} /\ sessions' = sessions /\ Answer(q, 200, {l})
    BY <1>4 DEF InsertLog, WantsInsert, Logging
  <2>2. sessions[s].user = req[q].user
    BY <2>1, SnapshotUser DEF InTransaction
  <2>3. answer'[q].rows = {l} /\ req' = req
    BY <2>1 DEF Answer, IInv, TypeOK, SlotsOK
  <2>4. /\ l.session = s /\ l.content = req[q].content /\ l.client = req[q].client
        /\ l.measuredAt = req[q].measuredAt
    BY DEF NewLog
  <2> HIDE DEF l
  <2>5. l \in logs'
    BY <2>1
  <2> QED BY <2>1, <2>2, <2>3, <2>4, <2>5 DEF Acknowledged
<1>5. CASE FindConcurrent(q)
  <2>1. /\ pc[q] = "concurrent" /\ UNCHANGED <<sessions, logs>>
    BY <1>5 DEF FindConcurrent, tables
  <2>2. IsLog(q) /\ SessionCheck(snap[q].session, req[q].user) = 200
    BY <2>1 DEF IInv, HandlerInv, Snapshots, InTransaction
  <2>3. CASE Answer(q, 409, {})
    BY <2>3 DEF Acknowledged, Answer, IInv, TypeOK, SlotsOK
  <2>4. ASSUME NEW x \in Twins(q, logs, l), SameContent(q, x, l), Answer(q, 200, {x})
        PROVE  Acknowledged(q)'
    <3>1. x \in LogsOf(logs, s)
      BY <2>4 DEF Twins, AtMinute, ByClient, NewLog
    <3>2. sessions[s].user = req[q].user
      BY <2>1, <2>2, SnapshotUser DEF InTransaction
    <3>3. answer'[q].rows = {x} /\ req' = req
      BY <2>4 DEF Answer, IInv, TypeOK, SlotsOK
    <3> QED BY <2>1, <2>2, <2>4, <3>1, <3>2, <3>3, TwinAnswers
  <2> QED BY <1>5, <2>3, <2>4 DEF FindConcurrent
<1>6. CASE CheckActive(q) \/ CreateSession(q) \/ EndSession(q)
  <2>1. ~ IsLog(q)
    BY <1>6 DEF CheckActive, CreateSession, EndSession, IsLog, IInv, HandlerInv, FreshIds, Starting
  <2>2. req'[q].kind = req[q].kind
    BY <1>6 DEF CheckActive, CreateSession, EndSession, Answer, IInv, TypeOK, SlotsOK, Request
  <2> QED BY <2>1, <2>2 DEF Acknowledged, IsLog
<1>7. CASE RejectedBySession(q)
  BY <1>7 DEF RejectedBySession, Answer, Acknowledged, IInv, TypeOK, SlotsOK
<1>8. CASE \/ BeginTx(q) \/ SerializationFailure(q) \/ TooEarly(q) \/ UniqueViolation(q)
           \/ RecheckSession(q) \/ Receive(q)
  BY <1>8 DEF BeginTx, SerializationFailure, TooEarly, UniqueViolation, RecheckSession,
     Receive, RequestStart, RequestLogV1, RequestLogV2, RequestEnd, Issue, Answer, Goto,
     Acknowledged, IInv, TypeOK, SlotsOK
<1>9. CASE UNCHANGED vars \/ Tick
  BY <1>2, <1>9 DEF vars, Tick
<1>10. ASSUME NEW r \in Requests, r # q, Receive(r) \/ Handle(r)
       PROVE  pc'[q] = pc[q] /\ req'[q] = req[q] /\ answer'[q] = answer[q]
  BY <1>10, StepOfOne DEF OnlySlot, IInv
<1> QED BY <1>2, <1>3, <1>4, <1>5, <1>6, <1>7, <1>8, <1>9, <1>10 DEF Next, Handle

(* A log answered 200 is stored as it was sent, in a session of its user.   *)
THEOREM AcknowledgedIsStored == Spec => []AcknowledgedLogsStored
<1>1. Init => AcknowledgedLogsStored
  BY DEF Init, AcknowledgedLogsStored
<1> QED BY <1>1, AcknowledgedStep, Invariant, PTL DEF Spec

-------------------------------------------------------------------------------
(* The end of a session. *)

(* The step that gives a slot its end: the session was in progress until then. *)
LEMMA EndMoves ==
  ASSUME IInv, NEW r \in Requests, EndSession(r)
  PROVE  /\ req' = req /\ logs' = logs /\ req[r].session \in SessionIds
         /\ sessions[req[r].session].status = "IN_PROGRESS"
         /\ sessions'[req[r].session].status = "COMPLETED"
         /\ answer'[r].rows = LogsOf(logs, req[r].session)
<1> DEFINE s == req[r].session
<1>1. PICK e \in snap[r].at .. clock :
        sessions' = [sessions EXCEPT ![s].status = "COMPLETED", ![s].endedAt = e]
  BY DEF EndSession
<1>2. /\ pc[r] = "tx" /\ SessionCheck(snap[r].session, req[r].user) = 200
      /\ sessions[s] = snap[r].session /\ LogsOf(logs, s) = snap[r].logs /\ UNCHANGED logs
      /\ Answer(r, 200, snap[r].logs)
  BY DEF EndSession, SessionRowCurrent, LogsCurrent
<1>3. s \in SessionIds /\ sessions \in [SessionIds -> SessionRow]
  BY <1>2 DEF IInv, TypeOK, TablesOK, SlotsOK, Request
<1>4. sessions[s].status = "IN_PROGRESS"
  BY <1>2, CheckOK DEF IInv
<1>5. sessions'[s].status = "COMPLETED"
  BY <1>1, <1>3 DEF SessionRow
<1>6. req' = req /\ answer'[r].rows = snap[r].logs
  BY <1>2 DEF Answer, IInv, TypeOK, SlotsOK
<1> QED BY <1>2, <1>3, <1>4, <1>5, <1>6

(* No other step makes a slot one whose end has succeeded. *)
LEMMA OnlyEndEnds ==
  ASSUME IInv, NEW q \in Requests, Handle(q), ~ EndSession(q), Ended(q)'
  PROVE  FALSE
<1>1. CASE \/ BeginTx(q) \/ SerializationFailure(q) \/ TooEarly(q) \/ UniqueViolation(q)
           \/ RejectedBySession(q) \/ RecheckSession(q)
  BY <1>1 DEF BeginTx, SerializationFailure, TooEarly, UniqueViolation, RejectedBySession,
     RecheckSession, Answer, Goto, Ended, IInv, TypeOK, SlotsOK
<1>2. CASE CheckActive(q) \/ CreateSession(q)
  <2>1. req[q].kind = "start" /\ req'[q].kind = req[q].kind
    BY <1>2 DEF CheckActive, CreateSession, Answer, IInv, HandlerInv, FreshIds, Starting,
       TypeOK, SlotsOK, Request
  <2> QED BY <2>1 DEF Ended
<1>3. CASE FindExisting(q) \/ InsertLog(q)
  <2>1. IsLog(q) /\ req' = req
    BY <1>3 DEF FindExisting, InsertLog, WantsInsert, Logging, Answer
  <2> QED BY <2>1 DEF Ended, IsLog
<1>4. CASE FindConcurrent(q)
  <2>1. IsLog(q) /\ req' = req
    BY <1>4 DEF FindConcurrent, Answer, IInv, HandlerInv, Snapshots, InTransaction
  <2> QED BY <2>1 DEF Ended, IsLog
<1> QED BY <1>1, <1>2, <1>3, <1>4 DEF Handle

(* A slot whose end has succeeded either had it before, or has it by this step. *)
LEMMA EndedBefore ==
  ASSUME IInv, [Next]_vars, NEW q \in Requests, Ended(q)'
  PROVE  \/ EndSession(q)
         \/ Ended(q) /\ req'[q] = req[q] /\ answer'[q] = answer[q]
<1>1. CASE pc'[q] = pc[q] /\ req'[q] = req[q] /\ answer'[q] = answer[q]
  BY <1>1 DEF Ended
<1>2. CASE Receive(q)
  BY <1>2 DEF Receive, RequestStart, RequestLogV1, RequestLogV2, RequestEnd, Issue, Ended,
     IInv, TypeOK, SlotsOK
<1>3. CASE Handle(q)
  BY <1>3, OnlyEndEnds
<1>4. CASE UNCHANGED vars \/ Tick
  BY <1>1, <1>4 DEF vars, Tick
<1>5. ASSUME NEW r \in Requests, r # q, Receive(r) \/ Handle(r)
      PROVE  pc'[q] = pc[q] /\ req'[q] = req[q] /\ answer'[q] = answer[q]
  BY <1>5, StepOfOne DEF OnlySlot, IInv
<1> QED BY <1>1, <1>2, <1>3, <1>4, <1>5 DEF Next

LEMMA EndsStep == IInv /\ EndsHold /\ [Next]_vars => EndsHold'
<1> SUFFICES ASSUME IInv, EndsHold, [Next]_vars, NEW r \in Requests, Ended(r)'
             PROVE  /\ sessions'[req'[r].session].status = "COMPLETED"
                    /\ answer'[r].rows = LogsOf(logs', req'[r].session)
                    /\ \A q \in Requests :
                         Ended(q)' /\ req'[q].session = req'[r].session => q = r
  BY DEF EndsHold
<1>1. UNCHANGED tables \/ Frozen
  BY StepRefines, LedgerFreezes DEF IInv
<1>2. ASSUME NEW q \in Requests, Ended(q)
      PROVE  /\ req[q].session \in SessionIds
             /\ sessions[req[q].session].status = "COMPLETED"
             /\ answer[q].rows = LogsOf(logs, req[q].session)
  BY <1>2 DEF EndsHold, Ended, IInv, TypeOK, SlotsOK, Request
<1>3. CASE EndSession(r)
  <2>1. ASSUME NEW q \in Requests, Ended(q)', req'[q].session = req'[r].session, q # r
        PROVE  FALSE
    <3>1. ~ EndSession(q)
      BY <1>3, <2>1 DEF EndSession, Answer, IInv, TypeOK, SlotsOK
    <3>2. Ended(q) /\ req'[q] = req[q]
      BY <2>1, <3>1, EndedBefore
    <3> QED BY <1>2, <1>3, <2>1, <3>2, EndMoves
  <2> QED BY <1>3, <2>1, EndMoves
<1>4. CASE ~ EndSession(r)
  <2>1. Ended(r) /\ req'[r] = req[r] /\ answer'[r] = answer[r]
    BY <1>4, EndedBefore
  <2>2. /\ sessions'[req[r].session].status = "COMPLETED"
        /\ answer[r].rows = LogsOf(logs', req[r].session)
    BY <1>1, <1>2, <2>1 DEF Frozen, tables
  <2>3. ASSUME NEW q \in Requests, Ended(q)', req'[q].session = req'[r].session
        PROVE  q = r
    <3>1. CASE EndSession(q)
      BY <1>2, <2>1, <2>3, <3>1, EndMoves
    <3>2. CASE ~ EndSession(q)
      BY <2>1, <2>3, <3>2, EndedBefore DEF EndsHold
    <3> QED BY <3>1, <3>2
  <2> QED BY <2>1, <2>2, <2>3
<1> QED BY <1>3, <1>4

(* endSession: of the requests to end a session only one is answered 200,   *)
(* and what it answered is the report that is stored.                       *)
THEOREM OneEnd == Spec => []OneEndSucceeds
<1>1. Init => EndsHold
  BY DEF Init, EndsHold, Ended
<1>2. ASSUME IInv, EndsHold PROVE OneEndSucceeds
  <2> SUFFICES ASSUME NEW s \in SessionIds, NEW q \in Requests, NEW r \in Requests,
                      Ended(q), req[q].session = s, Ended(r), req[r].session = s
               PROVE  /\ q = r
                      /\ \E rep \in reports : rep.session = s /\ rep.logs = answer[r].rows
    BY DEF OneEndSucceeds, Ended
  <2>1. q = r /\ sessions[s].status = "COMPLETED" /\ answer[r].rows = LogsOf(logs, s)
    BY <1>2 DEF EndsHold
  <2>2. {rep \in reports : rep.session = s} = {Summary(s, sessions[s], logs, sessions[s].endedAt)}
    BY <1>2, <2>1 DEF IInv, LedgerInv, ReportsComplete
  <2>3. PICK rep \in reports : rep.session = s
                               /\ rep = Summary(s, sessions[s], logs, sessions[s].endedAt)
    BY <2>2
  <2> QED BY <2>1, <2>3 DEF Summary
<1> QED BY <1>1, <1>2, EndsStep, Invariant, PTL DEF Spec
==============================================================================
