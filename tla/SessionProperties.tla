-------------------------- MODULE SessionProperties --------------------------
(* The correctness properties of the session handlers. *)
EXTENDS Sessions

TablesOK == /\ sessions \in [SessionIds -> SessionRow]
            /\ logs \subseteq Log
            /\ reports \subseteq Report

Labels == {"idle", "check", "create", "begin", "tx", "recheck", "concurrent", "done"}
Codes  == {0, 200, 201, 400, 403, 404, 409, 500}

SlotsOK ==
  /\ clock \in Nat
  /\ req \in [Requests -> Request \cup {NoRequest}]
  /\ pc \in [Requests -> Labels]
  /\ attempt \in [Requests -> 1 .. MaxAttempts]
  /\ snap \in [Requests -> Snapshot]
  /\ answer \in [Requests -> [code : Codes, rows : SUBSET Log]]
  /\ \A r \in Requests : pc[r] # "idle" => req[r] \in Request
  /\ \A r \in Requests : req[r].kind \in {"v1", "v2"} => req[r].content \in Contents

(* Every variable holds what the code can put there; in particular no      *)
(* request makes more than MaxAttempts attempts.                           *)
TypeOK == TablesOK /\ SlotsOK

(* However the starts of one user interleave, at most one of the sessions  *)
(* they create is in progress: the check before the insert is only advice, *)
(* startSession relies on the partial unique index.                        *)
OneActivePerUser == \A u \in Users : \A s, t \in ActiveOf(sessions, u) : s = t

(* A session is completed together with its report, and the report is of   *)
(* all the logs the session has: no log slips in between endSession's read *)
(* of the logs and its commit, and none is added later.                    *)
ReportsComplete ==
  \A s \in SessionIds :
    {rep \in reports : rep.session = s} =
      IF sessions[s].status = "COMPLETED"
      THEN {Summary(s, sessions[s], logs, sessions[s].endedAt)} ELSE {}

(* A session never has two logs for one minute nor two logs of one client  *)
(* id, whatever retries race: a v1 retry in the same minute and a v2 retry *)
(* at any time count once.                                                 *)
OneLogPerMeasurement ==
  \A l, m \in logs :
    l.session = m.session /\ (l.minute = m.minute \/ (l.client # NULL /\ l.client = m.client))
      => l = m

(* A log request answered 200, by its own insert, by an earlier row or by  *)
(* the row of a concurrent request, answered with a row that is stored in  *)
(* a session of its user and holds what it sent.                           *)
AcknowledgedLogsStored ==
  \A r \in Requests :
    pc[r] = "done" /\ IsLog(r) /\ answer[r].code = 200 =>
      /\ sessions[req[r].session].user = req[r].user
      /\ \E l \in logs :
           /\ answer[r].rows = {l}
           /\ l.session = req[r].session
           /\ l.content = req[r].content
           /\ req[r].kind = "v2" => l.client = req[r].client /\ l.measuredAt = req[r].measuredAt

(* Of the requests to end one session exactly one can be answered 200, and *)
(* its summary is the one stored.                                          *)
OneEndSucceeds ==
  LET Ended(s) == {r \in Requests : /\ pc[r] = "done" /\ req[r].kind = "end"
                                    /\ req[r].session = s /\ answer[r].code = 200}
  IN  \A s \in SessionIds : \A q, r \in Ended(s) :
        /\ q = r
        /\ \E rep \in reports : rep.session = s /\ rep.logs = answer[r].rows

(* The instants of a session agree although each is read at another moment *)
(* of another request: it ends after it started and after every log was    *)
(* received, each log is of a minute after the first, the one its instant  *)
(* falls in, and at most MaxFuture ahead of its receipt.                   *)
TimesAgree ==
  /\ \A s \in SessionIds : sessions[s].status = "COMPLETED" =>
       sessions[s].endedAt >= sessions[s].startedAt
  /\ \A l \in logs :
       LET row == sessions[l.session]
       IN  /\ l.minute >= 1
           /\ l.minute = MinuteIndex(row.startedAt, MeasuredTime(l))
           /\ MeasuredTime(l) <= l.loggedAt + MaxFuture
           /\ row.status = "COMPLETED" => l.loggedAt <= row.endedAt

(* What is written stays: a session once completed keeps its row, its logs *)
(* and its report, and no log of any session is changed or dropped.        *)
HistoryFrozen ==
  [][/\ logs \subseteq logs'
     /\ reports \subseteq reports'
     /\ \A s \in SessionIds : sessions[s].status = "COMPLETED" =>
          sessions'[s] = sessions[s] /\ LogsOf(logs', s) = LogsOf(logs, s)]_tables

(* Every request is answered: the retries of runSerializableTransaction    *)
(* end, and no handler waits for another.                                  *)
EveryRequestAnswered ==
  \A r \in Requests : (pc[r] \notin Free) ~> (pc[r] = "done")

(* Seen from the tables every handler is one atomic operation of the       *)
(* ledger, or has no effect.                                               *)
ImplementsLedger == Ledger!LedgerSpec

-------------------------------------------------------------------------------
(* The inductive invariant of the proofs. *)

(* The tables alone: a session is blank until it is created. *)
Blank == \A s \in SessionIds : sessions[s].status = "NONE" =>
           sessions[s] = NoSession /\ LogsOf(logs, s) = {}

(* The id a start will insert is not in use, nor chosen by another start. *)
Starting(r) == pc[r] \in {"check", "create"}
FreshIds ==
  \A r \in Requests : Starting(r) =>
    /\ req[r].kind = "start"
    /\ sessions[req[r].session].status = "NONE"
    /\ \A q \in Requests : Starting(q) /\ q # r => req[q].session # req[r].session

(* Nothing carries an instant of the future except a measuredAt, and that  *)
(* only within the bound.                                                  *)
Past ==
  /\ \A l \in logs : l.loggedAt <= clock
  /\ \A s \in SessionIds : sessions[s].startedAt <= clock
  /\ \A r \in Requests : req[r].time <= clock
Bounded ==
  \A r \in Requests :
    /\ req[r].kind = "v1" => req[r].client = NULL
    /\ req[r].kind = "v2" => /\ req[r].client # NULL
                             /\ req[r].measuredAt <= req[r].time + MaxFuture

(* A snapshot shows an earlier state of its session: rows are only added,  *)
(* and of a started session only the status and the end still change.      *)
InTransaction(r) == pc[r] \in {"tx", "recheck", "concurrent"}
SnapshotOfPast(r) ==
  LET s == req[r].session
      row == snap[r].session
  IN  /\ snap[r].at <= clock
      /\ snap[r].logs \subseteq LogsOf(logs, s)
      /\ \A l \in snap[r].logs : l.loggedAt <= snap[r].at
      /\ row.startedAt <= snap[r].at
      /\ row.status # "NONE" => /\ sessions[s].status # "NONE"
                                /\ sessions[s].user = row.user
                                /\ sessions[s].startedAt = row.startedAt
Snapshots ==
  \A r \in Requests : InTransaction(r) =>
    /\ SnapshotOfPast(r)
    /\ pc[r] # "tx" => /\ IsLog(r)
                       /\ SessionCheck(snap[r].session, req[r].user) = 200

LedgerInv  == /\ Blank /\ OneActivePerUser /\ ReportsComplete
              /\ OneLogPerMeasurement /\ TimesAgree
HandlerInv == FreshIds /\ Past /\ Bounded /\ Snapshots

IInv == TypeOK /\ LedgerInv /\ HandlerInv

(* An end that was answered 200 left its session completed, with the logs  *)
(* it answered with, and no other slot holds such an answer for it.        *)
Ended(r) == pc[r] = "done" /\ req[r].kind = "end" /\ answer[r].code = 200
EndsHold ==
  \A r \in Requests : Ended(r) =>
    /\ sessions[req[r].session].status = "COMPLETED"
    /\ answer[r].rows = LogsOf(logs, req[r].session)
    /\ \A q \in Requests : Ended(q) /\ req[q].session = req[r].session => q = r
==============================================================================
