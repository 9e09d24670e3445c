---------------------------- MODULE SessionLedger ----------------------------
(***************************************************************************)
(* What the session API promises, with every operation one atomic step:    *)
(* a user has one session in progress at a time, a log is recorded once    *)
(* per minute and per client id and only while its session is in progress, *)
(* and ending a session writes a report of exactly the logs it has.        *)
(* Sessions.tla, the handlers and their transactions, implements this.     *)
(***************************************************************************)
EXTENDS SessionData

VARIABLES sessions, logs, reports
ledger == <<sessions, logs, reports>>

LedgerInit == /\ sessions = [s \in SessionIds |-> NoSession]
              /\ logs = {}
              /\ reports = {}

Start(s) ==
  \E u \in Users :
    /\ sessions[s] = NoSession
    /\ ActiveOf(sessions, u) = {}
    /\ sessions' = [sessions EXCEPT ![s] =
         [status |-> "IN_PROGRESS", user |-> u,
          startedAt |-> sessions'[s].startedAt, endedAt |-> NoTime]]
    /\ UNCHANGED <<logs, reports>>

Record(s) ==
  \E l \in logs' :
    /\ sessions[s].status = "IN_PROGRESS"
    /\ l.session = s
    /\ ~ Clash(logs, l)
    /\ l.minute >= 1
    /\ l.minute = MinuteIndex(sessions[s].startedAt, MeasuredTime(l))
    /\ MeasuredTime(l) <= l.loggedAt + MaxFuture
    /\ logs' = logs \cup {l}
    /\ UNCHANGED <<sessions, reports>>

Complete(s) ==
  LET endedAt == sessions'[s].endedAt
  IN  /\ sessions[s].status = "IN_PROGRESS"
      /\ endedAt >= sessions[s].startedAt
      /\ \A l \in LogsOf(logs, s) : l.loggedAt <= endedAt
      /\ sessions' = [sessions EXCEPT ![s].status = "COMPLETED", ![s].endedAt = endedAt]
      /\ reports' = reports \cup {Summary(s, sessions[s], logs, endedAt)}
      /\ UNCHANGED logs

LedgerNext == \E s \in SessionIds : Start(s) \/ Record(s) \/ Complete(s)

LedgerSpec == LedgerInit /\ [][LedgerNext]_ledger
==============================================================================
