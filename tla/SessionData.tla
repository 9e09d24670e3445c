----------------------------- MODULE SessionData -----------------------------
(***************************************************************************)
(* The rows the session tables hold and the pure functions the session     *)
(* controller applies to them (controllers/sessionsController.js,          *)
(* prisma/schema.prisma).  Scores are abstracted to an opaque Content: the *)
(* controller only ever compares them for equality.  An instant is a       *)
(* number of clock ticks, MINUTE ticks long is what the code calls         *)
(* MINUTE_MS.                                                              *)
(***************************************************************************)
EXTENDS Integers

CONSTANTS Users,        \* users.id
          SessionIds,   \* sessions.id
          Contents,     \* (gaze, blink, head, total, face_detected) of a log
          ClientIds,    \* client_log_id of a v2 log, NULL in a v1 log
          NULL,         \* no value
          MINUTE,       \* ticks in MINUTE_MS
          MaxFuture     \* ticks in MAX_FUTURE_MEASUREMENT_MS

ASSUME SessionDataAssumption ==
  /\ MINUTE \in Nat \ {0}
  /\ MaxFuture \in Nat
  /\ NULL \notin Users \cup ClientIds \cup Contents

NoTime == -1            \* a DateTime? column that is NULL

SessionRow == [status    : {"NONE", "IN_PROGRESS", "COMPLETED"},
               user      : Users \cup {NULL},
               startedAt : Int,
               endedAt   : Int]

NoSession == [status |-> "NONE", user |-> NULL,
              startedAt |-> NoTime, endedAt |-> NoTime]

Log == [session    : SessionIds,
        minute     : Nat \ {0},      \* CHECK (minute_index >= 1)
        loggedAt   : Int,
        client     : ClientIds \cup {NULL},
        measuredAt : Int,
        content    : Contents]

(* A report stores buildSessionSummary(logs, started_at, ended_at): a      *)
(* function of those rows and of the duration, both kept here as they are. *)
Report == [session : SessionIds, logs : SUBSET Log, duration : Int]

LogsOf(L, s)      == {l \in L : l.session = s}
AtMinute(L, s, m) == {l \in LogsOf(L, s) : l.minute = m}
ByClient(L, s, c) == {l \in LogsOf(L, s) : l.client = c}

(* The minute a measurement belongs to; below 1 calculateMinuteIndex       *)
(* answers 400.                                                            *)
MinuteIndex(startedAt, t) == (t - startedAt) \div MINUTE

(* The instant the minute of a stored log was computed from.               *)
MeasuredTime(l) == IF l.client = NULL THEN l.loggedAt ELSE l.measuredAt

NoClientIndex(L, l) ==    \* mutant: unique (session_id, client_log_id) missing
  AtMinute(L, l.session, l.minute) # {}
Clash(L, l) ==    \* a unique index of concentration_logs refuses l
  \/ AtMinute(L, l.session, l.minute) # {}
  \/ l.client # NULL /\ ByClient(L, l.session, l.client) # {}

ActiveOf(S, u) == {s \in SessionIds : S[s].user = u /\ S[s].status = "IN_PROGRESS"}

Summary(s, row, L, endedAt) ==
  [session |-> s, logs |-> LogsOf(L, s), duration |-> endedAt - row.startedAt]
==============================================================================
