------------------------------ MODULE Sessions -------------------------------
(***************************************************************************)
(* The writing handlers of controllers/sessionsController.js over the      *)
(* sessions, concentration_logs and reports tables of PostgreSQL.          *)
(*                                                                         *)
(* A request slot runs one handler at a time, one database round trip per  *)
(* step, interleaved with the other slots.  A slot that has answered may   *)
(* be issued again: the answer may have been lost and the new request may  *)
(* be the client's retry, or a different request altogether.               *)
(*                                                                         *)
(* runSerializableTransaction is modelled by what PostgreSQL guarantees    *)
(* it: the body reads a snapshot taken by its first query; a body that     *)
(* only read or threw ends without a conflict; a body that wrote commits   *)
(* only if what it read is still so, loses to a unique index (P2002), or   *)
(* is aborted (P2034), which may also happen for no visible reason.        *)
(***************************************************************************)
EXTENDS SessionData

CONSTANTS Requests,     \* slots for concurrent requests
          Kinds,        \* the endpoints this instance serves
          MaxAttempts,  \* maxAttempts of runSerializableTransaction
          MaxClock      \* bound: the clock stops here

ASSUME SessionsAssumption == /\ MaxAttempts \in Nat \ {0}
                             /\ MaxClock \in Nat
                             /\ Kinds \subseteq {"start", "v1", "v2", "end"}

VARIABLES
  sessions, logs, reports,  \* the tables
  clock,                    \* new Date()
  req,                      \* the request a slot serves or has served
  pc,                       \* what its handler does next
  attempt,                  \* attempt of runSerializableTransaction
  snap,                     \* the snapshot its transaction reads
  answer                    \* status and the rows of the response body

tables == <<sessions, logs, reports>>
vars == <<sessions, logs, reports, clock, req, pc, attempt, snap, answer>>

Ledger == INSTANCE SessionLedger

Request == [kind       : {"start", "v1", "v2", "end"},
            user       : Users,
            session    : SessionIds,
            time       : Int,        \* started_at, receivedAt
            client     : ClientIds \cup {NULL},
            measuredAt : Int,
            content    : Contents \cup {NULL}]

(* A request whose body says nothing. *)
Bare(kind, user, session) ==
  [kind |-> kind, user |-> user, session |-> session, time |-> NoTime,
   client |-> NULL, measuredAt |-> NoTime, content |-> NULL]

NoRequest == Bare("none", NULL, NULL)

Snapshot == [session : SessionRow, logs : SUBSET Log, at : Int]
NoSnapshot == [session |-> NoSession, logs |-> {}, at |-> NoTime]

Free == {"idle", "done"}

Init ==
  /\ sessions = [s \in SessionIds |-> NoSession]
  /\ logs = {}
  /\ reports = {}
  /\ clock = 0
  /\ req = [r \in Requests |-> NoRequest]
  /\ pc = [r \in Requests |-> "idle"]
  /\ attempt = [r \in Requests |-> 1]
  /\ snap = [r \in Requests |-> NoSnapshot]
  /\ answer = [r \in Requests |-> [code |-> 0, rows |-> {}]]

Answer(r, code, rows) ==
  /\ pc' = [pc EXCEPT ![r] = "done"]
  /\ answer' = [answer EXCEPT ![r] = [code |-> code, rows |-> rows]]
  /\ snap' = [snap EXCEPT ![r] = NoSnapshot]
  /\ attempt' = [attempt EXCEPT ![r] = 1]
  /\ UNCHANGED <<clock, req>>

Goto(r, label) ==
  /\ pc' = [pc EXCEPT ![r] = label]
  /\ UNCHANGED <<clock, req, answer>>

Issue(r, request, label) ==
  /\ pc[r] \in Free
  /\ request.kind \in Kinds
  /\ req' = [req EXCEPT ![r] = request]
  /\ pc' = [pc EXCEPT ![r] = label]
  /\ answer' = [answer EXCEPT ![r] = [code |-> 0, rows |-> {}]]
  /\ UNCHANGED <<sessions, logs, reports, clock, attempt, snap>>

-------------------------------------------------------------------------------
(* startSession *)

(* A request to start a session.  The UUID the database will generate is   *)
(* picked here, so that a bounded instance has one left for the insert.    *)
RequestStart(r) ==
  \E u \in Users, s \in SessionIds :
    /\ sessions[s].status = "NONE"
    /\ \A q \in Requests : pc[q] \in {"check", "create"} => req[q].session # s
    /\ Issue(r, Bare("start", u, s), "check")

(* findFirst of the session in progress; new Date() is evaluated as soon   *)
(* as it has answered, before the insert is sent.                          *)
CheckActive(r) ==
  /\ pc[r] = "check"
  /\ UNCHANGED tables
  /\ \/ /\ ActiveOf(sessions, req[r].user) # {}
        /\ Answer(r, 409, {})
     \/ /\ ActiveOf(sessions, req[r].user) = {}
        /\ req' = [req EXCEPT ![r].time = clock]
        /\ pc' = [pc EXCEPT ![r] = "create"]
        /\ UNCHANGED <<clock, attempt, snap, answer>>

(* create, against the partial unique index sessions_one_in_progress_per_user. *)
NoActiveIndex(u) == TRUE                          \* mutant: index not created
ActiveIndexAllows(u) == ActiveOf(sessions, u) = {}

CreateSession(r) ==
  /\ pc[r] = "create"
  /\ UNCHANGED <<logs, reports>>
  /\ IF ActiveIndexAllows(req[r].user)
     THEN /\ sessions' = [sessions EXCEPT ![req[r].session] =
                [status |-> "IN_PROGRESS", user |-> req[r].user,
                 startedAt |-> req[r].time, endedAt |-> NoTime]]
          /\ Answer(r, 201, {})
     ELSE /\ UNCHANGED sessions
          /\ Answer(r, 409, {})

-------------------------------------------------------------------------------
(* What the transactions of the other handlers have in common *)

(* The first query of an attempt takes the snapshot. *)
BeginTx(r) ==
  /\ pc[r] = "begin"
  /\ snap' = [snap EXCEPT ![r] = [session |-> sessions[req[r].session],
                                  logs |-> LogsOf(logs, req[r].session),
                                  at |-> clock]]
  /\ Goto(r, "tx")
  /\ UNCHANGED <<sessions, logs, reports, attempt>>

(* The status that the checks on a session row make the handler throw. *)
StatusUnchecked(row, user) ==                     \* mutant: status not checked
  IF row.status = "NONE" THEN 404 ELSE IF row.user # user THEN 403 ELSE 200
SessionCheck(row, user) == IF row.status = "NONE" THEN 404
                           ELSE IF row.user # user THEN 403
                           ELSE IF row.status # "IN_PROGRESS" THEN 409
                           ELSE 200

RejectedBySession(r) ==
  /\ pc[r] = "tx"
  /\ SessionCheck(snap[r].session, req[r].user) # 200
  /\ Answer(r, SessionCheck(snap[r].session, req[r].user), {})
  /\ UNCHANGED tables

NeverCounted(r) == attempt[r]                     \* mutant: attempt += 1 is lost
NextAttempt(r) == attempt[r] + 1

MayRetry(r) == attempt[r] < MaxAttempts

(* The attempt is aborted with P2034: at a write or a commit that would    *)
(* not be serializable, or for a conflict the server only suspects.        *)
SerializationFailure(r) ==
  /\ pc[r] = "tx"
  /\ UNCHANGED tables
  /\ \/ /\ MayRetry(r)
        /\ attempt' = [attempt EXCEPT ![r] = NextAttempt(r)]
        /\ snap' = [snap EXCEPT ![r] = NoSnapshot]
        /\ Goto(r, "begin")
     \/ /\ ~ MayRetry(r)
        /\ Answer(r, 500, {})

ReadCommitted(r) == TRUE                          \* mutant: isolationLevel dropped
(* No writer has changed the session row since the snapshot. *)
SessionRowCurrent(r) == sessions[req[r].session] = snap[r].session
(* No log of the session has been added since the snapshot.  *)
LogsCurrent(r) == LogsOf(logs, req[r].session) = snap[r].logs

-------------------------------------------------------------------------------
(* logConcentration (v1) and logConcentrationV2 *)

(* receivedAt is read when the request arrives, before any transaction. *)
RequestLogV1(r) ==
  \E u \in Users, s \in SessionIds, c \in Contents :
    Issue(r, [kind |-> "v1", user |-> u, session |-> s, time |-> clock,
              client |-> NULL, measuredAt |-> NoTime, content |-> c], "begin")

OneTickMore(t) == t <= clock + MaxFuture + 1      \* mutant: bound off by one
NotTooFuture(t) == t <= clock + MaxFuture

(* measured_at is the client's word; one further ahead is answered 400     *)
(* before anything else happens.                                           *)
RequestLogV2(r) ==
  \E u \in Users, s \in SessionIds, c \in Contents, id \in ClientIds,
     t \in 0 .. MaxClock + MaxFuture + 1 :
    /\ NotTooFuture(t)
    /\ Issue(r, [kind |-> "v2", user |-> u, session |-> s, time |-> clock,
                 client |-> id, measuredAt |-> t, content |-> c], "begin")

IsLog(r) == req[r].kind \in {"v1", "v2"}

(* The row the request would store in a session started at startedAt. *)
NewLog(r, startedAt) ==
  [session    |-> req[r].session,
   minute     |-> MinuteIndex(startedAt, IF req[r].kind = "v1" THEN req[r].time
                                                               ELSE req[r].measuredAt),
   loggedAt   |-> req[r].time,
   client     |-> req[r].client,
   measuredAt |-> req[r].measuredAt,
   content    |-> req[r].content]

(* The row a retry would find in L: v1 looks for its minute, v2 for its id. *)
Twins(r, L, l) == IF req[r].kind = "v1" THEN AtMinute(L, l.session, l.minute)
                                        ELSE ByClient(L, l.session, l.client)

AnyContent(r, x, l) == TRUE                       \* mutant: content not compared
(* hasSameLogContent, hasSameV2LogContent *)
SameContent(r, x, l) == /\ x.content = l.content
                        /\ req[r].kind = "v2" => /\ x.client = l.client
                                                 /\ x.measuredAt = l.measuredAt

(* In a transaction whose session the checks accept. *)
Logging(r) == /\ pc[r] = "tx"
              /\ IsLog(r)
              /\ SessionCheck(snap[r].session, req[r].user) = 200

FirstMinuteOver(l) == l.minute >= 1

TooEarly(r) ==
  /\ Logging(r)
  /\ ~ FirstMinuteOver(NewLog(r, snap[r].session.startedAt))
  /\ Answer(r, 400, {})
  /\ UNCHANGED tables

(* The body of the transaction finds its minute or its client id taken. *)
FindExisting(r) ==
  LET l == NewLog(r, snap[r].session.startedAt)
  IN  /\ Logging(r)
      /\ FirstMinuteOver(l)
      /\ UNCHANGED tables
      /\ \/ \E x \in Twins(r, snap[r].logs, l) :
              IF SameContent(r, x, l) THEN Answer(r, 200, {x}) ELSE Answer(r, 409, {})
         \/ /\ Twins(r, snap[r].logs, l) = {}
            /\ AtMinute(snap[r].logs, l.session, l.minute) # {}
            /\ Answer(r, 409, {})

(* The body of the transaction inserts its row and commits. *)
WantsInsert(r, l) ==
  /\ Logging(r)
  /\ FirstMinuteOver(l)
  /\ Twins(r, snap[r].logs, l) = {}
  /\ AtMinute(snap[r].logs, l.session, l.minute) = {}

InsertLog(r) ==
  LET l == NewLog(r, snap[r].session.startedAt)
  IN  /\ WantsInsert(r, l)
      /\ SessionRowCurrent(r)
      /\ ~ Clash(logs, l)
      /\ logs' = logs \cup {l}
      /\ Answer(r, 200, {l})
      /\ UNCHANGED <<sessions, reports>>

(* The row of a concurrent request is in the way: P2002 ends the           *)
(* transaction and the handler reads again outside of it.                  *)
UniqueViolation(r) ==
  LET l == NewLog(r, snap[r].session.startedAt)
  IN  /\ WantsInsert(r, l)
      /\ Clash(logs, l)
      /\ Goto(r, "recheck")
      /\ UNCHANGED <<sessions, logs, reports, attempt, snap>>

RecheckSession(r) ==
  LET code == SessionCheck(sessions[req[r].session], req[r].user)
  IN  /\ pc[r] = "recheck"
      /\ UNCHANGED tables
      /\ \/ code # 200 /\ Answer(r, code, {})
         \/ code = 200 /\ Goto(r, "concurrent") /\ UNCHANGED <<attempt, snap>>

(* minuteIndex still is what the body of the transaction computed. *)
FindConcurrent(r) ==
  LET l == NewLog(r, snap[r].session.startedAt)
      found == Twins(r, logs, l)
  IN  /\ pc[r] = "concurrent"
      /\ UNCHANGED tables
      /\ \/ \E x \in found : SameContent(r, x, l) /\ Answer(r, 200, {x})
         \/ (\A x \in found : ~ SameContent(r, x, l)) /\ Answer(r, 409, {})

-------------------------------------------------------------------------------
(* endSession *)

RequestEnd(r) ==
  \E u \in Users, s \in SessionIds :
    Issue(r, Bare("end", u, s), "begin")

(* The summary is built from the logs of the snapshot; endedAt is read     *)
(* after them and before the commit.                                       *)
EndSession(r) ==
  LET s == req[r].session
  IN  /\ pc[r] = "tx"
      /\ req[r].kind = "end"
      /\ SessionCheck(snap[r].session, req[r].user) = 200
      /\ SessionRowCurrent(r)
      /\ LogsCurrent(r)
      /\ \E endedAt \in snap[r].at .. clock :
           /\ sessions' = [sessions EXCEPT ![s].status = "COMPLETED", ![s].endedAt = endedAt]
           /\ reports' = reports \cup {Summary(s, snap[r].session, snap[r].logs, endedAt)}
      /\ Answer(r, 200, snap[r].logs)
      /\ UNCHANGED logs

-------------------------------------------------------------------------------
Tick == /\ clock < MaxClock
        /\ clock' = clock + 1
        /\ UNCHANGED <<sessions, logs, reports, req, pc, attempt, snap, answer>>

Receive(r) == RequestStart(r) \/ RequestLogV1(r) \/ RequestLogV2(r) \/ RequestEnd(r)

Handle(r) ==
  \/ CheckActive(r)    \/ CreateSession(r)
  \/ BeginTx(r)        \/ RejectedBySession(r) \/ SerializationFailure(r)
  \/ TooEarly(r)       \/ FindExisting(r)      \/ InsertLog(r)
  \/ UniqueViolation(r)\/ RecheckSession(r)    \/ FindConcurrent(r)
  \/ EndSession(r)

Next == Tick \/ \E r \in Requests : Receive(r) \/ Handle(r)

Spec == Init /\ [][Next]_vars

(* The server runs every handler it has started; nobody has to call it.    *)
FairSpec == Spec /\ \A r \in Requests : WF_vars(Handle(r))
==============================================================================
