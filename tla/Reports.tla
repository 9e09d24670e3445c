------------------------------- MODULE Reports --------------------------------
(***************************************************************************)
(* What users read of finished study: the two read handlers of             *)
(* controllers/sessionsController.js, controllers/reportsController.js,    *)
(* controllers/rankingsController.js, and the statements they send:        *)
(* services/sessionStats.js and the views v_session_metric_totals and      *)
(* v_rankings.                                                             *)
(*                                                                         *)
(* Readers write nothing, so one of them, among all the writers, stands    *)
(* for any number.  It takes one database round trip per step, and a       *)
(* statement sees the tables as they are then.  Sessions, logs, roll-ups,  *)
(* friends and members are at least what Sessions, Rollup, Connections and *)
(* Memberships let them be; an instant that is stored was read any time    *)
(* before the step that stores it.  A log that is rolled up is still one   *)
(* log, which is Conserved of Rollup.  An end_date that is no date is      *)
(* refused before anything is read and left out.                           *)
(***************************************************************************)
EXTENDS Integers, FiniteSetsExt

CONSTANTS Users,        \* user_id, in the order of the column
          SessionIds,
          LogIds,
          OwnerOf,      \* sessions.user_id
          Score,        \* focus_score of a log
          DAY, SECOND,  \* a UTC day and a second on the clock of the model
          DaysIn,       \* the days of a weekly and of a monthly period
          Top,          \* the ranks a ranking shows, 50
          Limit,        \* take of a page of sessions
          KEEP,         \* how old a log must be to leave concentration_logs
          Dates,        \* the values of end_date
          Kinds,        \* the endpoints this instance serves
          MaxClock,     \* bound: the clock stops here
          NULL

ASSUME ReportsAssumption ==
  /\ Users \subseteq Nat /\ NULL \notin Int /\ IsFiniteSet(SessionIds)
  /\ OwnerOf \in [SessionIds -> Users]
  /\ Score \in [LogIds -> Nat]
  /\ SECOND \in Nat \ {0} /\ DAY \in Nat \ {0}
  /\ DaysIn \in [{"weekly", "monthly"} -> Nat \ {0}]
  /\ Top \in Nat \ {0} /\ Limit \in Nat \ {0} /\ MaxClock \in Nat /\ KEEP \in Nat
  /\ Dates \subseteq Int
  /\ Kinds \subseteq {"weekly", "monthly", "report", "session", "sessions", "ranking"}

VARIABLES
  sessions,       \* the sessions table
  reports,        \* the logs a report was made of, by session
  tier,           \* concentration_logs and the three statistics tables
  ending,         \* what the transaction of an endSession has read, and when
  participating,  \* user_privacy_settings.ranking_participation
  active,         \* the users whose status is ACTIVE
  friends,        \* user_connections, a row as the set of its two users
  members,        \* the active members of a group
  clock,          \* new Date()
  call,           \* the call the reader serves or has served
  pc,             \* the queries its handler waits for or sends next
  mem,            \* what it remembers of its reads
  answer

study == <<sessions, reports, tier, ending>>
people == <<participating, active, friends, members>>
reader == <<call, pc, mem, answer>>
vars == <<sessions, reports, tier, ending, participating, active, friends, members, clock,
          call, pc, mem, answer>>

Tables == {"raw", "hourly", "daily", "weekly"}
Above == [raw |-> "hourly", hourly |-> "daily", daily |-> "weekly"]
Log == [session : SessionIds, id : LogIds, at : Nat]
Logs == UNION {tier[t] : t \in Tables}
NoSession == [status |-> "NONE", started |-> 0, ended |-> NULL]
NoEnd == [begun |-> FALSE, at |-> 0, logs |-> {}]
Session == [status : {"NONE", "IN_PROGRESS", "COMPLETED"}, started : Int, ended : Int \cup {NULL}]

Scopes == {"global", "friends", "group", "no such group"}
Call == [kind : {"weekly", "monthly"}, user : Users, date : Dates \cup {NULL}]
        \cup [kind : {"report", "session"}, user : Users, session : SessionIds]
        \cup [kind : {"sessions"}, user : Users]
        \cup [kind : {"ranking"}, user : Users, scope : Scopes,
              period : {"daily", "weekly"}, metric : {"focus_score", "study_time"}]
NoCall == [kind |-> "none"]
Nothing == [rows |-> {}, logs |-> [q \in {"metrics", "timeline"} |-> {}], total |-> 0,
            first |-> 0, last |-> 0, scope |-> {}]

Init ==
  /\ sessions = [s \in SessionIds |-> NoSession]
  /\ reports = [s \in SessionIds |-> {}]
  /\ tier = [t \in Tables |-> {}]
  /\ ending = [s \in SessionIds |-> NoEnd]
  /\ participating = {} /\ active = Users /\ friends = {} /\ members = {}
  /\ clock = 0
  /\ call = NoCall /\ pc = {} /\ mem = Nothing /\ answer = [code |-> 0]

-------------------------------------------------------------------------------
(* What is computed.                                                       *)

Day(t) == t \div DAY

(* toDateKey and the UTC dates of the views are the day's number here. *)
RawLogsOf(ids) == {l \in tier["raw"] : l.session \in ids}
MetricsOf(ids) == {l \in Logs : l.session \in ids}

Quotient(a, b) == (2 * a + b) \div (2 * b)   \* rounded to the nearest
Average(logs) == IF logs = {} THEN NULL
                 ELSE Quotient(100 * SumFunction([l \in logs |-> Score[l.id]]), Cardinality(logs))

calculateDurationSeconds(r) == (r.ended - r.started) \div SECOND
study_seconds(r) == Quotient(r.ended - r.started, SECOND)

Row(s) == [id |-> s, status |-> sessions[s].status,
           started |-> sessions[s].started, ended |-> sessions[s].ended]

(* A day of a period report, and a whole report. *)
Bucket(rows, logs) == [sessions |-> Cardinality(rows),
                       seconds |-> SumFunction([r \in rows |-> calculateDurationSeconds(r)]),
                       average |-> Average(logs)]
LogsIn(rows, logs) == {l \in logs : l.session \in {r.id : r \in rows}}
On(d, rows) == {r \in rows : Day(r.started) = d}

PeriodReport(rows, logs) ==
  LET days == Day(mem.first) .. Day(mem.first) + DaysIn[call.kind] - 1
      bucket == [d \in days |-> Bucket(On(d, rows), LogsIn(On(d, rows), logs))]
      counted == UNION {On(d, rows) : d \in days}
  IN  [code |-> 200, start |-> Day(mem.first), end |-> Day(mem.last), days |-> bucket,
       seconds |-> SumFunction([d \in days |-> bucket[d].seconds]),
       average |-> Average(LogsIn(counted, logs))]

-------------------------------------------------------------------------------
(* How a call goes on.                                                     *)

Receive(c) ==
  /\ pc = {} /\ c.kind \in Kinds
  /\ call' = c /\ answer' = [code |-> 0]
  /\ UNCHANGED <<study, people, clock>>

Goto(labels, memory) ==
  /\ pc' = labels /\ mem' = memory
  /\ UNCHANGED <<study, people, clock, call, answer>>

Answer(a) ==
  /\ pc' = {} /\ mem' = Nothing /\ answer' = a
  /\ UNCHANGED <<study, people, clock, call>>

Refuse(code) == Answer([code |-> code])

-------------------------------------------------------------------------------
(* GET /api/reports/weekly and /monthly.                                   *)

WindowEnd(date) == IF date = NULL THEN clock ELSE date * DAY + DAY - 1
FromTheHour(end, days) == end - DAY * (days - 1)
WindowStart(end, days) == DAY * (Day(end) - (days - 1))

ReceivePeriod(kind, u, date) ==
  /\ Receive([kind |-> kind, user |-> u, date |-> date])
  /\ pc' = {"period"}
  /\ mem' = [Nothing EXCEPT !.last = WindowEnd(date),
                            !.first = WindowStart(WindowEnd(date), DaysIn[kind])]

Begun(s) == sessions[s].status # "NONE"
Countable(s) == sessions[s].status = "COMPLETED" /\ sessions[s].ended # NULL

InPeriod == {s \in SessionIds :
               /\ OwnerOf[s] = call.user /\ Countable(s)
               /\ mem.first <= sessions[s].started /\ sessions[s].started <= mem.last}

FindSessionsOfPeriod ==
  /\ pc = {"period"}
  /\ IF InPeriod = {} THEN Answer(PeriodReport({}, {}))
     ELSE Goto({"totals"}, [mem EXCEPT !.rows = {Row(s) : s \in InPeriod}])

ReadTotals ==
  /\ pc = {"totals"}
  /\ Answer(PeriodReport(mem.rows, MetricsOf({r.id : r \in mem.rows})))

-------------------------------------------------------------------------------
(* GET /api/sessions/:id: the metrics and the timeline are two queries     *)
(* that are sent together; GET /api/reports/:session_id: Prisma reads the  *)
(* report after the session.                                               *)

ReceiveOne(kind, u, s) ==
  /\ Receive([kind |-> kind, user |-> u, session |-> s])
  /\ pc' = {"session"} /\ mem' = Nothing

FindSession ==
  /\ pc = {"session"}
  /\ LET found == [mem EXCEPT !.rows = {Row(call.session)}]
     IN  IF sessions[call.session].status = "NONE" THEN Refuse(404)
         ELSE IF call.kind = "report" THEN Goto({"report"}, found)
         ELSE IF OwnerOf[call.session] # call.user THEN Refuse(403)
         ELSE Goto({"metrics", "timeline"}, found)

FindReport ==
  /\ pc = {"report"}
  /\ \E row \in mem.rows :
       IF OwnerOf[row.id] # call.user THEN Refuse(403)
       ELSE IF row.status # "COMPLETED" \/ row.ended = NULL THEN Refuse(404)
       ELSE Goto({"timeline"}, [mem EXCEPT !.logs["metrics"] = reports[row.id]])

ReadLogs(query) ==
  /\ query \in pc /\ query \in {"metrics", "timeline"}
  /\ LET read == [mem EXCEPT !.logs[query] = MetricsOf({r.id : r \in mem.rows})]
     IN  IF pc # {query} THEN Goto(pc \ {query}, read)
         ELSE Answer([code |-> 200, rows |-> mem.rows, logs |-> read.logs])

-------------------------------------------------------------------------------
(* GET /api/sessions: the first page and the count are two statements of   *)
(* one transaction that is not Serializable, the metrics a query after it. *)

ReceiveSessions(u) ==
  /\ Receive([kind |-> "sessions", user |-> u])
  /\ pc' = {"page"} /\ mem' = Nothing

Mine == {s \in SessionIds : sessions[s].status # "NONE" /\ OwnerOf[s] = call.user}
Pages == {P \in SUBSET Mine : /\ Cardinality(P) = (IF Cardinality(Mine) < Limit THEN Cardinality(Mine)
                                                   ELSE Limit)
                              /\ \A s \in P, t \in Mine \ P : sessions[t].started <= sessions[s].started}

ReadPage ==
  /\ pc = {"page"}
  /\ \E P \in Pages : Goto({"count"}, [mem EXCEPT !.rows = {Row(s) : s \in P}])

CountSessions ==
  /\ pc = {"count"}
  /\ IF mem.rows = {} THEN Answer([code |-> 200, rows |-> {}, logs |-> mem.logs,
                                   total |-> Cardinality(Mine)])
     ELSE Goto({"metric map"}, [mem EXCEPT !.total = Cardinality(Mine)])

ReadMetricMap ==
  /\ pc = {"metric map"}
  /\ Answer([code |-> 200, rows |-> mem.rows, total |-> mem.total,
             logs |-> [mem.logs EXCEPT !["metrics"] = MetricsOf({r.id : r \in mem.rows})]])

-------------------------------------------------------------------------------
(* GET /api/rankings.                                                      *)

PeriodStart(period) == Day(clock) - (IF period = "weekly" THEN DaysIn["weekly"] - 1 ELSE 0)

Scoped(users) == Goto({"rank"}, [mem EXCEPT !.scope = users, !.first = PeriodStart(call.period)])

ReceiveRanking(u, scope, period, metric) ==
  /\ Receive([kind |-> "ranking", user |-> u, scope |-> scope, period |-> period,
              metric |-> metric])
  /\ pc' = {CASE scope = "global" -> "rank" [] scope = "friends" -> "friends"
              [] scope \in {"group", "no such group"} -> "group"}
  /\ mem' = [Nothing EXCEPT !.scope = IF scope = "global" THEN Users ELSE {},
                            !.first = PeriodStart(period)]

FindFriends ==
  /\ pc = {"friends"}
  /\ Scoped({call.user} \cup {v \in Users : {call.user, v} \in friends})

FindGroup ==
  /\ pc = {"group"}
  /\ IF call.scope = "group" THEN Goto({"membership"}, mem) ELSE Refuse(404)

CheckMembership ==
  /\ pc = {"membership"}
  /\ IF call.user \in members THEN Goto({"members"}, mem) ELSE Refuse(403)

(* Prisma.join refuses an empty list. *)
FindMembers ==
  /\ pc = {"members"}
  /\ IF members = {} THEN Refuse(500) ELSE Scoped(members)

(* v_rankings, grouped by user. *)
Everybody == Users
Participants == participating \cap active
Studied(u) == {Row(s) : s \in {s \in SessionIds : /\ OwnerOf[s] = u /\ Countable(s)
                                                  /\ Day(sessions[s].started) >= mem.first}}
Contenders == {u \in mem.scope \cap Participants : Studied(u) # {}}
Value(u) == IF call.metric = "focus_score" THEN Average(MetricsOf({r.id : r \in Studied(u)}))
            ELSE SumFunction([r \in Studied(u) |-> study_seconds(r)])
Ranked == {u \in Contenders : Value(u) # NULL}
Precedes(u, v) == Value(u) > Value(v) \/ (Value(u) = Value(v) /\ u < v)

(* ROW_NUMBER *)
RankOf == CHOOSE rank \in [Ranked -> 1 .. Cardinality(Ranked)] :
            \A u, v \in Ranked : Precedes(u, v) => rank[u] < rank[v]
Rows == {[rank |-> RankOf[u], user |-> u, value |-> Value(u), sessions |-> Cardinality(Studied(u))] :
           u \in {u \in Ranked : RankOf[u] <= Top \/ u = call.user}}

RankUsers ==
  /\ pc = {"rank"}
  /\ Answer([code |-> 200, since |-> mem.first,
             rankings |-> {r \in Rows : r.rank <= Top},
             mine |-> {r \in Rows : r.user = call.user}])

-------------------------------------------------------------------------------
Fail == pc # {} /\ Refuse(500)

(* The writers. *)

(* Whether somebody is in progress was asked, and then new Date() read,    *)
(* before the insert; at the insert the partial unique index decides.      *)
StartSession(s) ==
  /\ sessions[s].status = "NONE"
  /\ \A t \in SessionIds : OwnerOf[t] = OwnerOf[s] => sessions[t].status # "IN_PROGRESS"
  /\ \E started \in 0 .. clock :
       sessions' = [sessions EXCEPT ![s] =
                      [status |-> "IN_PROGRESS", started |-> started, ended |-> NULL]]
  /\ UNCHANGED <<reports, tier, ending, people, clock, reader>>

(* receivedAt was read before the transaction.  An end that has read the   *)
(* logs without this one does not commit (LogsCurrent of Sessions).        *)
InsertLog(s, id) ==
  /\ sessions[s].status = "IN_PROGRESS"
  /\ \A l \in Logs : l.id # id
  /\ \E at \in 0 .. clock :
       tier' = [tier EXCEPT !["raw"] = @ \cup {[session |-> s, id |-> id, at |-> at]}]
  /\ ending' = [ending EXCEPT ![s] = NoEnd]
  /\ UNCHANGED <<sessions, reports, people, clock, reader>>

(* An endSession reads its snapshot.  Of two that do, the model keeps the  *)
(* later: at most one commits, and it may be either, as either may begin.  *)
ReadForEnd(s) ==
  /\ sessions[s].status = "IN_PROGRESS"
  /\ ending' = [ending EXCEPT ![s] = [begun |-> TRUE, at |-> clock, logs |-> RawLogsOf({s})]]
  /\ UNCHANGED <<sessions, reports, tier, people, clock, reader>>

(* endedAt is read after the logs and before the commit; a roll-up between *)
(* the two changes nothing that the transaction has read.                  *)
EndSession(s) ==
  /\ sessions[s].status = "IN_PROGRESS" /\ ending[s].begun
  /\ \E ended \in ending[s].at .. clock :
       sessions' = [sessions EXCEPT ![s] = [@ EXCEPT !.status = "COMPLETED", !.ended = ended]]
  /\ reports' = [reports EXCEPT ![s] = ending[s].logs]
  /\ ending' = [ending EXCEPT ![s] = NoEnd]
  /\ UNCHANGED <<tier, people, clock, reader>>

RollUp(t) ==
  /\ \E due \in SUBSET {l \in tier[t] : l.at <= clock - KEEP} \ {{}} :
       tier' = [tier EXCEPT ![t] = @ \ due, ![Above[t]] = @ \cup due]
  /\ UNCHANGED <<sessions, reports, ending, people, clock, reader>>

Toggle(set, x) == IF x \in set THEN set \ {x} ELSE set \cup {x}

SetParticipation(u) ==
  /\ participating' = Toggle(participating, u)
  /\ UNCHANGED <<study, active, friends, members, clock, reader>>

Deactivate(u) ==
  /\ u \in active /\ active' = active \ {u}
  /\ UNCHANGED <<study, participating, friends, members, clock, reader>>

Befriend(u, v) ==
  /\ u # v /\ friends' = friends \cup {{u, v}}
  /\ UNCHANGED <<study, participating, active, members, clock, reader>>

SetMember(u) ==
  /\ members' = Toggle(members, u)
  /\ UNCHANGED <<study, participating, active, friends, clock, reader>>

Tick == /\ clock < MaxClock /\ clock' = clock + 1
        /\ UNCHANGED <<study, people, reader>>

Calls ==
  \E u \in Users :
    \/ \E kind \in {"weekly", "monthly"}, date \in Dates \cup {NULL} : ReceivePeriod(kind, u, date)
    \/ \E kind \in {"report", "session"}, s \in SessionIds : ReceiveOne(kind, u, s)
    \/ ReceiveSessions(u)
    \/ \E scope \in Scopes, period \in {"daily", "weekly"},
          metric \in {"focus_score", "study_time"} : ReceiveRanking(u, scope, period, metric)

Queries ==
  \/ FindSessionsOfPeriod \/ ReadTotals
  \/ FindSession \/ FindReport \/ \E query \in {"metrics", "timeline"} : ReadLogs(query)
  \/ ReadPage \/ CountSessions \/ ReadMetricMap
  \/ FindFriends \/ FindGroup \/ CheckMembership \/ FindMembers \/ RankUsers
  \/ Fail

Writers ==
  \/ \E s \in SessionIds : StartSession(s) \/ ReadForEnd(s) \/ EndSession(s)
  \/ \E s \in SessionIds, id \in LogIds : InsertLog(s, id)
  \/ \E t \in Tables \ {"weekly"} : RollUp(t)
  \/ \E u \in Users : SetParticipation(u) \/ Deactivate(u) \/ SetMember(u)
  \/ \E u, v \in Users : Befriend(u, v)
  \/ Tick

Next == Calls \/ Queries \/ Writers

Spec == Init /\ [][Next]_vars
==============================================================================
