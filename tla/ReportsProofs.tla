---------------------------- MODULE ReportsProofs -----------------------------
(* Proofs about Reports, for any number of users, sessions and logs.        *)
EXTENDS ReportProperties, FiniteSetTheorems, TLAPS

USE ReportsAssumption

LEMMA DayIsInt == \A t \in Int : Day(t) \in Int
BY DEF Day

LEMMA Windows ==
  ASSUME NEW kind \in {"weekly", "monthly"}, NEW date \in Dates \cup {NULL}, clock \in Int
  PROVE  /\ WindowEnd(date) \in Int
         /\ WindowStart(WindowEnd(date), DaysIn[kind]) \in Int
         /\ PeriodStart("daily") \in Int /\ PeriodStart("weekly") \in Int
<1>1. DAY \in Int /\ DaysIn[kind] \in Int /\ DaysIn["weekly"] \in Int
  OBVIOUS
<1>2. WindowEnd(date) \in Int
  BY <1>1 DEF WindowEnd
<1>3. Day(WindowEnd(date)) \in Int /\ Day(clock) \in Int
  BY <1>2, DayIsInt
<1> QED BY <1>1, <1>2, <1>3 DEF WindowStart, PeriodStart

LEMMA Counted == Cardinality(Mine) \in Nat
<1>1. Mine \subseteq SessionIds
  BY DEF Mine
<1> QED BY <1>1, FS_Subset, FS_CardinalityType

LEMMA InitIInv == HistoryInit => IInv
<1> SUFFICES ASSUME HistoryInit PROVE IInv
  OBVIOUS
<1>1. Logs = {}
  BY DEF HistoryInit, Init, Logs
<1>2. NoSession \in Session /\ Nothing \in Memory
  BY DEF NoSession, Session, Nothing, Memory
<1>3. TypeOK
  BY <1>2 DEF HistoryInit, Init, TypeOK, Tables, NoEnd
<1>4. pc = {} /\ mem.rows = {} /\ past = {}
  BY DEF HistoryInit, Init, Nothing
<1>5. InHandler
  BY <1>4 DEF InHandler
<1>6. StudyKept
  BY <1>1 DEF StudyKept, LogsKept, StatsOld, Timely, EndsKept, ReportsKept, HistoryInit, Init, NoSession, NoEnd
<1>7. ReadSoFar /\ MomentsKept
  BY <1>4 DEF ReadSoFar, MomentsKept
<1>8. FinishedAgree
  BY DEF HistoryInit, Init, FinishedAgree, Answered, NoCall
<1> QED BY <1>3, <1>5, <1>6, <1>7, <1>8 DEF IInv
-------------------------------------------------------------------------------
(* What the writers leave as it was *)

Kept == \A s \in SessionIds :
          /\ MetricsOf({s}) \subseteq MetricsOf({s})'
          /\ sessions[s].status = "COMPLETED" =>
               /\ sessions'[s] = sessions[s] /\ reports'[s] = reports[s]
               /\ MetricsOf({s})' = MetricsOf({s})
          /\ sessions[s].status # "NONE" => sessions'[s].status # "NONE"

LEMMA LogsTyped == TypeOK => Logs \subseteq Log
BY DEF TypeOK, Logs

LEMMA MetricsTyped == ASSUME TypeOK, NEW ids PROVE MetricsOf(ids) \subseteq Log
BY LogsTyped DEF MetricsOf

LEMMA Older ==
  ASSUME TypeOK, StatsOld, clock' \in Int, clock <= clock', NEW t \in Tables \ {"raw"}, NEW l \in tier[t]
  PROVE  l.at <= clock' - KEEP
<1>1. l \in Log
  BY DEF TypeOK
<1>2. l.at \in Int /\ l.at <= clock - KEEP /\ clock \in Int
  BY <1>1 DEF StatsOld, Log, TypeOK
<1> QED BY <1>2

LEMMA SameStudy ==
  ASSUME TypeOK, StudyKept, UNCHANGED study, clock' \in Int, clock <= clock'
  PROVE  StudyKept' /\ Kept
<1>1. Logs' = Logs /\ \A ids : MetricsOf(ids)' = MetricsOf(ids)
  BY DEF study, Logs, MetricsOf
<1>2. StatsOld'
  BY Older DEF StatsOld, StudyKept, study
<1>3. LogsKept' /\ ReportsKept'
  BY <1>1 DEF StudyKept, LogsKept, ReportsKept, Misses, study
<1>6. EndsKept'
  <2>1. \A s \in SessionIds : ending[s].at \in Int /\ clock \in Int
    BY DEF TypeOK
  <2>2. ending' = ending
    BY DEF study
  <2>3. ASSUME NEW s \in SessionIds, ending[s].begun
        PROVE  ending[s].at <= clock' /\ Misses(ending[s].logs, s, ending[s].at)
    BY <2>1, <2>3 DEF StudyKept, EndsKept
  <2> QED BY <1>1, <2>2, <2>3 DEF EndsKept, Misses
<1>4. Timely'
  <2>1. \A s \in SessionIds : sessions[s].started \in Int /\ clock \in Int
    BY DEF TypeOK, Session
  <2> QED BY <2>1 DEF StudyKept, Timely, study
<1>5. Kept
  BY <1>1 DEF Kept, study
<1> QED BY <1>2, <1>3, <1>4, <1>5, <1>6 DEF StudyKept

LEMMA StartKeeps ==
  ASSUME TypeOK, StudyKept, NEW s \in SessionIds, StartSession(s)
  PROVE  TypeOK' /\ StudyKept' /\ Kept
<1>0. \A ids : MetricsOf(ids)' = MetricsOf(ids) /\ Logs' = Logs
  BY DEF StartSession, MetricsOf, Logs
<1> PICK started \in 0 .. clock :
      sessions' = [sessions EXCEPT ![s] =
                     [status |-> "IN_PROGRESS", started |-> started, ended |-> NULL]]
  BY DEF StartSession
<1>1. [status |-> "IN_PROGRESS", started |-> started, ended |-> NULL] \in Session
  BY DEF TypeOK, Session
<1>2. TypeOK'
  BY <1>1 DEF StartSession, TypeOK, people, reader
<1>3. /\ sessions'[s] = [status |-> "IN_PROGRESS", started |-> started, ended |-> NULL]
      /\ \A r \in SessionIds : r # s => sessions'[r] = sessions[r]
      /\ sessions[s].status = "NONE" /\ UNCHANGED <<reports, tier, ending, clock>>
  BY DEF StartSession, TypeOK
<1>4. \A l \in Logs : l.session \in SessionIds /\ l.session # s
  BY <1>3, LogsTyped DEF StudyKept, LogsKept, Log
<1>5. LogsKept' /\ StatsOld' /\ EndsKept'
  BY <1>0, <1>3, <1>4 DEF StudyKept, LogsKept, StatsOld, EndsKept, Misses
<1>6. Timely'
  <2>1. sessions'[s].started <= clock
    BY <1>3 DEF TypeOK
  <2> QED BY <1>3, <2>1 DEF StudyKept, Timely
<1>7. ReportsKept'
  <2> SUFFICES ASSUME NEW r \in SessionIds, sessions'[r].status = "COMPLETED"
               PROVE  r # s
    BY <1>0, <1>3 DEF StudyKept, ReportsKept, Misses
  <2> QED BY <1>3
<1>8. Kept
  BY <1>0, <1>3 DEF Kept
<1> QED BY <1>2, <1>5, <1>6, <1>7, <1>8 DEF StudyKept

(* No end that has read the logs without this one commits, so none lacks it. *)
LEMMA InsertKeeps ==
  ASSUME TypeOK, StudyKept, NEW s \in SessionIds, NEW id \in LogIds, InsertLog(s, id)
  PROVE  TypeOK' /\ StudyKept' /\ Kept
<1> PICK at \in 0 .. clock :
      tier' = [tier EXCEPT !["raw"] = @ \cup {[session |-> s, id |-> id, at |-> at]}]
  BY DEF InsertLog
<1> DEFINE new == [session |-> s, id |-> id, at |-> at]
<1>1. new \in Log
  BY DEF TypeOK, Log
<1>2. Logs' = Logs \cup {new}
  BY DEF Logs, TypeOK, Tables
<1>3. TypeOK'
  BY <1>1 DEF InsertLog, TypeOK, people, reader, Tables, NoEnd
<1>4. \A r \in SessionIds : /\ r # s => MetricsOf({r})' = MetricsOf({r})
                            /\ MetricsOf({r}) \subseteq MetricsOf({r})'
  BY <1>2 DEF MetricsOf
<1>5. \A t \in Tables \ {"raw"} : tier'[t] = tier[t]
  BY DEF TypeOK, Tables
<1>6. /\ sessions[s].status = "IN_PROGRESS" /\ UNCHANGED <<sessions, reports, clock>>
      /\ ~ ending'[s].begun /\ \A r \in SessionIds : r # s => ending'[r] = ending[r]
  BY DEF InsertLog, TypeOK, NoEnd
<1>7. LogsKept'
  BY <1>2, <1>6 DEF StudyKept, LogsKept
<1>8. StatsOld' /\ Timely'
  BY <1>5, <1>6 DEF StudyKept, StatsOld, Timely
<1>9. ReportsKept' /\ EndsKept'
  BY <1>4, <1>6 DEF StudyKept, ReportsKept, EndsKept, Misses
<1>10. Kept
  BY <1>4, <1>6 DEF Kept
<1> QED BY <1>3, <1>7, <1>8, <1>9, <1>10 DEF StudyKept

(* What an end reads lacks the logs in the statistics, which are old.      *)
LEMMA ReadForEndKeeps ==
  ASSUME TypeOK, StudyKept, NEW s \in SessionIds, ReadForEnd(s)
  PROVE  TypeOK' /\ StudyKept' /\ Kept
<1>0. /\ \A ids : MetricsOf(ids)' = MetricsOf(ids)
      /\ Logs' = Logs /\ UNCHANGED <<sessions, reports, tier, clock>>
  BY DEF ReadForEnd, MetricsOf, Logs
<1>1. RawLogsOf({s}) \subseteq Log /\ clock \in Nat
  BY DEF TypeOK, RawLogsOf, Tables
<1>2. TypeOK'
  BY <1>1 DEF ReadForEnd, TypeOK, people, reader
<1>3. /\ ending'[s] = [begun |-> TRUE, at |-> clock, logs |-> RawLogsOf({s})]
      /\ \A r \in SessionIds : r # s => ending'[r] = ending[r]
  BY DEF ReadForEnd, TypeOK
<1>4. Misses(RawLogsOf({s}), s, clock)
  <2>1. RawLogsOf({s}) \subseteq MetricsOf({s})
    BY DEF RawLogsOf, MetricsOf, Logs, Tables
  <2>2. ASSUME NEW l \in MetricsOf({s}) \ RawLogsOf({s}) PROVE l.at <= clock - KEEP
    <3>1. PICK t \in Tables : l \in tier[t]
      BY DEF MetricsOf, Logs
    <3>2. t # "raw"
      BY <3>1 DEF MetricsOf, RawLogsOf
    <3> QED BY <3>1, <3>2 DEF StudyKept, StatsOld
  <2> QED BY <2>1, <2>2 DEF Misses
<1>5. EndsKept'
  <2>1. ASSUME NEW r \in SessionIds, ending'[r].begun
        PROVE  ending'[r].at <= clock /\ Misses(ending'[r].logs, r, ending'[r].at)
    <3>1. CASE r = s
      BY <1>1, <1>3, <1>4, <3>1
    <3>2. CASE r # s
      BY <1>3, <2>1, <3>2 DEF StudyKept, EndsKept
    <3> QED BY <3>1, <3>2
  <2> QED BY <1>0, <2>1 DEF EndsKept, Misses
<1>6. LogsKept' /\ StatsOld' /\ Timely' /\ ReportsKept'
  BY <1>0 DEF StudyKept, LogsKept, StatsOld, Timely, ReportsKept, Misses
<1>7. Kept
  BY <1>0 DEF Kept
<1> QED BY <1>2, <1>5, <1>6, <1>7 DEF StudyKept

LEMMA EndKeeps ==
  ASSUME TypeOK, StudyKept, NEW s \in SessionIds, EndSession(s)
  PROVE  TypeOK' /\ StudyKept' /\ Kept
<1>0. /\ \A ids : MetricsOf(ids)' = MetricsOf(ids)
      /\ Logs' = Logs /\ UNCHANGED <<tier, clock>>
  BY DEF EndSession, MetricsOf, Logs
<1>1. ending[s].at \in Int /\ ending[s].logs \in SUBSET Log /\ clock \in Int /\ sessions[s] \in Session
  BY DEF TypeOK
<1> PICK ended \in ending[s].at .. clock :
      sessions' = [sessions EXCEPT ![s] = [@ EXCEPT !.status = "COMPLETED", !.ended = ended]]
  BY DEF EndSession
<1>9. ended \in Int
  BY <1>1
<1>2. /\ sessions'[s] = [sessions[s] EXCEPT !.status = "COMPLETED", !.ended = ended]
      /\ reports'[s] = ending[s].logs /\ ~ ending'[s].begun
      /\ \A r \in SessionIds : r # s => /\ sessions'[r] = sessions[r] /\ reports'[r] = reports[r]
                                        /\ ending'[r] = ending[r]
      /\ sessions[s].status = "IN_PROGRESS" /\ ending[s].begun
  BY DEF EndSession, TypeOK, NoEnd
<1>3. TypeOK'
  <2>1. [sessions[s] EXCEPT !.status = "COMPLETED", !.ended = ended] \in Session
    BY <1>1, <1>9 DEF Session
  <2>2. sessions' \in [SessionIds -> Session]
    BY <2>1 DEF TypeOK
  <2>3. reports' \in [SessionIds -> SUBSET Log]
        /\ ending' \in [SessionIds -> [begun : BOOLEAN, at : Nat, logs : SUBSET Log]]
    BY <1>1 DEF EndSession, TypeOK, NoEnd
  <2> QED BY <2>2, <2>3 DEF EndSession, TypeOK, people, reader
<1>4. /\ sessions'[s].started = sessions[s].started /\ sessions'[s].status = "COMPLETED"
      /\ sessions'[s].ended = ended
  <2>1. sessions[s] \in Session /\ sessions'[s] = [sessions[s] EXCEPT !.status = "COMPLETED", !.ended = ended]
    BY <1>1, <1>2
  <2> QED BY <2>1 DEF Session
<1>5. LogsKept'
  <2>1. \A l \in Logs : l.session \in SessionIds
    BY LogsTyped DEF Log
  <2>2. \A r \in SessionIds : sessions[r].status # "NONE" => sessions'[r].status # "NONE"
    BY <1>2, <1>4
  <2> QED BY <1>0, <2>1, <2>2 DEF StudyKept, LogsKept
<1>6. StatsOld' /\ Timely' /\ EndsKept'
  BY <1>0, <1>2, <1>4 DEF StudyKept, StatsOld, Timely, EndsKept, Misses
<1>7. ReportsKept'
  <2>1. Misses(ending[s].logs, s, ended)
    <3>1. Misses(ending[s].logs, s, ending[s].at)
      BY <1>2 DEF StudyKept, EndsKept
    <3>2. \A l \in MetricsOf({s}) : l.at \in Int
      BY MetricsTyped DEF Log
    <3>3. \A n \in Int : n <= ending[s].at - KEEP => n <= ended - KEEP
      BY <1>1, <1>9
    <3> QED BY <3>1, <3>2, <3>3 DEF Misses
  <2>2. ASSUME NEW r \in SessionIds, sessions'[r].status = "COMPLETED"
        PROVE  sessions'[r].ended \in Int /\ Misses(reports'[r], r, sessions'[r].ended)
    <3>1. CASE r = s
      BY <1>2, <1>4, <1>9, <2>1, <3>1
    <3>2. CASE r # s
      BY <1>2, <2>2, <3>2 DEF StudyKept, ReportsKept
    <3> QED BY <3>1, <3>2
  <2> QED BY <1>0, <2>2 DEF ReportsKept, Misses
<1>8. Kept
  BY <1>0, <1>2, <1>4 DEF Kept
<1> QED BY <1>3, <1>5, <1>6, <1>7, <1>8 DEF StudyKept

LEMMA RollUpKeeps ==
  ASSUME TypeOK, StudyKept, NEW t \in Tables \ {"weekly"}, RollUp(t)
  PROVE  TypeOK' /\ StudyKept' /\ Kept
<1>1. PICK due \in SUBSET {l \in tier[t] : l.at <= clock - KEEP} :
         tier' = [tier EXCEPT ![t] = @ \ due, ![Above[t]] = @ \cup due]
  BY DEF RollUp
<1>2. Above[t] \in Tables \ {"raw"} /\ Above[t] # t
  BY DEF Above, Tables
<1>3. /\ tier'[t] = tier[t] \ due /\ tier'[Above[t]] = tier[Above[t]] \cup due
      /\ \A u \in Tables : u # t /\ u # Above[t] => tier'[u] = tier[u]
  BY <1>1, <1>2 DEF TypeOK
<1>4. UNCHANGED <<sessions, reports, ending, people, clock, reader>>
  BY DEF RollUp
<1>5. due \subseteq tier[t] /\ tier \in [Tables -> SUBSET Log]
  BY DEF TypeOK
<1>6. tier' \in [Tables -> SUBSET Log]
  BY <1>1, <1>2, <1>5
<1>7. TypeOK'
  BY <1>4, <1>6 DEF TypeOK, people, reader
<1>8. Logs' = Logs
  BY <1>2, <1>3, <1>5 DEF Logs
<1>9. \A ids : MetricsOf(ids)' = MetricsOf(ids)
  BY <1>8 DEF MetricsOf
<1>10. LogsKept' /\ Timely' /\ EndsKept' /\ ReportsKept'
  BY <1>4, <1>8, <1>9 DEF StudyKept, LogsKept, Timely, EndsKept, ReportsKept, Misses
<1>11. StatsOld'
  BY <1>2, <1>3, <1>4 DEF StudyKept, StatsOld
<1>12. Kept
  BY <1>4, <1>9 DEF Kept
<1> QED BY <1>7, <1>10, <1>11, <1>12 DEF StudyKept

LEMMA WritersKeep ==
  ASSUME TypeOK, StudyKept, Writers
  PROVE  TypeOK' /\ StudyKept' /\ Kept /\ UNCHANGED reader
<1> DEFINE Circumstances == (\E u \in Users : SetParticipation(u) \/ Deactivate(u) \/ SetMember(u))
                            \/ \E u, v \in Users : Befriend(u, v)
<1>1. CASE \E s \in SessionIds : StartSession(s)
  BY <1>1, StartKeeps DEF StartSession
<1>2. CASE \E s \in SessionIds : EndSession(s)
  BY <1>2, EndKeeps DEF EndSession
<1>7. CASE \E s \in SessionIds : ReadForEnd(s)
  BY <1>7, ReadForEndKeeps DEF ReadForEnd
<1>3. CASE \E s \in SessionIds, id \in LogIds : InsertLog(s, id)
  BY <1>3, InsertKeeps DEF InsertLog
<1>4. CASE \E t \in Tables \ {"weekly"} : RollUp(t)
  BY <1>4, RollUpKeeps DEF RollUp
<1>5. CASE Circumstances
  <2>1. UNCHANGED study /\ UNCHANGED reader /\ UNCHANGED clock
    BY <1>5 DEF SetParticipation, Deactivate, SetMember, Befriend
  <2>2. participating' \in SUBSET Users /\ active' \in SUBSET Users /\ members' \in SUBSET Users
        /\ friends' \in SUBSET SUBSET Users
    <3>1. \A set \in SUBSET Users, u \in Users : Toggle(set, u) \in SUBSET Users /\ set \ {u} \in SUBSET Users
      BY DEF Toggle
    <3>2. CASE \E u \in Users : SetParticipation(u)
      BY <3>1, <3>2 DEF SetParticipation, TypeOK
    <3>3. CASE \E u \in Users : Deactivate(u)
      BY <3>1, <3>3 DEF Deactivate, TypeOK
    <3>4. CASE \E u \in Users : SetMember(u)
      BY <3>1, <3>4 DEF SetMember, TypeOK
    <3>5. CASE \E u, v \in Users : Befriend(u, v)
      BY <3>5 DEF Befriend, TypeOK
    <3> QED BY <1>5, <3>2, <3>3, <3>4, <3>5
  <2>3. TypeOK'
    BY <2>1, <2>2 DEF TypeOK, study, reader
  <2>4. clock' \in Int /\ clock <= clock'
    BY <2>1 DEF TypeOK
  <2> QED BY <2>1, <2>3, <2>4, SameStudy
<1>6. CASE Tick
  <2>1. TypeOK' /\ UNCHANGED study /\ UNCHANGED reader /\ clock' \in Int /\ clock <= clock'
    BY <1>6 DEF Tick, TypeOK, study, people, reader
  <2> QED BY <2>1, SameStudy
<1> QED BY <1>1, <1>2, <1>3, <1>4, <1>5, <1>6, <1>7 DEF Writers

-------------------------------------------------------------------------------
(* What the reader does *)

LEMMA RowTyped ==
  ASSUME TypeOK, NEW s \in SessionIds, sessions[s].status # "NONE"
  PROVE  Row(s) \in RowOf
BY DEF TypeOK, Session, Row, RowOf

LEMMA CallTyped ==
  TypeOK => /\ call.kind \in {"session", "report"} => call.session \in SessionIds
            /\ call.kind = "ranking" => call.period \in {"daily", "weekly"}
            /\ call.kind \in {"none", "weekly", "monthly", "session", "report", "sessions", "ranking"}
BY DEF TypeOK, Call, NoCall

LEMMA CallsKeep ==
  ASSUME TypeOK, Calls
  PROVE  /\ TypeOK' /\ InHandler' /\ pc' # {} /\ mem'.rows = {}
         /\ UNCHANGED <<study, people, clock>>
<1>0. clock \in Int
  BY DEF TypeOK
<1> DEFINE Received == /\ call' \in Call /\ pc' \in SUBSET Labels /\ mem' \in Memory
                       /\ answer' = [code |-> 0]
                       /\ InHandler' /\ pc' # {} /\ mem'.rows = {}
                       /\ UNCHANGED <<study, people, clock>>
<1>1. Nothing \in Memory
  BY DEF Nothing, Memory
<1>2. Received => TypeOK'
  BY DEF TypeOK, study, people
<1>3. ASSUME NEW u \in Users, NEW kind \in {"weekly", "monthly"}, NEW date \in Dates \cup {NULL},
             ReceivePeriod(kind, u, date)
      PROVE  Received
  <2>1. WindowEnd(date) \in Int /\ WindowStart(WindowEnd(date), DaysIn[kind]) \in Int
    BY <1>0, Windows
  <2>2. mem' \in Memory /\ mem'.rows = {}
    BY <1>1, <1>3, <2>1 DEF ReceivePeriod, Memory, Nothing
  <2>3. UNCHANGED <<study, people, clock>> /\ call' = [kind |-> kind, user |-> u, date |-> date] /\ answer' = [code |-> 0] /\ pc' = {"period"}
    BY <1>3 DEF ReceivePeriod, Receive
  <2> QED BY <2>2, <2>3 DEF Call, Labels, InHandler
<1>4. ASSUME NEW u \in Users, NEW kind \in {"report", "session"}, NEW s \in SessionIds,
             ReceiveOne(kind, u, s)
      PROVE  Received
  <2>1. UNCHANGED <<study, people, clock>> /\ call' = [kind |-> kind, user |-> u, session |-> s] /\ answer' = [code |-> 0]
        /\ pc' = {"session"} /\ mem' = Nothing
    BY <1>4 DEF ReceiveOne, Receive
  <2> QED BY <1>1, <2>1 DEF Call, Labels, InHandler, Nothing
<1>5. ASSUME NEW u \in Users, ReceiveSessions(u)
      PROVE  Received
  <2>1. UNCHANGED <<study, people, clock>> /\ call' = [kind |-> "sessions", user |-> u] /\ answer' = [code |-> 0]
        /\ pc' = {"page"} /\ mem' = Nothing
    BY <1>5 DEF ReceiveSessions, Receive
  <2> QED BY <1>1, <2>1 DEF Call, Labels, InHandler, Nothing
<1>6. ASSUME NEW u \in Users, NEW scope \in Scopes, NEW period \in {"daily", "weekly"},
             NEW metric \in {"focus_score", "study_time"}, ReceiveRanking(u, scope, period, metric)
      PROVE  Received
  <2>1. PeriodStart(period) \in Int
    BY <1>0, Windows
  <2>2. /\ mem'.rows = {} /\ mem'.logs = Nothing.logs /\ mem'.total = 0 /\ mem'.last = 0
        /\ mem'.first = PeriodStart(period)
        /\ DOMAIN mem' = DOMAIN Nothing
    BY <1>6 DEF ReceiveRanking, Nothing
  <2>6. mem'.scope = IF scope = "global" THEN Users ELSE {}
    BY <1>6 DEF ReceiveRanking, Nothing
  <2>3. mem' \in Memory /\ mem'.rows = {}
    <3>1. mem'.scope \in SUBSET Users
      BY <2>6
    <3>2. PICK set, day : mem' = [Nothing EXCEPT !.scope = set, !.first = day]
      BY <1>6 DEF ReceiveRanking
    <3>3. mem' = [rows |-> {}, logs |-> Nothing.logs, total |-> 0, first |-> mem'.first,
                  last |-> 0, scope |-> mem'.scope]
      BY <3>2 DEF Nothing
    <3> QED BY <1>1, <2>1, <2>2, <3>1, <3>3 DEF Memory, Nothing
  <2>4. UNCHANGED <<study, people, clock>> /\ call' = [kind |-> "ranking", user |-> u, scope |-> scope, period |-> period, metric |-> metric]
        /\ answer' = [code |-> 0]
    BY <1>6 DEF ReceiveRanking, Receive
  <2>5. \E label \in {"rank", "friends", "group"} : pc' = {label}
    BY <1>6 DEF ReceiveRanking, Scopes
  <2> QED BY <2>3, <2>4, <2>5 DEF Call, Labels, InHandler
<1>7. Received
  <2> HIDE DEF Received
  <2> QED BY <1>3, <1>4, <1>5, <1>6 DEF Calls
<1> QED BY <1>2, <1>7

LEMMA AnswerKeeps ==
  ASSUME TypeOK, StudyKept, NEW a, a.code \in {0, 200, 403, 404, 500}, Answer(a)
  PROVE  TypeOK' /\ InHandler' /\ ReadSoFar' /\ pc' = {} /\ UNCHANGED <<study, people, clock, call>>
<1>1. Nothing \in Memory /\ Nothing.rows = {}
  BY DEF Nothing, Memory
<1>2. pc' = {} /\ mem' = Nothing /\ answer' = a /\ UNCHANGED <<study, people, clock, call>>
  BY DEF Answer
<1>3. TypeOK'
  BY <1>1, <1>2 DEF TypeOK, study, people
<1>4. InHandler' /\ ReadSoFar'
  BY <1>1, <1>2 DEF InHandler, ReadSoFar
<1> QED BY <1>2, <1>3, <1>4

LEMMA RefusalKeeps ==
  ASSUME TypeOK, StudyKept, NEW code \in {403, 404, 500}, Refuse(code)
  PROVE  /\ TypeOK' /\ InHandler' /\ ReadSoFar' /\ pc' = {} /\ answer'.code = code
         /\ UNCHANGED <<study, people, clock, call>>
<1>1. Answer([code |-> code])
  BY DEF Refuse
<1>2. answer' = [code |-> code]
  BY <1>1 DEF Answer
<1> QED BY <1>1, <1>2, AnswerKeeps

LEMMA GotoKeeps ==
  ASSUME TypeOK, NEW labels \in SUBSET Labels, NEW memory \in Memory, Goto(labels, memory)
  PROVE  TypeOK' /\ pc' = labels /\ mem' = memory /\ UNCHANGED <<study, people, clock, call, answer>>
<1>1. pc' = labels /\ mem' = memory /\ UNCHANGED <<study, people, clock, call, answer>>
  BY DEF Goto
<1> QED BY <1>1 DEF TypeOK, study, people

(* A query ends the call or leaves the reader where the invariant has it.   *)
Steady == /\ TypeOK' /\ InHandler' /\ ReadSoFar' /\ UNCHANGED <<study, people, clock, call>>
          /\ pc # {}

LEMMA RowsRead ==
  ASSUME TypeOK, NEW set \in SUBSET SessionIds, \A s \in set : sessions[s].status # "NONE"
  PROVE  /\ [mem EXCEPT !.rows = {Row(s) : s \in set}] \in Memory
         /\ [mem EXCEPT !.rows = {Row(s) : s \in set}].rows = {Row(s) : s \in set}
         /\ \A row \in {Row(s) : s \in set} : row.id \in set /\ row = Row(row.id) /\ Fresh(row)
<1> DEFINE rows == {Row(s) : s \in set}
<1>1. rows \in SUBSET RowOf
  BY RowTyped
<1>2. \A row \in rows : row.id \in set /\ row = Row(row.id) /\ Fresh(row)
  BY DEF Row, Fresh
<1>3. mem \in Memory
  BY DEF TypeOK
<1> HIDE DEF rows
<1>4. [mem EXCEPT !.rows = rows] \in Memory /\ [mem EXCEPT !.rows = rows].rows = rows
  BY <1>1, <1>3 DEF Memory
<1> QED BY <1>2, <1>4 DEF rows

LEMMA PeriodQueries ==
  ASSUME TypeOK, InHandler, StudyKept, FindSessionsOfPeriod \/ ReadTotals
  PROVE  Steady /\ call.kind \in {"weekly", "monthly"}
<1>1. CASE FindSessionsOfPeriod
  <2>0. pc = {"period"} /\ call.kind \in {"weekly", "monthly"}
    BY <1>1 DEF FindSessionsOfPeriod, InHandler
  <2>1. CASE InPeriod = {}
    <3>1. Answer(PeriodReport({}, {})) /\ PeriodReport({}, {}).code = 200
      BY <1>1, <2>1 DEF FindSessionsOfPeriod, PeriodReport
    <3> QED BY <2>0, <3>1, AnswerKeeps DEF Steady
  <2>2. CASE InPeriod # {}
    <3> DEFINE read == [mem EXCEPT !.rows = {Row(s) : s \in InPeriod}]
    <3>1. /\ InPeriod \in SUBSET SessionIds
          /\ \A s \in InPeriod : sessions[s].status = "COMPLETED" /\ sessions[s].ended # NULL
      BY DEF InPeriod, Countable
    <3>2. /\ read \in Memory
          /\ \A row \in read.rows : Fresh(row) /\ row.status = "COMPLETED" /\ row.ended # NULL
      BY <3>1, RowsRead DEF Row
    <3>3. Goto({"totals"}, read)
      BY <1>1, <2>2 DEF FindSessionsOfPeriod
    <3> HIDE DEF read
    <3>4. TypeOK' /\ pc' = {"totals"} /\ mem' = read /\ UNCHANGED <<study, people, clock, call, answer>>
      BY <3>2, <3>3, GotoKeeps DEF Labels
    <3>5. ReadSoFar'
      BY <2>0, <3>2, <3>4 DEF ReadSoFar, Fresh, study
    <3>6. InHandler'
      BY <2>0, <3>2, <3>4 DEF InHandler
    <3> QED BY <2>0, <3>4, <3>5, <3>6 DEF Steady
  <2> QED BY <2>1, <2>2
<1>2. CASE ReadTotals
  <2>1. pc = {"totals"} /\ call.kind \in {"weekly", "monthly"}
    BY <1>2 DEF ReadTotals, InHandler
  <2> DEFINE a == PeriodReport(mem.rows, MetricsOf({r.id : r \in mem.rows}))
  <2>2. Answer(a) /\ a.code = 200
    BY <1>2 DEF ReadTotals, PeriodReport
  <2> HIDE DEF a
  <2> QED BY <2>1, <2>2, AnswerKeeps DEF Steady
<1> QED BY <1>1, <1>2

LEMMA FindSessionKeeps ==
  ASSUME TypeOK, InHandler, StudyKept, FindSession
  PROVE  Steady /\ (pc' = {} => answer'.code # 200)
<1>0. pc = {"session"} /\ call.kind \in {"session", "report"} /\ call.session \in SessionIds
  BY CallTyped DEF FindSession, InHandler
<1> DEFINE read == [mem EXCEPT !.rows = {Row(call.session)}]
           labels == IF call.kind = "report" THEN {"report"} ELSE {"metrics", "timeline"}
<1>1. CASE Refuse(404) \/ Refuse(403)
  BY <1>0, <1>1, RefusalKeeps DEF Steady
<1>2. CASE sessions[call.session].status # "NONE" /\ Goto(labels, read)
  <2>2. /\ read \in Memory
        /\ \A row \in read.rows : Fresh(row)
        /\ \A row, other \in read.rows : row = other
    <3> DEFINE set == {call.session}
    <3>1. set \in SUBSET SessionIds /\ \A s \in set : sessions[s].status # "NONE"
      BY <1>0, <1>2
    <3>2. {Row(s) : s \in set} = {Row(call.session)}
      OBVIOUS
    <3> HIDE DEF set
    <3>3. /\ [mem EXCEPT !.rows = {Row(s) : s \in set}] \in Memory
          /\ [mem EXCEPT !.rows = {Row(s) : s \in set}].rows = {Row(s) : s \in set}
          /\ \A row \in {Row(s) : s \in set} : Fresh(row)
      BY <3>1, RowsRead
    <3> QED BY <3>2, <3>3
  <2>3. labels \in SUBSET Labels /\ labels # {}
    BY DEF Labels
  <2>4. TypeOK' /\ pc' = labels /\ mem' = read /\ UNCHANGED <<study, people, clock, call, answer>>
    <3> HIDE DEF read, labels
    <3> QED BY <1>2, <2>2, <2>3, GotoKeeps
  <2> HIDE DEF read
  <2>5. ReadSoFar'
    BY <1>0, <2>2, <2>4 DEF ReadSoFar, Fresh, study
  <2>6. InHandler'
    BY <1>0, <2>2, <2>4 DEF InHandler
  <2> QED BY <1>0, <2>3, <2>4, <2>5, <2>6 DEF Steady
<1> QED BY <1>0, <1>1, <1>2 DEF FindSession

LEMMA FindReportKeeps ==
  ASSUME TypeOK, InHandler, StudyKept, ReadSoFar, FindReport
  PROVE  Steady /\ (pc' = {} => answer'.code # 200)
<1>0. pc = {"report"} /\ call.kind = "report"
  BY DEF FindReport, InHandler
<1>1. PICK row \in mem.rows :
         \/ Refuse(403) \/ Refuse(404)
         \/ /\ row.status = "COMPLETED"
            /\ Goto({"timeline"}, [mem EXCEPT !.logs["metrics"] = reports[row.id]])
  BY DEF FindReport
<1>2. CASE Refuse(403) \/ Refuse(404)
  BY <1>0, <1>2, RefusalKeeps DEF Steady
<1>3. CASE /\ row.status = "COMPLETED"
           /\ Goto({"timeline"}, [mem EXCEPT !.logs["metrics"] = reports[row.id]])
  <2> DEFINE read == [mem EXCEPT !.logs["metrics"] = reports[row.id]]
  <2>1. mem \in Memory /\ row.id \in SessionIds /\ reports[row.id] \in SUBSET Log
    BY <1>1 DEF TypeOK, Memory, RowOf
  <2>2. read \in Memory /\ read.rows = mem.rows /\ read.logs["metrics"] = reports[row.id]
    BY <2>1 DEF Memory
  <2>3. TypeOK' /\ pc' = {"timeline"} /\ mem' = read /\ UNCHANGED <<study, people, clock, call, answer>>
    <3> HIDE DEF read
    <3> QED BY <1>3, <2>2, GotoKeeps DEF read, Labels
  <2> HIDE DEF read
  <2>4. \A other \in mem'.rows : other = row /\ Fresh(row)
    BY <1>0, <1>1, <2>2, <2>3 DEF InHandler, ReadSoFar
  <2>5. ReadSoFar'
    BY <1>0, <1>3, <2>2, <2>3, <2>4 DEF ReadSoFar, Fresh, study
  <2>6. InHandler'
    BY <1>0, <2>3 DEF InHandler
  <2> QED BY <1>0, <2>3, <2>5, <2>6 DEF Steady
<1> QED BY <1>1, <1>2, <1>3

LEMMA Single == ASSUME NEW rows, NEW row \in rows
                PROVE {l \in MetricsOf({r.id : r \in rows}) : l.session = row.id} = MetricsOf({row.id})
BY DEF MetricsOf

LEMMA ReadLogsKeeps ==
  ASSUME TypeOK, InHandler, StudyKept, ReadSoFar, NEW query \in {"metrics", "timeline"}, ReadLogs(query)
  PROVE  Steady /\ FinishedAgree'
<1> DEFINE found == MetricsOf({r.id : r \in mem.rows})
           read == [mem EXCEPT !.logs[query] = found]
<1>0. /\ query \in pc
      /\ \/ call.kind = "session" /\ pc \subseteq {"metrics", "timeline"}
         \/ call.kind = "report" /\ pc = {"timeline"}
  BY DEF ReadLogs, InHandler
<1>1. found \in SUBSET Log /\ mem \in Memory
  BY MetricsTyped DEF TypeOK
<1>2. /\ read \in Memory /\ read.rows = mem.rows /\ read.logs[query] = found
      /\ \A other \in {"metrics", "timeline"} : other # query => read.logs[other] = mem.logs[other]
  <2> HIDE DEF found
  <2> QED BY <1>1 DEF Memory
<1>3. \A row \in mem.rows : {l \in found : l.session = row.id} = MetricsOf({row.id}) /\ Fresh(row)
  BY Single DEF ReadSoFar
<1>4. CASE pc # {query} /\ Goto(pc \ {query}, read)
  <2> HIDE DEF read, found
  <2>1. pc \ {query} \in SUBSET Labels
    BY DEF TypeOK
  <2>2. TypeOK' /\ pc' = pc \ {query} /\ mem' = read /\ UNCHANGED <<study, people, clock, call, answer>>
    BY <1>2, <1>4, <2>1, GotoKeeps
  <2>3. \A row \in mem.rows : MetricsOf({row.id})' = MetricsOf({row.id})
    BY <2>2 DEF study, MetricsOf, Logs
  <2>4. call.kind = "session" /\ pc' = {"metrics", "timeline"} \ {query} /\ pc' # {}
    BY <1>0, <1>4, <2>2
  <2>5. ReadSoFar'
    <3>1. mem'.rows = mem.rows /\ call' = call /\ mem'.logs[query] = found
      BY <1>2, <2>2
    <3>2. \A q \in {"metrics", "timeline"} \ pc' : q = query
      BY <2>4
    <3>3. \A row \in mem.rows : /\ Fresh(row)'
                               /\ {l \in found : l.session = row.id} = MetricsOf({row.id})'
      BY <1>3, <2>2, <2>3 DEF Fresh, study
    <3>4. \A row \in mem.rows, q \in {"metrics", "timeline"} \ pc' :
            {l \in mem'.logs[q] : l.session = row.id} = MetricsOf({row.id})'
      BY <3>1, <3>2, <3>3
    <3> QED BY <2>4, <3>1, <3>3, <3>4 DEF ReadSoFar
  <2>6. InHandler'
    BY <2>2, <2>4 DEF InHandler
  <2> QED BY <1>0, <2>2, <2>4, <2>5, <2>6 DEF Steady, FinishedAgree, Answered
<1>5. CASE pc = {query} /\ Answer([code |-> 200, rows |-> mem.rows, logs |-> read.logs])
  <2> HIDE DEF read, found
  <2>1. /\ TypeOK' /\ InHandler' /\ ReadSoFar' /\ pc' = {} /\ UNCHANGED <<study, people, clock, call>>
    <3> DEFINE a == [code |-> 200, rows |-> mem.rows, logs |-> read.logs]
    <3>1. a.code = 200 /\ Answer(a)
      BY <1>5
    <3> HIDE DEF a
    <3> QED BY <3>1, AnswerKeeps
  <2>2. answer'.code = 200 /\ answer'.rows = mem.rows /\ answer'.logs = read.logs
    BY <1>5 DEF Answer
  <2>3. ASSUME NEW row \in mem.rows
        PROVE  LET metrics == Shown(row, "metrics")'
                   timeline == Shown(row, "timeline")'
               IN  /\ call.kind = "session" => metrics \subseteq timeline \/ timeline \subseteq metrics
                   /\ row.status = "COMPLETED" =>
                        /\ call.kind = "session" => metrics = timeline
                        /\ call.kind = "report" =>
                             /\ metrics \subseteq timeline
                             /\ \A l \in timeline \ metrics : l.at <= row.ended - KEEP
    <3>1. Shown(row, query)' = MetricsOf({row.id})
      BY <1>2, <1>3, <2>2 DEF Shown
    <3>2. CASE call.kind = "session"
      <4>1. PICK other \in {"metrics", "timeline"} : other # query
        OBVIOUS
      <4>2. other \notin pc /\ Shown(row, other)' = {l \in mem.logs[other] : l.session = row.id}
        BY <1>2, <1>5, <2>2, <4>1 DEF Shown
      <4>3. /\ Shown(row, other)' \subseteq MetricsOf({row.id})
            /\ row.status = "COMPLETED" => Shown(row, other)' = MetricsOf({row.id})
        BY <1>0, <3>2, <4>2 DEF ReadSoFar
      <4> QED BY <3>1, <3>2, <4>1, <4>3
    <3>3. CASE call.kind = "report"
      <4>1. query = "timeline" /\ row.status = "COMPLETED" /\ mem.logs["metrics"] = reports[row.id]
        BY <1>0, <1>5, <3>3 DEF ReadSoFar
      <4>2. /\ row.id \in SessionIds /\ sessions[row.id].status = "COMPLETED"
            /\ sessions[row.id].started = row.started /\ sessions[row.id].ended = row.ended
        BY <1>1, <1>3, <4>1 DEF Fresh, Memory, RowOf
      <4>3. reports[row.id] \subseteq MetricsOf({row.id})
        BY <4>2 DEF StudyKept, ReportsKept, Misses
      <4>6. \A l \in MetricsOf({row.id}) \ reports[row.id] : l.at <= row.ended - KEEP
        BY <4>2 DEF StudyKept, ReportsKept, Misses
      <4>4. \A l \in MetricsOf({row.id}) : l.session = row.id
        BY DEF MetricsOf
      <4>5. Shown(row, "metrics")' = reports[row.id]
        <5>1. answer'.logs["metrics"] = reports[row.id]
          BY <1>2, <2>2, <4>1
        <5> QED BY <4>3, <4>4, <5>1 DEF Shown
      <4> QED BY <3>1, <3>3, <4>1, <4>3, <4>5, <4>6
    <3> QED BY <1>0, <3>2, <3>3
  <2>4. FinishedAgree'
    BY <1>0, <2>1, <2>2, <2>3 DEF FinishedAgree
  <2> QED BY <1>0, <2>1, <2>4 DEF Steady
<1> QED BY <1>4, <1>5 DEF ReadLogs

LEMMA ListQueries ==
  ASSUME TypeOK, InHandler, StudyKept, ReadSoFar, MomentsKept, past' = past \/ pc' # {},
         ReadPage \/ CountSessions \/ ReadMetricMap
  PROVE  Steady /\ FinishedAgree'
<1>0. pc # {} /\ call.kind = "sessions" /\ mem \in Memory /\ \A row \in mem.rows : Fresh(row)
  <2>1. pc = {"page"} \/ pc = {"count"} \/ pc = {"metric map"}
    BY DEF ReadPage, CountSessions, ReadMetricMap
  <2>2. call.kind = "sessions"
    BY <2>1 DEF InHandler
  <2> QED BY <2>1, <2>2 DEF ReadSoFar, TypeOK
<1>1. CASE ReadPage
  <2>1. PICK P \in Pages : Goto({"count"}, [mem EXCEPT !.rows = {Row(s) : s \in P}])
    BY <1>1 DEF ReadPage
  <2>2. P \in SUBSET SessionIds /\ \A s \in P : sessions[s].status # "NONE"
    BY DEF Pages, Mine
  <2> DEFINE read == [mem EXCEPT !.rows = {Row(s) : s \in P}]
  <2>3. read \in Memory /\ \A row \in read.rows : Fresh(row)
    <3>1. /\ read \in Memory /\ read.rows = {Row(s) : s \in P}
          /\ \A row \in {Row(s) : s \in P} : Fresh(row)
      BY <2>2, RowsRead
    <3> HIDE DEF read
    <3> QED BY <3>1
  <2> HIDE DEF read
  <2>4. TypeOK' /\ pc' = {"count"} /\ mem' = read /\ UNCHANGED <<study, people, clock, call, answer>>
    BY <2>1, <2>3, GotoKeeps DEF read, Labels
  <2>5. InHandler' /\ ReadSoFar' /\ FinishedAgree'
    BY <1>0, <2>3, <2>4 DEF InHandler, ReadSoFar, Fresh, study, FinishedAgree, Answered
  <2> QED BY <1>0, <2>4, <2>5 DEF Steady
<1>2. CASE CountSessions /\ mem.rows # {}
  <2> DEFINE read == [mem EXCEPT !.total = Cardinality(Mine)]
  <2>1. read \in Memory /\ read.rows = mem.rows
    BY <1>0, Counted DEF Memory
  <2>2. Goto({"metric map"}, read)
    BY <1>2 DEF CountSessions
  <2> HIDE DEF read
  <2>3. TypeOK' /\ pc' = {"metric map"} /\ mem' = read /\ UNCHANGED <<study, people, clock, call, answer>>
    BY <2>1, <2>2, GotoKeeps DEF Labels
  <2>4. InHandler' /\ ReadSoFar' /\ FinishedAgree'
    BY <1>0, <2>1, <2>3 DEF InHandler, ReadSoFar, Fresh, study, FinishedAgree, Answered
  <2> QED BY <1>0, <2>3, <2>4 DEF Steady
<1>3. CASE CountSessions /\ mem.rows = {}
  <2> DEFINE a == [code |-> 200, rows |-> {}, logs |-> mem.logs, total |-> Cardinality(Mine)]
  <2>1. Answer(a) /\ a.code = 200 /\ a.rows = {}
    BY <1>3 DEF CountSessions
  <2> HIDE DEF a
  <2>2. Steady
    BY <1>0, <2>1, AnswerKeeps DEF Steady
  <2>3. answer' = a
    BY <2>1 DEF Answer
  <2> QED BY <2>1, <2>2, <2>3 DEF FinishedAgree
<1>4. CASE ReadMetricMap
  <2> DEFINE found == MetricsOf({r.id : r \in mem.rows})
             a == [code |-> 200, rows |-> mem.rows, total |-> mem.total,
                   logs |-> [mem.logs EXCEPT !["metrics"] = found]]
  <2>1. Answer(a) /\ a.code = 200 /\ a.rows = mem.rows /\ a.logs["metrics"] = found
    BY <1>0, <1>4 DEF ReadMetricMap, Memory
  <2> HIDE DEF a, found
  <2>2. Steady /\ pc' = {} /\ UNCHANGED call
    BY <1>0, <2>1, AnswerKeeps DEF Steady
  <2>3. past' = past /\ answer' = a
    BY <2>1, <2>2 DEF Answer
  <2>4. ASSUME NEW row \in mem.rows
        PROVE  Shown(row, "metrics")' = MetricsOf({row.id}) /\ row.id \in SessionIds
    <3>1. {l \in found : l.session = row.id} = MetricsOf({row.id})
      BY Single DEF found
    <3>2. Shown(row, "metrics")' = {l \in found : l.session = row.id}
      BY <2>1, <2>3 DEF Shown
    <3> QED BY <1>0, <3>1, <3>2 DEF Memory, RowOf
  <2>5. ASSUME NEW row \in mem.rows, NEW p \in past, p.sessions[row.id].status = "COMPLETED"
        PROVE  Shown(row, "metrics")' = {l \in p.logs : l.session = row.id}
    BY <2>4, <2>5 DEF MomentsKept
  <2>6. \A row \in answer'.rows, p \in past' :
          p.sessions[row.id].status = "COMPLETED" =>
            Shown(row, "metrics")' = {l \in p.logs : l.session = row.id}
    BY <2>1, <2>3, <2>5
  <2>7. FinishedAgree'
    BY <1>0, <2>2, <2>6 DEF FinishedAgree
  <2> QED BY <2>2, <2>7
<1> QED BY <1>1, <1>2, <1>3, <1>4

LEMMA ScopedKeeps ==
  ASSUME TypeOK, InHandler, StudyKept, ReadSoFar, call.kind = "ranking", pc # {},
         NEW label \in {"membership", "members", "rank"}, NEW read \in Memory, read.rows = mem.rows,
         Goto({label}, read)
  PROVE  Steady
<1>1. TypeOK' /\ pc' = {label} /\ mem' = read /\ UNCHANGED <<study, people, clock, call, answer>>
  BY GotoKeeps DEF Labels
<1>2. InHandler' /\ ReadSoFar'
  BY <1>1 DEF InHandler, ReadSoFar, Fresh, study
<1> QED BY <1>1, <1>2 DEF Steady

LEMMA RankingQueries ==
  ASSUME TypeOK, InHandler, StudyKept, ReadSoFar,
         FindFriends \/ FindGroup \/ CheckMembership \/ FindMembers \/ RankUsers
  PROVE  Steady /\ call.kind = "ranking"
<1>0. /\ \E label \in {"friends", "group", "membership", "members", "rank"} : pc = {label}
      /\ mem \in Memory
  BY DEF FindFriends, FindGroup, CheckMembership, FindMembers, RankUsers, TypeOK
<1>1. call.kind = "ranking"
  BY <1>0 DEF InHandler
<1>2. ASSUME NEW set \in SUBSET Users, Scoped(set) PROVE Steady
  <2>1. PeriodStart(call.period) \in Int
    <3>1. clock \in Int /\ call.period \in {"daily", "weekly"}
      BY <1>1, CallTyped DEF TypeOK
    <3> QED BY <3>1, Windows
  <2> DEFINE read == [mem EXCEPT !.scope = set, !.first = PeriodStart(call.period)]
  <2>2. read \in Memory /\ read.rows = mem.rows
    BY <1>0, <2>1 DEF Memory
  <2>3. Goto({"rank"}, read)
    BY <1>2 DEF Scoped
  <2> HIDE DEF read
  <2> QED BY <1>0, <1>1, <2>2, <2>3, ScopedKeeps
<1>3. ASSUME NEW code \in {403, 404, 500}, Refuse(code) PROVE Steady
  BY <1>0, <1>3, RefusalKeeps DEF Steady
<1>4. CASE FindFriends
  <2>1. call.user \in Users
    BY <1>1 DEF TypeOK, Call, NoCall
  <2> DEFINE set == {call.user} \cup {v \in Users : {call.user, v} \in friends}
  <2>2. set \in SUBSET Users /\ Scoped(set)
    BY <1>4, <2>1 DEF FindFriends
  <2> QED BY <1>1, <1>2, <2>2
<1>5. CASE FindGroup \/ CheckMembership
  <2>1. \/ Refuse(404) \/ Refuse(403)
        \/ \E label \in {"membership", "members"} : Goto({label}, mem)
    BY <1>5 DEF FindGroup, CheckMembership
  <2> QED BY <1>0, <1>1, <1>3, <2>1, ScopedKeeps
<1>6. CASE FindMembers
  <2>1. members \in SUBSET Users
    BY DEF TypeOK
  <2> QED BY <1>1, <1>2, <1>3, <1>6, <2>1 DEF FindMembers
<1>7. CASE RankUsers
  <2> DEFINE a == [code |-> 200, since |-> mem.first, rankings |-> {r \in Rows : r.rank <= Top},
                   mine |-> {r \in Rows : r.user = call.user}]
  <2>1. Answer(a) /\ a.code = 200
    BY <1>7 DEF RankUsers
  <2> HIDE DEF a
  <2> QED BY <1>0, <1>1, <2>1, AnswerKeeps DEF Steady
<1> QED BY <1>1, <1>4, <1>5, <1>6, <1>7

-------------------------------------------------------------------------------
(* The invariant                                                           *)

LEMMA QueriesKeep ==
  ASSUME IInv, Queries, past' = past \/ pc' # {}
  PROVE  Steady /\ FinishedAgree'
<1> USE DEF IInv
<1>0. ASSUME Steady, pc' # {} \/ answer'.code # 200 \/ call.kind \notin {"session", "sessions", "report"}
      PROVE  Steady /\ FinishedAgree'
  BY <1>0 DEF Steady, FinishedAgree, Answered
<1>1. CASE FindSessionsOfPeriod \/ ReadTotals
  BY <1>0, <1>1, PeriodQueries
<1>2. CASE FindSession \/ FindReport
  BY <1>0, <1>2, FindSessionKeeps, FindReportKeeps
<1>3. CASE \E query \in {"metrics", "timeline"} : ReadLogs(query)
  BY <1>3, ReadLogsKeeps
<1>4. CASE ReadPage \/ CountSessions \/ ReadMetricMap
  BY <1>4, ListQueries
<1>5. CASE FindFriends \/ FindGroup \/ CheckMembership \/ FindMembers \/ RankUsers
  BY <1>0, <1>5, RankingQueries
<1>6. CASE Fail
  BY <1>0, <1>6, RefusalKeeps DEF Fail, Steady
<1> QED BY <1>1, <1>2, <1>3, <1>4, <1>5, <1>6 DEF Queries

LEMMA KeptRead == ASSUME TypeOK, ReadSoFar, Kept, UNCHANGED reader PROVE ReadSoFar'
<1>1. mem' = mem /\ call' = call /\ pc' = pc
  BY DEF reader
<1>2. \A row \in mem.rows : row.id \in SessionIds
  BY DEF TypeOK, Memory, RowOf
<1>3. \A row \in mem.rows :
        /\ Fresh(row)'
        /\ MetricsOf({row.id}) \subseteq MetricsOf({row.id})'
        /\ row.status = "COMPLETED" => /\ MetricsOf({row.id}) = MetricsOf({row.id})'
                                       /\ reports'[row.id] = reports[row.id]
  BY <1>2 DEF ReadSoFar, Fresh, Kept
<1> QED BY <1>1, <1>3 DEF ReadSoFar

LEMMA MomentsLast ==
  ASSUME MomentsKept, Kept, past' \subseteq past \cup {Moment(call)'}
  PROVE  MomentsKept'
<1>1. \A s \in SessionIds : {l \in Moment(call)'.logs : l.session = s} = MetricsOf({s})'
  BY DEF Moment, MetricsOf
<1>2. Moment(call)'.sessions = sessions'
  BY DEF Moment
<1>3. ASSUME NEW p \in past', NEW s \in SessionIds, p.sessions[s].status = "COMPLETED"
      PROVE  sessions'[s].status = "COMPLETED" /\ {l \in p.logs : l.session = s} = MetricsOf({s})'
  <2>1. CASE p \in past
    BY <1>3, <2>1 DEF MomentsKept, Kept
  <2>2. CASE p = Moment(call)'
    BY <1>1, <1>2, <1>3, <2>2
  <2> QED BY <1>3, <2>1, <2>2
<1> QED BY <1>3 DEF MomentsKept

LEMMA NextKeeps == IInv /\ [HistoryNext]_<<vars, past, arrived>> => IInv'
<1> SUFFICES ASSUME IInv, [HistoryNext]_<<vars, past, arrived>> PROVE IInv'
  OBVIOUS
<1> USE DEF IInv
<1>1. past' \subseteq past \cup {Moment(call)'} /\ (past' = past \/ pc' # {})
  BY DEF HistoryNext
<1>2. ASSUME UNCHANGED study, clock' = clock PROVE StudyKept' /\ Kept
  <2>1. clock' \in Int /\ clock <= clock'
    BY <1>2 DEF TypeOK
  <2> QED BY <1>2, <2>1, SameStudy
<1>3. ASSUME TypeOK', InHandler', StudyKept', ReadSoFar', FinishedAgree', Kept PROVE IInv'
  BY <1>1, <1>3, MomentsLast
<1>4. CASE HistoryNext /\ Calls
  <2>1. TypeOK' /\ InHandler' /\ pc' # {} /\ mem'.rows = {} /\ UNCHANGED <<study, people, clock>>
    BY <1>4, CallsKeep
  <2>2. ReadSoFar' /\ FinishedAgree'
    BY <2>1 DEF ReadSoFar, FinishedAgree, Answered
  <2> QED BY <1>2, <1>3, <2>1, <2>2
<1>5. CASE HistoryNext /\ Queries
  <2>1. Steady /\ FinishedAgree'
    BY <1>1, <1>5, QueriesKeep
  <2> QED BY <1>2, <1>3, <2>1 DEF Steady
<1>6. CASE HistoryNext /\ Writers
  <2>1. TypeOK' /\ StudyKept' /\ Kept /\ UNCHANGED reader
    BY <1>6, WritersKeep
  <2>2. InHandler' /\ ReadSoFar'
    BY <2>1, KeptRead DEF InHandler, reader
  <2>3. FinishedAgree'
    BY <1>1, <2>1 DEF FinishedAgree, Answered, Shown, reader
  <2> QED BY <1>3, <2>1, <2>2, <2>3
<1>7. CASE UNCHANGED <<vars, past, arrived>>
  <2>1. UNCHANGED study /\ UNCHANGED reader /\ UNCHANGED clock /\ past' = past
    BY <1>7 DEF vars, study, reader
  <2>2. TypeOK'
    BY <1>7 DEF TypeOK, vars
  <2>3. StudyKept' /\ Kept /\ InHandler' /\ ReadSoFar'
    BY <1>2, <2>1, KeptRead DEF InHandler, reader
  <2>4. FinishedAgree'
    BY <2>1 DEF FinishedAgree, Answered, Shown, reader
  <2> QED BY <1>3, <2>2, <2>3, <2>4
<1> QED BY <1>4, <1>5, <1>6, <1>7 DEF HistoryNext, Next

(* The inductive invariant: what the tables keep of a finished session,    *)
(* and what a reader in the middle of its queries has of it.               *)
THEOREM Invariant == HistorySpec => []IInv
<1>1. HistoryInit => IInv
  BY InitIInv
<1>2. IInv /\ [HistoryNext]_<<vars, past, arrived>> => IInv'
  BY NextKeeps
<1> QED BY <1>1, <1>2, PTL DEF HistorySpec

(* A finished session is shown with one set of logs by its page, its       *)
(* report and the list of sessions, whatever is written between their      *)
(* queries.                                                                *)
THEOREM FinishedSessionsAgree == HistorySpec => []FinishedAgree
<1>1. IInv => FinishedAgree
  BY DEF IInv
<1> QED BY <1>1, Invariant, PTL

-------------------------------------------------------------------------------
(* Sums.  SumFunctionOnSet adds up values in an order of its own; what     *)
(* follows does not depend on it.  Each proof takes a smallest set for     *)
(* which the claim would fail.                                             *)

HIDE ReportsAssumption

LEMMA MinimalSet ==
  ASSUME NEW S, IsFiniteSet(S), NEW T \in SUBSET SUBSET S, T # {}
  PROVE  \E m \in T : \A s \in T : s \subseteq m => s = m
<1>1. IsWellFoundedOn(StrictSubsetOrdering(S), FiniteSubsetsOf(S))
  BY FS_StrictSubsetOrderingWellFounded
<1>2. FiniteSubsetsOf(S) = SUBSET S
  BY FS_FiniteSubsetsOfFinite
<1>3. PICK m \in T : \A s \in T : ~ (<<s, m>> \in StrictSubsetOrdering(S))
  BY <1>1, <1>2, WFMin
<1>4. ASSUME NEW s \in T, s \subseteq m, s # m PROVE FALSE
  <2>1. <<s, m>> \in StrictSubsetOrdering(S)
    BY <1>4 DEF StrictSubsetOrdering
  <2> QED BY <1>3, <2>1
<1> QED BY <1>4

Chosen(s) == CHOOSE x \in s : TRUE
Summing(g, F, S) ==
  g = [s \in SUBSET S |-> IF s = {} THEN 0 ELSE F[Chosen(s)] + g[s \ {Chosen(s)}]]

LEMMA ChosenIn == ASSUME NEW s, s # {} PROVE Chosen(s) \in s
BY DEF Chosen

LEMMA SummingAt ==
  ASSUME NEW g, NEW F, NEW S, Summing(g, F, S), NEW s \in SUBSET S
  PROVE  g[s] = IF s = {} THEN 0 ELSE F[Chosen(s)] + g[s \ {Chosen(s)}]
BY DEF Summing

LEMMA SumIs ==
  ASSUME NEW F, NEW S, \E g : Summing(g, F, S)
  PROVE  \E g : Summing(g, F, S) /\ SumFunctionOnSet(F, S) = g[S]
<1> DEFINE g == CHOOSE g : g = [s \in SUBSET S |-> IF s = {} THEN 0 ELSE F[CHOOSE x \in s : TRUE] + g[s \ {CHOOSE x \in s : TRUE}]]
<1>1. Summing(g, F, S)
  BY DEF Summing, Chosen
<1>2. SumFunctionOnSet(F, S) = g[S]
  BY DEF SumFunctionOnSet, FoldFunctionOnSet, MapThenFoldSet
<1> QED BY <1>1, <1>2

LEMMA SummingAgree ==
  ASSUME NEW F, NEW S, NEW R, IsFiniteSet(S), IsFiniteSet(R), NEW g, NEW h,
         Summing(g, F, S), Summing(h, F, R), NEW t \in SUBSET (S \cap R)
  PROVE  g[t] = h[t]
<1> DEFINE T == {s \in SUBSET (S \cap R) : g[s] # h[s]}
<1>1. SUFFICES ASSUME T # {} PROVE FALSE
  OBVIOUS
<1>2. IsFiniteSet(S \cap R)
  BY FS_Intersection
<1>3. PICK m \in T : \A s \in T : s \subseteq m => s = m
  <2>1. T \in SUBSET SUBSET (S \cap R)
    OBVIOUS
  <2> HIDE DEF T
  <2> QED BY <1>1, <1>2, <2>1, MinimalSet
<1>4. CASE m = {}
  BY <1>4, SummingAt
<1>5. CASE m # {}
  <2> DEFINE n == m \ {Chosen(m)}
  <2>1. n \in SUBSET (S \cap R) /\ n \subseteq m /\ n # m
    BY <1>5, ChosenIn
  <2>2. g[n] = h[n]
    BY <1>3, <2>1
  <2>3. m \in SUBSET S /\ m \in SUBSET R
    OBVIOUS
  <2>4. g[m] = F[Chosen(m)] + g[n] /\ h[m] = F[Chosen(m)] + h[n]
    BY <1>5, <2>3, SummingAt
  <2> QED BY <2>2, <2>4
<1> QED BY <1>4, <1>5

LEMMA SummingExists ==
  ASSUME NEW F, NEW S, IsFiniteSet(S)
  PROVE  \E g : Summing(g, F, S)
<1> DEFINE T == {s \in SUBSET S : ~ \E g : Summing(g, F, s)}
<1>1. SUFFICES ASSUME T # {} PROVE FALSE
  OBVIOUS
<1>2. PICK m \in T : \A s \in T : s \subseteq m => s = m
  <2>1. T \in SUBSET SUBSET S
    OBVIOUS
  <2> HIDE DEF T
  <2> QED BY <1>1, <2>1, MinimalSet
<1>3. \A s \in SUBSET m : s # m => \E g : Summing(g, F, s)
  BY <1>2
<1> DEFINE G(s) == CHOOSE g : Summing(g, F, s)
           below(s) == s \ {Chosen(s)}
           value(s) == IF s = {} THEN 0 ELSE F[Chosen(s)] + G(below(s))[below(s)]
           h == [s \in SUBSET m |-> value(s)]
<1>4. \A s \in SUBSET m : s # m => Summing(G(s), F, s)
  BY <1>3
<1>5. \A s \in SUBSET m : s # {} => below(s) \in SUBSET m /\ below(s) # m /\ below(s) # s
  BY ChosenIn
<1>6. \A s \in SUBSET m : IsFiniteSet(s)
  BY FS_Subset
<1> HIDE DEF G
<1>7. ASSUME NEW s \in SUBSET m, s # m PROVE value(s) = G(s)[s]
  <2>1. Summing(G(s), F, s) /\ s \in SUBSET s
    BY <1>4, <1>7
  <2>2. CASE s = {}
    BY <2>1, <2>2, SummingAt
  <2>3. CASE s # {}
    <3>1. below(s) \in SUBSET m /\ below(s) # m /\ below(s) \in SUBSET (s \cap below(s))
      BY <1>5, <2>3
    <3>2. Summing(G(below(s)), F, below(s))
      BY <1>4, <3>1
    <3>5. IsFiniteSet(s) /\ IsFiniteSet(below(s))
      BY <1>6, <3>1
    <3>3. G(s)[below(s)] = G(below(s))[below(s)]
      BY <2>1, <3>1, <3>2, <3>5, SummingAgree
    <3>4. G(s)[s] = F[Chosen(s)] + G(s)[below(s)]
      BY <2>1, <2>3, SummingAt
    <3> QED BY <2>3, <3>3, <3>4
  <2> QED BY <2>2, <2>3
<1>8. \A s \in SUBSET m : s # {} => h[below(s)] = G(below(s))[below(s)]
  BY <1>5, <1>7
<1>9. h = [s \in SUBSET m |-> IF s = {} THEN 0 ELSE F[Chosen(s)] + h[below(s)]]
  BY <1>8
<1>10. Summing(h, F, m)
  BY <1>9 DEF Summing
<1> QED BY <1>2, <1>10

LEMMA SumStep ==
  ASSUME NEW F, NEW S, IsFiniteSet(S)
  PROVE  /\ S = {} => SumFunctionOnSet(F, S) = 0
         /\ S # {} => SumFunctionOnSet(F, S) = F[Chosen(S)] + SumFunctionOnSet(F, S \ {Chosen(S)})
<1>1. PICK g : Summing(g, F, S) /\ SumFunctionOnSet(F, S) = g[S]
  BY SummingExists, SumIs
<1>2. S \in SUBSET S
  OBVIOUS
<1>3. CASE S = {}
  BY <1>1, <1>2, <1>3, SummingAt
<1>4. CASE S # {}
  <2> DEFINE R == S \ {Chosen(S)}
  <2>1. IsFiniteSet(R) /\ R \in SUBSET (S \cap R)
    BY FS_RemoveElement
  <2>2. PICK h : Summing(h, F, R) /\ SumFunctionOnSet(F, R) = h[R]
    BY <2>1, SummingExists, SumIs
  <2>3. g[R] = h[R]
    BY <1>1, <2>1, <2>2, SummingAgree
  <2>4. g[S] = F[Chosen(S)] + g[R]
    BY <1>1, <1>2, <1>4, SummingAt
  <2> QED BY <1>1, <1>4, <2>2, <2>3, <2>4
<1> QED BY <1>3, <1>4

(* The sum of no value, and of one more. *)
LEMMA SumType ==
  ASSUME NEW F, NEW S, IsFiniteSet(S), \A x \in S : F[x] \in Int
  PROVE  SumFunctionOnSet(F, S) \in Int
<1> DEFINE T == {s \in SUBSET S : SumFunctionOnSet(F, s) \notin Int}
<1>1. SUFFICES ASSUME T # {} PROVE FALSE
  OBVIOUS
<1>2. PICK m \in T : \A s \in T : s \subseteq m => s = m
  <2>1. T \in SUBSET SUBSET S
    OBVIOUS
  <2> HIDE DEF T
  <2> QED BY <1>1, <2>1, MinimalSet
<1>3. m \in SUBSET S /\ IsFiniteSet(m) /\ SumFunctionOnSet(F, m) \notin Int
  BY FS_Subset
<1>4. m # {}
  <2>1. ASSUME m = {} PROVE SumFunctionOnSet(F, m) = 0
    BY <1>3, <2>1, SumStep
  <2> QED BY <1>3, <2>1
<1> DEFINE n == m \ {Chosen(m)}
<1>5. n \in SUBSET S /\ n \subseteq m /\ n # m /\ Chosen(m) \in S
  BY <1>3, <1>4, ChosenIn
<1>6. SumFunctionOnSet(F, n) \in Int
  BY <1>2, <1>5
<1> QED BY <1>3, <1>4, <1>5, <1>6, SumStep

LEMMA SumAdd ==
  ASSUME NEW F, NEW S, IsFiniteSet(S), \A x \in S : F[x] \in Int, NEW x \in S
  PROVE  SumFunctionOnSet(F, S) = F[x] + SumFunctionOnSet(F, S \ {x})
<1> DEFINE Added(s) == \A y \in s : SumFunctionOnSet(F, s) = F[y] + SumFunctionOnSet(F, s \ {y})
           T == {s \in SUBSET S : ~ Added(s)}
<1>1. SUFFICES ASSUME T # {} PROVE FALSE
  OBVIOUS
<1>2. PICK m \in T : \A s \in T : s \subseteq m => s = m
  <2>1. T \in SUBSET SUBSET S
    OBVIOUS
  <2> HIDE DEF T
  <2> QED BY <1>1, <2>1, MinimalSet
<1>3. m \in SUBSET S /\ IsFiniteSet(m) /\ ~ Added(m)
  BY FS_Subset
<1>4. \A s \in SUBSET m : s # m => Added(s)
  BY <1>2
<1>5. PICK y \in m : SumFunctionOnSet(F, m) # F[y] + SumFunctionOnSet(F, m \ {y})
  BY <1>3
<1> DEFINE c == Chosen(m)
<1>6. c \in m /\ SumFunctionOnSet(F, m) = F[c] + SumFunctionOnSet(F, m \ {c})
  BY <1>3, <1>5, SumStep, ChosenIn
<1> HIDE DEF c
<1>7. y # c
  BY <1>5, <1>6
<1>8. SumFunctionOnSet(F, m \ {c}) = F[y] + SumFunctionOnSet(F, (m \ {c}) \ {y})
  <2>1. Added(m \ {c}) /\ y \in m \ {c}
    BY <1>4, <1>6, <1>7
  <2> QED BY <2>1
<1>9. SumFunctionOnSet(F, m \ {y}) = F[c] + SumFunctionOnSet(F, (m \ {y}) \ {c})
  <2>1. Added(m \ {y}) /\ c \in m \ {y}
    BY <1>4, <1>6, <1>7
  <2> QED BY <2>1
<1>10. (m \ {y}) \ {c} = (m \ {c}) \ {y}
  OBVIOUS
<1> DEFINE rest == SumFunctionOnSet(F, (m \ {c}) \ {y})
<1>11. rest \in Int /\ F[y] \in Int /\ F[c] \in Int
  <2>1. IsFiniteSet((m \ {c}) \ {y}) /\ \A z \in (m \ {c}) \ {y} : F[z] \in Int
    BY <1>3, FS_RemoveElement
  <2> QED BY <1>3, <1>6, <2>1, SumType
<1>12. SumFunctionOnSet(F, m) = F[c] + (F[y] + rest) /\ SumFunctionOnSet(F, m \ {y}) = F[c] + rest
  BY <1>6, <1>8, <1>9, <1>10
<1> HIDE DEF rest
<1> QED BY <1>5, <1>11, <1>12

(* The sum of a function over a set is that of another over its image. *)
LEMMA SumReindexed ==
  ASSUME NEW F, NEW G, NEW S, IsFiniteSet(S), NEW B,
         \A x \in S : F[x] \in Int /\ F[x] = G[B[x]],
         \A x, y \in S : B[x] = B[y] => x = y
  PROVE  SumFunctionOnSet(F, S) = SumFunctionOnSet(G, {B[x] : x \in S})
<1> DEFINE image(s) == {B[x] : x \in s}
           T == {s \in SUBSET S : SumFunctionOnSet(F, s) # SumFunctionOnSet(G, image(s))}
<1>1. SUFFICES ASSUME T # {} PROVE FALSE
  OBVIOUS
<1>2. PICK m \in T : \A s \in T : s \subseteq m => s = m
  <2>1. T \in SUBSET SUBSET S
    OBVIOUS
  <2> HIDE DEF T
  <2> QED BY <1>1, <2>1, MinimalSet
<1>3. m \in SUBSET S /\ IsFiniteSet(m) /\ SumFunctionOnSet(F, m) # SumFunctionOnSet(G, image(m))
  BY FS_Subset
<1>4. \A s \in SUBSET m : s # m => SumFunctionOnSet(F, s) = SumFunctionOnSet(G, image(s))
  BY <1>2
<1>5. IsFiniteSet(image(m)) /\ \A y \in image(m) : G[y] \in Int
  <2> DEFINE f == [x \in m |-> B[x]]
  <2>1. f \in Surjection(m, image(m))
    BY DEF Surjection
  <2>2. IsFiniteSet(image(m))
    BY <1>3, <2>1, FS_Surjection
  <2> QED BY <1>3, <2>2
<1>6. m # {}
  <2>1. ASSUME m = {} PROVE image(m) = {}
    BY <2>1
  <2> QED BY <1>3, <1>5, <2>1, SumStep
<1>7. PICK x \in m : TRUE
  BY <1>6
<1>8. image(m \ {x}) = image(m) \ {B[x]} /\ B[x] \in image(m)
  BY <1>3
<1>9. SumFunctionOnSet(F, m \ {x}) = SumFunctionOnSet(G, image(m \ {x}))
  BY <1>4, <1>7
<1>10. SumFunctionOnSet(F, m) = F[x] + SumFunctionOnSet(F, m \ {x})
  BY <1>3, SumAdd
<1> HIDE DEF image
<1>11. SumFunctionOnSet(G, image(m)) = G[B[x]] + SumFunctionOnSet(G, image(m) \ {B[x]})
  BY <1>5, <1>8, SumAdd
<1> QED BY <1>3, <1>8, <1>9, <1>10, <1>11

LEMMA SumUnion ==
  ASSUME NEW F, NEW S, NEW R, IsFiniteSet(S), IsFiniteSet(R), S \cap R = {},
         \A x \in S \cup R : F[x] \in Int
  PROVE  SumFunctionOnSet(F, S \cup R) = SumFunctionOnSet(F, S) + SumFunctionOnSet(F, R)
<1> DEFINE Sum(s) == SumFunctionOnSet(F, s)
           T == {s \in SUBSET S : Sum(s \cup R) # Sum(s) + Sum(R)}
<1>1. SUFFICES ASSUME T # {} PROVE FALSE
  OBVIOUS
<1>2. PICK m \in T : \A s \in T : s \subseteq m => s = m
  <2>1. T \in SUBSET SUBSET S
    OBVIOUS
  <2> HIDE DEF T
  <2> QED BY <1>1, <2>1, MinimalSet
<1>3. m \in SUBSET S /\ IsFiniteSet(m) /\ Sum(m \cup R) # Sum(m) + Sum(R)
  BY FS_Subset
<1>4. Sum(m) \in Int /\ Sum(R) \in Int
  BY <1>3, SumType
<1>5. m # {}
  <2>1. Sum({}) = 0
    BY FS_EmptySet, SumStep
  <2> SUFFICES ASSUME m = {} PROVE FALSE
    OBVIOUS
  <2>2. Sum(m) = 0 /\ m \cup R = R
    BY <2>1
  <2>3. Sum(m \cup R) = Sum(R)
    BY <2>2
  <2> HIDE DEF Sum
  <2> QED BY <1>3, <1>4, <2>2, <2>3
<1>6. PICK x \in m : TRUE
  BY <1>5
<1> DEFINE n == m \ {x}
<1>7. Sum(n \cup R) = Sum(n) + Sum(R)
  <2>1. n \in SUBSET S /\ n \subseteq m /\ n # m
    BY <1>3, <1>6
  <2> QED BY <1>2, <2>1
<1>8. Sum(m) = F[x] + Sum(n)
  BY <1>3, <1>6, SumAdd
<1>9. Sum(m \cup R) = F[x] + Sum((m \cup R) \ {x})
  <2>1. IsFiniteSet(m \cup R) /\ x \in m \cup R /\ \A y \in m \cup R : F[y] \in Int
    BY <1>3, FS_Union
  <2> HIDE DEF Sum
  <2> QED BY <2>1, SumAdd DEF Sum
<1>10. (m \cup R) \ {x} = n \cup R
  BY <1>3
<1>11. Sum(n) \in Int /\ F[x] \in Int
  <2>1. IsFiniteSet(n) /\ \A y \in n : F[y] \in Int
    BY <1>3, FS_RemoveElement
  <2>2. F[x] \in Int
    BY <1>3, <1>6
  <2> HIDE DEF n
  <2>3. SumFunctionOnSet(F, n) \in Int
    BY <2>1, SumType
  <2> QED BY <2>2, <2>3
<1>12. Sum(m \cup R) = F[x] + (Sum(n) + Sum(R))
  BY <1>7, <1>9, <1>10
<1> HIDE DEF Sum, n, T
<1> QED BY <1>3, <1>4, <1>8, <1>11, <1>12

(* The sum of the sums of the classes of a set. *)
LEMMA SumOfSums ==
  ASSUME NEW F, NEW S, IsFiniteSet(S), \A x \in S : F[x] \in Int, NEW K,
         NEW D, IsFiniteSet(D), \A x \in S : K[x] \in D,
         NEW C, \A d \in D : C[d] \subseteq S /\ \A x \in S : x \in C[d] <=> K[x] = d,
         NEW H, \A d \in D : H[d] = SumFunctionOnSet(F, C[d])
  PROVE  SumFunctionOnSet(H, D) = SumFunctionOnSet(F, S)
<1> DEFINE In(s) == {x \in S : K[x] \in s}
           T == {s \in SUBSET D : SumFunctionOnSet(H, s) # SumFunctionOnSet(F, In(s))}
<1>1. SUFFICES ASSUME T # {} PROVE FALSE
  <2>1. In(D) = S
    OBVIOUS
  <2>2. T = {} => SumFunctionOnSet(H, D) = SumFunctionOnSet(F, In(D))
    OBVIOUS
  <2> HIDE DEF In, T
  <2> QED BY <2>1, <2>2
<1>2. PICK m \in T : \A s \in T : s \subseteq m => s = m
  <2>1. T \in SUBSET SUBSET D
    OBVIOUS
  <2> HIDE DEF T
  <2> QED BY <1>1, <2>1, MinimalSet
<1>3. m \in SUBSET D /\ IsFiniteSet(m) /\ SumFunctionOnSet(H, m) # SumFunctionOnSet(F, In(m))
  BY FS_Subset
<1>4. \A s : IsFiniteSet(In(s)) /\ \A x \in In(s) : F[x] \in Int
  BY FS_Subset
<1>5. m # {}
  <2>1. SumFunctionOnSet(H, {}) = 0 /\ SumFunctionOnSet(F, {}) = 0
    BY FS_EmptySet, SumStep
  <2>2. In({}) = {}
    OBVIOUS
  <2> HIDE DEF In
  <2> QED BY <1>3, <2>1, <2>2
<1>6. PICK d \in m : TRUE
  BY <1>5
<1>7. SumFunctionOnSet(H, m \ {d}) = SumFunctionOnSet(F, In(m \ {d}))
  <2>1. m \ {d} \in SUBSET D /\ m \ {d} \subseteq m /\ m \ {d} # m
    BY <1>3, <1>6
  <2> QED BY <1>2, <2>1
<1>8. H[d] = SumFunctionOnSet(F, In({d}))
  <2>1. In({d}) = C[d]
    BY <1>3, <1>6
  <2> HIDE DEF In
  <2> QED BY <1>3, <1>6, <2>1
<1>9. \A c \in m : H[c] \in Int
  <2> SUFFICES ASSUME NEW c \in m PROVE H[c] \in Int
    OBVIOUS
  <2>1. H[c] = SumFunctionOnSet(F, In({c}))
    <3>1. In({c}) = C[c]
      BY <1>3
    <3> HIDE DEF In
    <3> QED BY <1>3, <3>1
  <2> HIDE DEF In
  <2> QED BY <1>4, <2>1, SumType
<1>10. SumFunctionOnSet(H, m) = H[d] + SumFunctionOnSet(H, m \ {d})
  BY <1>3, <1>6, <1>9, SumAdd
<1>11. In({d}) \cup In(m \ {d}) = In(m) /\ In({d}) \cap In(m \ {d}) = {}
  BY <1>6
<1> HIDE DEF In
<1>12. SumFunctionOnSet(F, In(m)) = SumFunctionOnSet(F, In({d})) + SumFunctionOnSet(F, In(m \ {d}))
  <2>1. \A x \in In({d}) \cup In(m \ {d}) : F[x] \in Int
    BY <1>4
  <2>2. SumFunctionOnSet(F, In({d}) \cup In(m \ {d}))
          = SumFunctionOnSet(F, In({d})) + SumFunctionOnSet(F, In(m \ {d}))
    <3> DEFINE one == In({d})
               more == In(m \ {d})
    <3>1. IsFiniteSet(one) /\ IsFiniteSet(more) /\ one \cap more = {}
      BY <1>4, <1>11
    <3>2. \A x \in one \cup more : F[x] \in Int
      BY <2>1
    <3> HIDE DEF one, more
    <3>3. SumFunctionOnSet(F, one \cup more) = SumFunctionOnSet(F, one) + SumFunctionOnSet(F, more)
      BY <3>1, <3>2, SumUnion
    <3> QED BY <3>3 DEF one, more
  <2> QED BY <1>11, <2>2
<1> QED BY <1>3, <1>7, <1>8, <1>10, <1>12

(* Values that differ by at most one add up to sums that differ by at most their number. *)
LEMMA SumBound ==
  ASSUME NEW F, NEW G, NEW S, IsFiniteSet(S),
         \A x \in S : F[x] \in Int /\ G[x] \in Int /\ F[x] - G[x] \in 0 .. 1
  PROVE  SumFunctionOnSet(F, S) - SumFunctionOnSet(G, S) \in 0 .. Cardinality(S)
<1> DEFINE More(s) == SumFunctionOnSet(F, s) - SumFunctionOnSet(G, s)
           T == {s \in SUBSET S : More(s) \notin 0 .. Cardinality(s)}
<1>1. SUFFICES ASSUME T # {} PROVE FALSE
  OBVIOUS
<1>2. PICK m \in T : \A s \in T : s \subseteq m => s = m
  <2>1. T \in SUBSET SUBSET S
    OBVIOUS
  <2> HIDE DEF T
  <2> QED BY <1>1, <2>1, MinimalSet
<1>3. m \in SUBSET S /\ IsFiniteSet(m) /\ More(m) \notin 0 .. Cardinality(m)
  BY FS_Subset
<1>4. m # {}
  <2>1. SumFunctionOnSet(F, {}) = 0 /\ SumFunctionOnSet(G, {}) = 0
    BY FS_EmptySet, SumStep
  <2>2. ASSUME m = {} PROVE More(m) = 0 /\ Cardinality(m) = 0
    BY <2>1, <2>2, FS_EmptySet
  <2> HIDE DEF More
  <2> QED BY <1>3, <2>2
<1>5. PICK x \in m : TRUE
  BY <1>4
<1> DEFINE n == m \ {x}
<1>6. More(n) \in 0 .. Cardinality(n)
  <2>1. n \in SUBSET S /\ n \subseteq m /\ n # m
    BY <1>3, <1>5
  <2> QED BY <1>2, <2>1
<1>7. IsFiniteSet(n) /\ Cardinality(n) = Cardinality(m) - 1 /\ Cardinality(m) \in Nat
  BY <1>3, <1>5, FS_RemoveElement, FS_CardinalityType
<1>8. /\ SumFunctionOnSet(F, m) = F[x] + SumFunctionOnSet(F, n)
      /\ SumFunctionOnSet(G, m) = G[x] + SumFunctionOnSet(G, n)
  BY <1>3, <1>5, SumAdd
<1>9. /\ SumFunctionOnSet(F, n) \in Int /\ SumFunctionOnSet(G, n) \in Int
      /\ F[x] \in Int /\ G[x] \in Int /\ F[x] - G[x] \in 0 .. 1
  <2>1. \A y \in n : F[y] \in Int /\ G[y] \in Int
    BY <1>3
  <2> QED BY <1>3, <1>7, <2>1, SumType
<1> HIDE DEF n
<1> QED BY <1>3, <1>6, <1>7, <1>8, <1>9

(* The same values add up to the same sum. *)
LEMMA SumSame ==
  ASSUME NEW F, NEW G, NEW S, IsFiniteSet(S), \A x \in S : F[x] \in Int /\ F[x] = G[x]
  PROVE  SumFunctionOnSet(F, S) = SumFunctionOnSet(G, S)
<1> DEFINE B == [x \in S |-> x]
<1>1. {B[x] : x \in S} = S
  OBVIOUS
<1>2. /\ \A x \in S : F[x] \in Int /\ F[x] = G[B[x]]
      /\ \A x, y \in S : B[x] = B[y] => x = y
  OBVIOUS
<1> HIDE DEF B
<1>3. SumFunctionOnSet(F, S) = SumFunctionOnSet(G, {B[x] : x \in S})
  BY <1>2, SumReindexed
<1> QED BY <1>1, <1>3

-------------------------------------------------------------------------------
(* Days, windows and roundings.                                            *)

USE ReportsAssumption

LEMMA InTheDay ==
  ASSUME NEW t \in Int
  PROVE  Day(t) \in Int /\ DAY * Day(t) <= t /\ t < DAY * Day(t) + DAY
BY DEF Day

LEMMA DayOf ==
  ASSUME NEW k \in Int, NEW t \in Int, DAY * k <= t, t < DAY * k + DAY
  PROVE  Day(t) = k
<1> DEFINE d == Day(t)
<1>1. d \in Int /\ DAY * d <= t /\ t < DAY * d + DAY
  BY InTheDay
<1> HIDE DEF d
<1>2. ASSUME d < k PROVE FALSE
  <2>1. DAY * (d + 1) <= DAY * k
    BY <1>1, <1>2
  <2> QED BY <1>1, <2>1
<1>3. ASSUME k < d PROVE FALSE
  <2>1. DAY * (k + 1) <= DAY * d
    BY <1>1, <1>3
  <2> QED BY <1>1, <2>1
<1> QED BY <1>1, <1>2, <1>3 DEF d

LEMMA DaysInOrder ==
  ASSUME NEW a \in Int, NEW b \in Int, a <= b
  PROVE  Day(a) <= Day(b)
<1>1. /\ Day(a) \in Int /\ DAY * Day(a) <= a
      /\ Day(b) \in Int /\ b < DAY * Day(b) + DAY
  BY InTheDay
<1>2. ASSUME Day(b) < Day(a) PROVE FALSE
  <2>1. DAY * (Day(b) + 1) <= DAY * Day(a)
    BY <1>1, <1>2
  <2> QED BY <1>1, <2>1
<1> QED BY <1>1, <1>2

(* A window begins with the first instant of its first day. *)
LEMMA WindowDays ==
  ASSUME NEW end \in Int, NEW n \in Nat \ {0}
  PROVE  /\ WindowStart(end, n) \in Int
         /\ Day(WindowStart(end, n)) = Day(end) - (n - 1)
         /\ \A t \in Int : WindowStart(end, n) <= t <=> Day(end) - (n - 1) <= Day(t)
<1> DEFINE k == Day(end) - (n - 1)
<1>1. k \in Int /\ WindowStart(end, n) = DAY * k
  BY DayIsInt DEF WindowStart
<1> HIDE DEF k
<1>2. DAY * k \in Int /\ Day(DAY * k) = k
  BY <1>1, DayOf
<1>3. ASSUME NEW t \in Int PROVE DAY * k <= t <=> k <= Day(t)
  <2>1. DAY * k <= t => k <= Day(t)
    BY <1>2, DaysInOrder
  <2>2. ASSUME k <= Day(t) PROVE DAY * k <= t
    <3>1. Day(t) \in Int /\ DAY * Day(t) <= t
      BY InTheDay
    <3>2. DAY * k <= DAY * Day(t)
      BY <1>1, <2>2, <3>1
    <3> QED BY <1>2, <3>1, <3>2
  <2> QED BY <2>1, <2>2
<1> QED BY <1>1, <1>2, <1>3 DEF k

LEMMA Rounding ==
  ASSUME NEW a \in Int, NEW b \in Nat \ {0}
  PROVE  Quotient(a, b) \in Int /\ a \div b \in Int /\ Quotient(a, b) - (a \div b) \in 0 .. 1
<1> DEFINE q == a \div b
           m == Quotient(a, b)
<1>1. q \in Int /\ b * q <= a /\ a < b * q + b
  OBVIOUS
<1>2. m \in Int /\ (2 * b) * m <= 2 * a + b /\ 2 * a + b < (2 * b) * m + 2 * b
  <2>1. 2 * b \in Nat \ {0} /\ 2 * a + b \in Int
    OBVIOUS
  <2>2. \A x \in Int, y \in Nat \ {0} : x \div y \in Int /\ y * (x \div y) <= x /\ x < y * (x \div y) + y
    OBVIOUS
  <2> QED BY <2>1, <2>2 DEF Quotient
<1> HIDE DEF q, m
<1>3. ASSUME m < q PROVE FALSE
  <2>1. b * (m + 1) <= b * q
    BY <1>1, <1>2, <1>3
  <2>2. b * m \in Int /\ b * q \in Int /\ (2 * b) * m = 2 * (b * m) /\ b * (m + 1) = b * m + b
    BY <1>1, <1>2
  <2> QED BY <1>1, <1>2, <2>1, <2>2
<1>4. ASSUME q + 1 < m PROVE FALSE
  <2>1. b * (q + 2) <= b * m
    BY <1>1, <1>2, <1>4
  <2>2. b * m \in Int /\ b * q \in Int /\ (2 * b) * m = 2 * (b * m) /\ b * (q + 2) = b * q + 2 * b
    BY <1>1, <1>2
  <2> QED BY <1>1, <1>2, <2>1, <2>2
<1> QED BY <1>1, <1>2, <1>3, <1>4 DEF q, m

-------------------------------------------------------------------------------
(* The sessions of a moment, and the rows that were read of them.          *)

RowsOf(p, ids) == {RowAt(p, s) : s \in ids}

LEMMA RowsCounted ==
  ASSUME NEW p, NEW ids \in SUBSET SessionIds
  PROVE  /\ IsFiniteSet(ids) /\ IsFiniteSet(RowsOf(p, ids))
         /\ Cardinality(RowsOf(p, ids)) = Cardinality(ids)
<1> DEFINE B == [s \in ids |-> RowAt(p, s)]
<1>1. IsFiniteSet(ids)
  BY FS_Subset
<1>2. \A s, t \in ids : RowAt(p, s) = RowAt(p, t) => s = t
  BY DEF RowAt
<1>3. B \in Bijection(ids, RowsOf(p, ids))
  <2>1. B \in [ids -> RowsOf(p, ids)] /\ \A s \in ids : B[s] = RowAt(p, s)
    BY DEF RowsOf
  <2>2. \A r \in RowsOf(p, ids) : \E s \in ids : B[s] = r
    BY DEF RowsOf
  <2> HIDE DEF B
  <2>3. B \in Injection(ids, RowsOf(p, ids))
    BY <1>2, <2>1 DEF Injection, IsInjective
  <2>4. B \in Surjection(ids, RowsOf(p, ids))
    BY <2>1, <2>2 DEF Surjection
  <2> QED BY <2>3, <2>4 DEF Bijection
<1>4. ExistsBijection(ids, RowsOf(p, ids))
  BY <1>3 DEF ExistsBijection
<1> QED BY <1>1, <1>4, FS_Bijection

LEMMA SecondsRounded ==
  ASSUME NEW r, r.started \in Int, r.ended \in Int
  PROVE  /\ calculateDurationSeconds(r) \in Int /\ study_seconds(r) \in Int
         /\ study_seconds(r) - calculateDurationSeconds(r) \in 0 .. 1
<1> DEFINE a == r.ended - r.started
<1>1. a \in Int
  OBVIOUS
<1>2. calculateDurationSeconds(r) = a \div SECOND /\ study_seconds(r) = Quotient(a, SECOND)
  BY DEF calculateDurationSeconds, study_seconds
<1> HIDE DEF a
<1> QED BY <1>1, <1>2, Rounding

(* Times of study are added up of sessions or of their rows. *)
LEMMA RowsSummed ==
  ASSUME NEW p, NEW ids \in SUBSET SessionIds,
         \A s \in ids : p.sessions[s].started \in Int /\ p.sessions[s].ended \in Int
  PROVE  /\ SumFunction([r \in RowsOf(p, ids) |-> calculateDurationSeconds(r)]) = Seconds(p, ids)
         /\ SumFunction([r \in RowsOf(p, ids) |-> study_seconds(r)]) = StudyTime(p, ids)
         /\ \A r \in RowsOf(p, ids) : calculateDurationSeconds(r) \in Int
<1> DEFINE rows == RowsOf(p, ids)
           B == [s \in ids |-> RowAt(p, s)]
<1>1. IsFiniteSet(ids)
  BY RowsCounted
<1>2. /\ \A s, t \in ids : B[s] = B[t] => s = t
      /\ {B[s] : s \in ids} = rows
  BY DEF RowAt, RowsOf
<1>3. ASSUME NEW s \in ids
      PROVE  /\ calculateDurationSeconds(RowAt(p, s)) = calculateDurationSeconds(p.sessions[s])
             /\ study_seconds(RowAt(p, s)) = study_seconds(p.sessions[s])
             /\ calculateDurationSeconds(p.sessions[s]) \in Int
             /\ study_seconds(p.sessions[s]) \in Int
  <2>1. RowAt(p, s).ended = p.sessions[s].ended /\ RowAt(p, s).started = p.sessions[s].started
    BY DEF RowAt
  <2> QED BY <2>1, SecondsRounded DEF calculateDurationSeconds, study_seconds
<1>4. SumFunction([r \in rows |-> calculateDurationSeconds(r)]) = Seconds(p, ids)
  <2> DEFINE F == [s \in ids |-> calculateDurationSeconds(p.sessions[s])]
             G == [r \in rows |-> calculateDurationSeconds(r)]
  <2>1. \A s \in ids : F[s] \in Int /\ F[s] = G[B[s]]
    BY <1>2, <1>3
  <2>2. Seconds(p, ids) = SumFunctionOnSet(F, ids) /\ SumFunction(G) = SumFunctionOnSet(G, rows)
    BY DEF Seconds, SumFunction
  <2> HIDE DEF F, G, B
  <2>3. SumFunctionOnSet(F, ids) = SumFunctionOnSet(G, {B[s] : s \in ids})
    BY <1>1, <1>2, <2>1, SumReindexed
  <2> QED BY <1>2, <2>2, <2>3 DEF G
<1>5. SumFunction([r \in rows |-> study_seconds(r)]) = StudyTime(p, ids)
  <2> DEFINE F == [s \in ids |-> study_seconds(p.sessions[s])]
             G == [r \in rows |-> study_seconds(r)]
  <2>1. \A s \in ids : F[s] \in Int /\ F[s] = G[B[s]]
    BY <1>2, <1>3
  <2>2. StudyTime(p, ids) = SumFunctionOnSet(F, ids) /\ SumFunction(G) = SumFunctionOnSet(G, rows)
    BY DEF StudyTime, SumFunction
  <2> HIDE DEF F, G, B
  <2>3. SumFunctionOnSet(F, ids) = SumFunctionOnSet(G, {B[s] : s \in ids})
    BY <1>1, <1>2, <2>1, SumReindexed
  <2> QED BY <1>2, <2>2, <2>3 DEF G
<1>6. \A r \in rows : calculateDurationSeconds(r) \in Int
  BY <1>3 DEF RowsOf
<1> QED BY <1>3, <1>4, <1>5, <1>6

(* A window ends with its last day, or as the call arrives. *)
LEMMA WindowEnds ==
  ASSUME Window, mem.last \in Int, call.date \in Dates \cup {NULL}
  PROVE  /\ Day(mem.last) = IF call.date = NULL THEN Day(arrived) ELSE call.date
         /\ \A t \in Int : t <= mem.last <=>
              Day(t) <= Day(mem.last) /\ (call.date = NULL => t <= arrived)
<1>1. CASE call.date = NULL
  <2>1. mem.last = arrived
    BY <1>1 DEF Window
  <2>2. \A t \in Int : t <= mem.last => Day(t) <= Day(mem.last)
    BY DaysInOrder
  <2>3. Day(mem.last) = Day(arrived)
    BY <2>1
  <2>4. \A t \in Int : t <= mem.last <=> Day(t) <= Day(mem.last) /\ t <= arrived
    BY <2>1, <2>2
  <2> QED BY <1>1, <2>3, <2>4
<1>2. CASE call.date # NULL
  <2>1. call.date \in Int /\ mem.last = call.date * DAY + DAY - 1
    BY <1>2 DEF Window
  <2>2. DAY * call.date = call.date * DAY /\ DAY * call.date \in Int
    BY <2>1
  <2>3. Day(mem.last) = call.date
    BY <2>1, <2>2, DayOf
  <2>4. ASSUME NEW t \in Int, Day(t) <= call.date PROVE t <= mem.last
    <3> DEFINE d == Day(t)
    <3>1. d \in Int /\ t < DAY * d + DAY /\ d <= call.date
      BY <2>4, InTheDay
    <3> HIDE DEF d
    <3>2. DAY * d <= DAY * call.date /\ DAY * d \in Int
      BY <2>1, <3>1
    <3> QED BY <2>1, <2>2, <3>1, <3>2
  <2>5. \A t \in Int : t <= mem.last => Day(t) <= Day(mem.last)
    BY DaysInOrder
  <2>6. \A t \in Int : t <= mem.last <=> Day(t) <= Day(mem.last)
    BY <2>3, <2>4, <2>5
  <2> QED BY <1>2, <2>3, <2>6
<1> QED BY <1>1, <1>2

(* The report made of the sessions of a moment is the one of that moment. *)
LEMMA ReportOfMoment ==
  ASSUME NEW p, NEW logs, NEW ids, mem.last \in Int, call.kind \in {"weekly", "monthly"},
         call.date \in Dates \cup {NULL}, Window, ids = DoneIn(p),
         \A s \in ids : p.sessions[s].started \in Int /\ p.sessions[s].ended \in Int,
         \A l : l.session \in ids => (l \in logs <=> l \in p.logs)
  PROVE  Says(p, call, PeriodReport(RowsOf(p, ids), logs))
<1> DEFINE n == DaysIn[call.kind]
           last == Day(mem.last)
           first == last - (n - 1)
           days == first .. last
           rows == RowsOf(p, ids)
           done(d) == DoneBy(p, call, d, d)
           bucket == [d \in days |-> Bucket(On(d, rows), LogsIn(On(d, rows), logs))]
           counted == UNION {On(d, rows) : d \in days}
           F == [r \in rows |-> calculateDurationSeconds(r)]
<1>1. n \in Nat \ {0} /\ last \in Int /\ Day(mem.first) = first /\ mem.first \in Int
  BY WindowDays, DayIsInt DEF Window
<1>2. days = Day(mem.first) .. Day(mem.first) + DaysIn[call.kind] - 1
  BY <1>1
<1>3. PeriodReport(rows, logs) =
        [code |-> 200, start |-> first, end |-> last, days |-> bucket,
         seconds |-> SumFunction([d \in days |-> bucket[d].seconds]),
         average |-> Average(LogsIn(counted, logs))]
  BY <1>1, <1>2 DEF PeriodReport
<1>4. ids = DoneBy(p, call, first, last) /\ ids \subseteq SessionIds
  BY <1>1 DEF DoneIn, DoneBy, Done
<1>5. \A s \in ids : /\ Day(p.sessions[s].started) \in days
                     /\ RowAt(p, s).id = s /\ RowAt(p, s).started = p.sessions[s].started
  BY <1>4 DEF DoneBy, Done, RowAt
<1>6. ASSUME NEW d \in days
      PROVE  /\ done(d) = {s \in ids : Day(p.sessions[s].started) = d}
             /\ On(d, rows) = RowsOf(p, done(d))
  <2>1. d \in Int /\ \A x \in Int : x \in d .. d <=> x = d
    BY <1>1
  <2>2. \A s \in SessionIds : s \in done(d) <=> s \in ids /\ Day(p.sessions[s].started) = d
    BY <1>1, <1>4, <2>1 DEF DoneBy, Done
  <2>3. done(d) = {s \in ids : Day(p.sessions[s].started) = d}
    BY <1>4, <2>2 DEF DoneBy, Done
  <2> QED BY <1>5, <2>3 DEF On, RowsOf
<1>7. ASSUME NEW some \in SUBSET ids PROVE LogsIn(RowsOf(p, some), logs) = AllLogs(p, some)
  <2>1. {r.id : r \in RowsOf(p, some)} = some
    BY <1>5 DEF RowsOf
  <2> QED BY <2>1 DEF LogsIn, AllLogs
<1>8. ASSUME NEW d \in days
      PROVE  /\ bucket[d] = [sessions |-> Cardinality(done(d)), seconds |-> Seconds(p, done(d)),
                             average |-> Average(AllLogs(p, done(d)))]
             /\ bucket[d].seconds = SumFunctionOnSet(F, {r \in rows : Day(r.started) = d})
  <2>1. done(d) \in SUBSET ids /\ done(d) \in SUBSET SessionIds
    BY <1>4, <1>6
  <2>2. Bucket(On(d, rows), LogsIn(On(d, rows), logs))
          = [sessions |-> Cardinality(RowsOf(p, done(d))),
             seconds |-> SumFunction([r \in RowsOf(p, done(d)) |-> calculateDurationSeconds(r)]),
             average |-> Average(AllLogs(p, done(d)))]
    BY <1>6, <1>7, <2>1 DEF Bucket
  <2>3. /\ Cardinality(RowsOf(p, done(d))) = Cardinality(done(d))
        /\ IsFiniteSet(RowsOf(p, done(d)))
    BY <2>1, RowsCounted
  <2>4. /\ SumFunction([r \in RowsOf(p, done(d)) |-> calculateDurationSeconds(r)])
             = Seconds(p, done(d))
        /\ \A r \in RowsOf(p, done(d)) : calculateDurationSeconds(r) \in Int
    BY <2>1, RowsSummed
  <2>5. RowsOf(p, done(d)) \subseteq rows
    BY <2>1 DEF RowsOf
  <2>6. SumFunction([r \in RowsOf(p, done(d)) |-> calculateDurationSeconds(r)])
          = SumFunctionOnSet(F, RowsOf(p, done(d)))
    <3> DEFINE G == [r \in RowsOf(p, done(d)) |-> calculateDurationSeconds(r)]
    <3>1. \A r \in RowsOf(p, done(d)) : G[r] \in Int /\ G[r] = F[r]
      BY <2>4, <2>5
    <3>2. SumFunction(G) = SumFunctionOnSet(G, RowsOf(p, done(d)))
      BY DEF SumFunction
    <3> HIDE DEF G, F
    <3> QED BY <2>3, <3>1, <3>2, SumSame DEF G
  <2>7. RowsOf(p, done(d)) = {r \in rows : Day(r.started) = d}
    BY <1>6 DEF On
  <2> QED BY <2>2, <2>3, <2>4, <2>6, <2>7
<1>9. SumFunction([d \in days |-> bucket[d].seconds]) = Seconds(p, ids)
  <2> DEFINE H == [d \in days |-> bucket[d].seconds]
             K == [r \in rows |-> Day(r.started)]
  <2>1. IsFiniteSet(rows) /\ IsFiniteSet(days)
    <3>1. IsFiniteSet(rows)
      BY <1>4, RowsCounted
    <3>2. first \in Int /\ last \in Int
      BY <1>1
    <3> QED BY <3>1, <3>2, FS_Interval
  <2>2. \A r \in rows : F[r] \in Int
    BY <1>4, RowsSummed
  <2> DEFINE C == [d \in days |-> {r \in rows : Day(r.started) = d}]
  <2>3. \A d \in days : H[d] = SumFunctionOnSet(F, C[d])
    <3> HIDE DEF bucket
    <3> QED BY <1>8
  <2>4. /\ \A r \in rows : K[r] \in days
        /\ \A d \in days : C[d] \subseteq rows /\ \A r \in rows : r \in C[d] <=> K[r] = d
    BY <1>5 DEF RowsOf
  <2>5. Seconds(p, ids) = SumFunctionOnSet(F, rows)
    BY <1>4, RowsSummed DEF SumFunction
  <2>6. SumFunction(H) = SumFunctionOnSet(H, days)
    BY DEF SumFunction
  <2> HIDE DEF H, K, F, C, rows, days
  <2>7. SumFunctionOnSet(H, days) = SumFunctionOnSet(F, rows)
    BY <2>1, <2>2, <2>3, <2>4, SumOfSums
  <2>8. SumFunction(H) = Seconds(p, ids)
    BY <2>5, <2>6, <2>7
  <2> QED BY <2>8 DEF H
<1>10. LogsIn(counted, logs) = AllLogs(p, ids)
  <2>1. counted = rows
    BY <1>5 DEF On, RowsOf
  <2> QED BY <1>7, <2>1
<1>11. bucket = [d \in days |-> [sessions |-> Cardinality(done(d)), seconds |-> Seconds(p, done(d)),
                                average |-> Average(AllLogs(p, done(d)))]]
  BY <1>8
<1> HIDE DEF bucket, counted
<1>12. PICK a : a = PeriodReport(rows, logs)
  OBVIOUS
<1>13. a.start = first /\ a.end = last /\ a.days = bucket
  BY <1>3, <1>12
<1>14. a.seconds = Seconds(p, ids) /\ a.average = Average(AllLogs(p, ids))
  BY <1>3, <1>9, <1>10, <1>12
<1>16. last = IF call.date = NULL THEN Day(arrived) ELSE call.date
  BY WindowEnds
<1>15. Says(p, call, a)
  BY <1>4, <1>11, <1>13, <1>14, <1>16 DEF Says
<1> QED BY <1>12, <1>15

-------------------------------------------------------------------------------
(* The two queries of a period report.                                     *)

(* Whatever was written while the first query was on its way, it finds the *)
(* sessions of the moment at which it is made.                             *)
LEMMA WindowFinds ==
  ASSUME IInv, Window, call.kind \in {"weekly", "monthly"}, NEW p, p = Moment(call)
  PROVE  InPeriod = DoneIn(p) /\ \A s \in InPeriod : p.sessions[s] = sessions[s]
<1>1. p.sessions = sessions
  BY DEF Moment
<1>2. /\ mem.last \in Int /\ call.date \in Dates \cup {NULL} /\ DaysIn[call.kind] \in Nat \ {0}
      /\ mem.first = WindowStart(mem.last, DaysIn[call.kind])
  BY DEF IInv, TypeOK, Memory, Call, NoCall, Window
<1>3. ASSUME NEW s \in SessionIds
      PROVE  s \in InPeriod <=> s \in DoneIn(p)
  <2> DEFINE t == sessions[s].started
  <2>1. t \in Int
    BY DEF IInv, TypeOK, Session
  <2> HIDE DEF t
  <2>2. Countable(s) <=> sessions[s].status = "COMPLETED"
    BY DEF Countable, IInv, StudyKept, ReportsKept
  <2>3. mem.first <= t <=> Day(mem.first) <= Day(t)
    <3>1. \A x \in Int : mem.first <= x <=> Day(mem.first) <= Day(x)
      BY <1>2, WindowDays
    <3> QED BY <2>1, <3>1
  <2>4. t <= mem.last <=> Day(t) <= Day(mem.last) /\ (call.date = NULL => t <= arrived)
    <3>1. \A x \in Int : x <= mem.last <=>
            Day(x) <= Day(mem.last) /\ (call.date = NULL => x <= arrived)
      BY <1>2, WindowEnds
    <3> QED BY <2>1, <3>1
  <2>5. Day(mem.first) \in Int /\ Day(t) \in Int /\ Day(mem.last) \in Int
    <3>1. mem.first \in Int
      BY <1>2, WindowDays
    <3> QED BY <1>2, <2>1, <3>1, DayIsInt
  <2>6. Day(t) \in Day(mem.first) .. Day(mem.last) <=>
          Day(mem.first) <= Day(t) /\ Day(t) <= Day(mem.last)
    BY <2>5
  <2> QED BY <1>1, <2>2, <2>3, <2>4, <2>6 DEF t, InPeriod, DoneIn, DoneBy, Done
<1> QED BY <1>1, <1>3 DEF InPeriod, DoneIn, DoneBy, Done

LEMMA PeriodReceived ==
  ASSUME IInv, NEW kind \in {"weekly", "monthly"}, NEW u \in Users, NEW date \in Dates \cup {NULL},
         ReceivePeriod(kind, u, date), arrived' = clock
  PROVE  PeriodHeld'
<1>1. /\ call' = [kind |-> kind, user |-> u, date |-> date] /\ pc' = {"period"}
      /\ mem'.last = WindowEnd(date) /\ mem'.first = WindowStart(mem'.last, DaysIn[kind])
  BY DEF ReceivePeriod, Receive, Nothing
<1>2. Window'
  BY <1>1 DEF Window, WindowEnd, WindowStart, Day
<1> QED BY <1>1, <1>2 DEF PeriodHeld

LEMMA PeriodWritten ==
  ASSUME PeriodHeld, mem' = mem, call' = call, pc' = pc, arrived' = arrived, past \subseteq past'
  PROVE  PeriodHeld'
<1>1. Window => Window'
  BY DEF Window, WindowStart, Day
<1>2. \A p : DoneIn(p)' = DoneIn(p)
  BY DEF DoneIn, DoneBy, Done, Day
<1> QED BY <1>1, <1>2 DEF PeriodHeld, RowAt

(* What FindSessionsOfPeriod and ReadTotals answer is the report of a moment. *)
LEMMA PeriodAnswered ==
  ASSUME IInv, FinishedKept, Window, call.kind \in {"weekly", "monthly"},
         NEW p \in past, NEW logs, logs = MetricsOf(DoneIn(p)),
         Answer(PeriodReport(RowsOf(p, DoneIn(p)), logs)), past' = past, arrived' = arrived
  PROVE  PeriodOfOneMoment'
<1> DEFINE ids == DoneIn(p)
<1>1. \A s \in ids : p.sessions[s].started \in Int /\ p.sessions[s].ended \in Int
  <2> SUFFICES ASSUME NEW s \in ids PROVE p.sessions[s].started \in Int /\ p.sessions[s].ended \in Int
    OBVIOUS
  <2>1. s \in SessionIds /\ p.sessions[s].status = "COMPLETED"
    BY DEF DoneIn, DoneBy, Done
  <2>2. p.sessions[s] = sessions[s] /\ sessions[s].status = "COMPLETED"
    BY <2>1 DEF FinishedKept
  <2>3. sessions[s].started \in Int /\ sessions[s].ended \in Int
    <3>1. sessions[s].started \in Int
      BY <2>1 DEF IInv, TypeOK, Session
    <3>2. sessions[s].ended \in Int
      BY <2>1, <2>2 DEF IInv, StudyKept, ReportsKept
    <3> QED BY <3>1, <3>2
  <2> QED BY <2>2, <2>3
<1>2. ASSUME NEW l, l.session \in ids PROVE l \in logs <=> l \in p.logs
  <2>1. l.session \in SessionIds /\ p.sessions[l.session].status = "COMPLETED"
    BY <1>2 DEF DoneIn, DoneBy, Done
  <2>2. {k \in p.logs : k.session = l.session} = MetricsOf({l.session})
    BY <2>1 DEF IInv, MomentsKept
  <2>3. l \in logs <=> l \in MetricsOf({l.session})
    BY <1>2 DEF MetricsOf
  <2> QED BY <2>2, <2>3
<1>3. PICK a : a = PeriodReport(RowsOf(p, ids), logs)
  OBVIOUS
<1>4. mem.last \in Int /\ call.date \in Dates \cup {NULL}
  BY DEF IInv, TypeOK, Memory, Call, NoCall
<1>5. Says(p, call, a)
  BY <1>1, <1>2, <1>3, <1>4, ReportOfMoment
<1>6. answer' = a /\ call' = call /\ p \in past'
  BY <1>3 DEF Answer
<1>7. Says(p, call, answer)'
  <2>1. \A c, x : Says(p, c, x)' <=> Says(p, c, x)
    BY DEF Says, DoneBy, Done, Seconds, AllLogs, Day
  <2> QED BY <1>5, <1>6, <2>1
<1> QED BY <1>6, <1>7 DEF PeriodOfOneMoment

LEMMA PeriodQueried ==
  ASSUME IInv, FinishedKept, Watched, PeriodHeld, FindSessionsOfPeriod \/ ReadTotals,
         past \subseteq past', pc' = {} => past' = past, arrived' = arrived
  PROVE  PeriodHeld' /\ PeriodOfOneMoment'
<1>1. CASE FindSessionsOfPeriod
  <2>1. pc = {"period"} /\ Window /\ call.kind \in {"weekly", "monthly"}
    BY <1>1 DEF FindSessionsOfPeriod, PeriodHeld, IInv, InHandler
  <2>2. PICK p \in past : InPeriod = DoneIn(p) /\ \A s \in InPeriod : p.sessions[s] = sessions[s]
    BY <2>1, WindowFinds DEF Watched
  <2>3. CASE InPeriod = {}
    <3>1. Answer(PeriodReport({}, {})) /\ DoneIn(p) = {}
      BY <1>1, <2>2, <2>3 DEF FindSessionsOfPeriod
    <3>2. RowsOf(p, DoneIn(p)) = {} /\ MetricsOf(DoneIn(p)) = {}
      BY <3>1 DEF RowsOf, MetricsOf
    <3>3. pc' = {} /\ past' = past
      BY <3>1 DEF Answer
    <3>4. PeriodOfOneMoment'
      BY <2>1, <3>1, <3>2, <3>3, PeriodAnswered
    <3> QED BY <3>3, <3>4 DEF PeriodHeld
  <2>4. CASE InPeriod # {}
    <3> DEFINE rows == {Row(s) : s \in InPeriod}
    <3>1. Goto({"totals"}, [mem EXCEPT !.rows = rows]) /\ mem \in Memory
      BY <1>1, <2>4 DEF FindSessionsOfPeriod, IInv, TypeOK
    <3>2. rows = {RowAt(p, s) : s \in DoneIn(p)}
      BY <2>2 DEF Row, RowAt
    <3> HIDE DEF rows
    <3>3. /\ pc' = {"totals"} /\ call' = call /\ mem'.rows = rows
          /\ mem'.first = mem.first /\ mem'.last = mem.last
      BY <3>1 DEF Goto, Memory
    <3>4. Window' /\ DoneIn(p)' = DoneIn(p)
      BY <2>1, <3>3 DEF Window, WindowStart, Day, DoneIn, DoneBy, Done
    <3>5. PeriodHeld'
      BY <3>2, <3>3, <3>4 DEF PeriodHeld, RowAt
    <3> QED BY <3>3, <3>5 DEF PeriodOfOneMoment, Answered
  <2> QED BY <2>3, <2>4
<1>2. CASE ReadTotals
  <2>1. pc = {"totals"} /\ Window /\ call.kind \in {"weekly", "monthly"}
    BY <1>2 DEF ReadTotals, PeriodHeld, IInv, InHandler
  <2>2. PICK p \in past : mem.rows = {RowAt(p, s) : s \in DoneIn(p)}
    BY <2>1 DEF PeriodHeld
  <2>3. mem.rows = RowsOf(p, DoneIn(p)) /\ {r.id : r \in mem.rows} = DoneIn(p)
    <3>1. \A s : RowAt(p, s).id = s
      BY DEF RowAt
    <3>2. mem.rows = RowsOf(p, DoneIn(p))
      BY <2>2 DEF RowsOf
    <3> QED BY <2>2, <3>1, <3>2
  <2>4. Answer(PeriodReport(RowsOf(p, DoneIn(p)), MetricsOf(DoneIn(p))))
    BY <1>2, <2>3 DEF ReadTotals
  <2>5. pc' = {} /\ past' = past
    BY <2>4 DEF Answer
  <2>6. PeriodOfOneMoment'
    BY <2>1, <2>4, <2>5, PeriodAnswered
  <2> QED BY <2>5, <2>6 DEF PeriodHeld
<1> QED BY <1>1, <1>2

LEMMA LogsCounted ==
  ASSUME TypeOK, Counting, Writers
  PROVE  Counting'
<1>1. CASE \E s \in SessionIds : StartSession(s) \/ ReadForEnd(s) \/ EndSession(s)
  <2>1. UNCHANGED tier
    BY <1>1 DEF StartSession, ReadForEnd, EndSession
  <2> QED BY <2>1 DEF Counting, Logs
<1>2. ASSUME NEW s \in SessionIds, NEW id \in LogIds, InsertLog(s, id)
      PROVE  Counting'
  <2>1. PICK at : tier' = [tier EXCEPT !["raw"] = @ \cup {[session |-> s, id |-> id, at |-> at]}]
    BY <1>2 DEF InsertLog
  <2>2. Logs' = Logs \cup {[session |-> s, id |-> id, at |-> at]}
    BY <2>1 DEF Logs, TypeOK, Tables
  <2> QED BY <2>2, FS_AddElement DEF Counting
<1>3. ASSUME NEW t \in Tables \ {"weekly"}, RollUp(t)
      PROVE  Logs' = Logs
  <2>1. PICK due \in SUBSET {l \in tier[t] : l.at <= clock - KEEP} :
           tier' = [tier EXCEPT ![t] = @ \ due, ![Above[t]] = @ \cup due]
    BY <1>3 DEF RollUp
  <2>2. Above[t] \in Tables /\ Above[t] # t
    BY DEF Above, Tables
  <2>3. /\ tier'[t] = tier[t] \ due /\ tier'[Above[t]] = tier[Above[t]] \cup due
        /\ \A u \in Tables : u # t /\ u # Above[t] => tier'[u] = tier[u]
    BY <2>1, <2>2 DEF TypeOK
  <2> QED BY <2>2, <2>3 DEF Logs
<1>4. CASE \/ \E u \in Users : SetParticipation(u) \/ Deactivate(u) \/ SetMember(u)
           \/ \E u, v \in Users : Befriend(u, v)
           \/ Tick
  <2>1. UNCHANGED study
    BY <1>4 DEF SetParticipation, Deactivate, SetMember, Befriend, Tick
  <2> QED BY <2>1 DEF study, Counting, Logs
<1> QED BY <1>1, <1>2, <1>3, <1>4 DEF Writers, Counting

LEMMA ClockRuns == ASSUME TypeOK, Next PROVE clock \in Int /\ clock' \in Int /\ clock <= clock'
<1>1. clock \in Int
  BY DEF TypeOK
<1>2. CASE Calls
  BY <1>1, <1>2, CallsKeep
<1>3. CASE Queries
  <2>1. UNCHANGED clock
    BY <1>3 DEF Queries, FindSessionsOfPeriod, ReadTotals, FindSession, FindReport, ReadLogs, ReadPage,
                CountSessions, ReadMetricMap, FindFriends, FindGroup, CheckMembership, FindMembers,
                RankUsers, Fail, Scoped, Goto, Answer, Refuse
  <2> QED BY <1>1, <2>1
<1>4. CASE Writers
  <2>1. UNCHANGED clock \/ clock' = clock + 1
    BY <1>4 DEF Writers, StartSession, InsertLog, ReadForEnd, EndSession, RollUp, SetParticipation,
                Deactivate, Befriend, SetMember, Tick
  <2> QED BY <1>1, <2>1
<1> QED BY <1>2, <1>3, <1>4 DEF Next

LEMMA FinishedHeld ==
  ASSUME MomentsKept, FinishedKept, Kept, past' \subseteq past \cup {Moment(call)'}
  PROVE  FinishedKept'
<1> SUFFICES ASSUME NEW p \in past', NEW s \in SessionIds, p.sessions[s].status = "COMPLETED"
             PROVE  p.sessions[s] = sessions'[s]
  BY DEF FinishedKept
<1>1. CASE p \in past
  BY <1>1 DEF MomentsKept, FinishedKept, Kept
<1>2. CASE p = Moment(call)'
  BY <1>2 DEF Moment
<1> QED BY <1>1, <1>2

-------------------------------------------------------------------------------
(* Places.  Ranks that respect a strict order of n users and lie in 1 .. n *)
(* are places: below a user there is room for those ahead of him only.     *)

HIDE ReportsAssumption

Ahead(W, u, v) == W[u] > W[v] \/ (W[u] = W[v] /\ u < v)
Respects(W, R, rank) == \A u, v \in R : Ahead(W, u, v) => rank[u] < rank[v]
Placed(W, R, u) == 1 + Cardinality({v \in R : Ahead(W, v, u)})

LEMMA FitsIn ==
  ASSUME NEW S, IsFiniteSet(S), NEW f, NEW a \in Int, NEW b \in Int, a <= b + 1,
         \A x \in S : f[x] \in a .. b,
         \A x, y \in S : f[x] = f[y] => x = y
  PROVE  Cardinality(S) <= b - a + 1
<1> DEFINE g == [x \in S |-> f[x]]
<1>1. g \in [S -> a .. b] /\ \A x, y \in S : g[x] = g[y] => x = y
  OBVIOUS
<1> HIDE DEF g
<1>2. g \in Injection(S, a .. b)
  BY <1>1 DEF Injection, IsInjective
<1>3. IsFiniteSet(a .. b) /\ Cardinality(a .. b) = IF a > b THEN 0 ELSE b - a + 1
  BY FS_Interval
<1>4. Cardinality(S) <= Cardinality(a .. b)
  BY <1>2, <1>3, FS_Injection
<1> QED BY <1>3, <1>4

LEMMA Placing ==
  ASSUME NEW R \in SUBSET Int, IsFiniteSet(R), NEW W, \A u \in R : W[u] \in Int
  PROVE  /\ \E rank \in [R -> 1 .. Cardinality(R)] : Respects(W, R, rank)
         /\ \A rank \in [R -> 1 .. Cardinality(R)] :
              Respects(W, R, rank) => \A u \in R : rank[u] = Placed(W, R, u)
<1> DEFINE n == Cardinality(R)
           Before(u) == {v \in R : Ahead(W, v, u)}
           After(u) == {v \in R : Ahead(W, u, v)}
           place == [u \in R |-> Placed(W, R, u)]
<1>1. n \in Nat
  BY FS_CardinalityType
<1>2. /\ \A u \in R : ~ Ahead(W, u, u)
      /\ \A u, v \in R : u # v => Ahead(W, u, v) \/ Ahead(W, v, u)
      /\ \A u, v, w \in R : Ahead(W, u, v) /\ Ahead(W, v, w) => Ahead(W, u, w)
      /\ \A u, v \in R : Ahead(W, u, v) => ~ Ahead(W, v, u)
  BY DEF Ahead
<1>3. ASSUME NEW u \in R
      PROVE  /\ IsFiniteSet(Before(u)) /\ Cardinality(Before(u)) \in Nat
             /\ IsFiniteSet(After(u)) /\ Cardinality(After(u)) \in Nat
             /\ Cardinality(Before(u)) + 1 + Cardinality(After(u)) = n
  <2>1. Before(u) \subseteq R /\ After(u) \subseteq R
    OBVIOUS
  <2>2. IsFiniteSet(Before(u)) /\ IsFiniteSet(After(u))
    BY <2>1, FS_Subset
  <2>3. Cardinality(Before(u)) \in Nat /\ Cardinality(After(u)) \in Nat
    BY <2>2, FS_CardinalityType
  <2> DEFINE upto == Before(u) \cup {u}
  <2>4. u \notin Before(u) /\ upto \cap After(u) = {} /\ upto \cup After(u) = R
    <3>1. u \notin Before(u) /\ u \notin After(u)
      BY <1>2
    <3>2. \A v \in R : /\ v = u \/ v \in Before(u) \/ v \in After(u)
                      /\ ~ (v \in Before(u) /\ v \in After(u))
      BY <1>2
    <3> HIDE DEF Before, After
    <3> QED BY <2>1, <3>1, <3>2
  <2> HIDE DEF Before, After
  <2>5. IsFiniteSet(upto) /\ Cardinality(upto) = Cardinality(Before(u)) + 1
    BY <2>2, <2>4, FS_AddElement
  <2> HIDE DEF upto
  <2>6. Cardinality(upto \cup After(u)) = Cardinality(upto) + Cardinality(After(u)) - Cardinality(upto \cap After(u))
    BY <2>2, <2>5, FS_Union
  <2>7. Cardinality(upto \cap After(u)) = 0
    BY <2>4, FS_EmptySet
  <2>8. Cardinality(upto \cup After(u)) = n
    BY <2>4
  <2>9. n = (Cardinality(Before(u)) + 1) + Cardinality(After(u)) - 0
    BY <2>5, <2>6, <2>7, <2>8
  <2> HIDE DEF n
  <2> QED BY <2>2, <2>3, <2>9
<1>4. place \in [R -> 1 .. n] /\ Respects(W, R, place)
  <2>1. \A u \in R : place[u] = 1 + Cardinality(Before(u))
    BY DEF Placed
  <2>2. ASSUME NEW u \in R PROVE place[u] \in 1 .. n
    <3>1. Cardinality(Before(u)) \in Nat /\ Cardinality(After(u)) \in Nat
      BY <1>3
    <3>2. Cardinality(Before(u)) + 1 + Cardinality(After(u)) = n
      BY <1>3
    <3>3. place[u] = 1 + Cardinality(Before(u))
      BY <2>1
    <3> HIDE DEF Before, After, n, place
    <3> QED BY <1>1, <3>1, <3>2, <3>3
  <2>3. ASSUME NEW u \in R, NEW v \in R, Ahead(W, u, v)
        PROVE  place[u] < place[v]
    <3>1. u \notin Before(u) /\ Before(u) \cup {u} \subseteq Before(v)
      BY <1>2, <2>3
    <3> HIDE DEF Before
    <3>2. Cardinality(Before(u) \cup {u}) = Cardinality(Before(u)) + 1
      BY <1>3, <3>1, FS_AddElement
    <3>3. Cardinality(Before(u) \cup {u}) <= Cardinality(Before(v))
      BY <1>3, <3>1, FS_Subset
    <3>4. Cardinality(Before(u)) \in Nat /\ Cardinality(Before(v)) \in Nat
      BY <1>3
    <3>5. place[u] = 1 + Cardinality(Before(u)) /\ place[v] = 1 + Cardinality(Before(v))
      BY <2>1
    <3> HIDE DEF place
    <3> QED BY <3>2, <3>3, <3>4, <3>5
  <2>4. place \in [R -> 1 .. n]
    BY <2>2
  <2> QED BY <2>3, <2>4 DEF Respects
<1>5. ASSUME NEW rank \in [R -> 1 .. n], Respects(W, R, rank), NEW u \in R
      PROVE  rank[u] = 1 + Cardinality(Before(u))
  <2>1. \A v, w \in R : rank[v] = rank[w] => v = w
    <3>1. \A v \in R : rank[v] \in 1 .. n
      OBVIOUS
    <3> QED BY <1>2, <1>5, <3>1 DEF Respects
  <2>2. rank[u] \in Int /\ 1 <= rank[u] /\ rank[u] <= n /\ n \in Int
    BY <1>1
  <2>3. \A v \in Before(u) : rank[v] \in 1 .. (rank[u] - 1)
    BY <1>1, <1>5 DEF Respects
  <2>4. \A v \in After(u) : rank[v] \in (rank[u] + 1) .. n
    BY <1>1, <1>5 DEF Respects
  <2>5. Before(u) \subseteq R /\ After(u) \subseteq R
    OBVIOUS
  <2> HIDE DEF Before, After
  <2> HIDE DEF n
  <2>6. /\ rank[u] - 1 \in Int /\ 1 <= (rank[u] - 1) + 1
        /\ rank[u] + 1 \in Int /\ rank[u] + 1 <= n + 1
    BY <2>2
  <2>7. \A v, w \in Before(u) : rank[v] = rank[w] => v = w
    BY <2>1, <2>5
  <2>8. \A v, w \in After(u) : rank[v] = rank[w] => v = w
    BY <2>1, <2>5
  <2>9. IsFiniteSet(Before(u)) /\ IsFiniteSet(After(u))
    BY <1>3
  <2>10. Cardinality(Before(u)) <= (rank[u] - 1) - 1 + 1
    BY <2>3, <2>6, <2>7, <2>9, FitsIn
  <2>11. Cardinality(After(u)) <= n - (rank[u] + 1) + 1
    BY <2>2, <2>4, <2>6, <2>8, <2>9, FitsIn
  <2>12. /\ Cardinality(Before(u)) \in Nat /\ Cardinality(After(u)) \in Nat
         /\ Cardinality(Before(u)) + 1 + Cardinality(After(u)) = n
    BY <1>3
  <2> QED BY <2>2, <2>10, <2>11, <2>12
<1>6. \A rank \in [R -> 1 .. n] : Respects(W, R, rank) => \A u \in R : rank[u] = Placed(W, R, u)
  <2> HIDE DEF n
  <2> QED BY <1>5 DEF Placed
<1> QED BY <1>4, <1>6

USE ReportsAssumption

LEMMA AverageType ==
  ASSUME NEW logs \in SUBSET Log, IsFiniteSet(logs), logs # {}
  PROVE  Average(logs) \in Int
<1> DEFINE F == [l \in logs |-> Score[l.id]]
           total == SumFunctionOnSet(F, logs)
<1>1. \A l \in logs : F[l] \in Int
  BY DEF Log
<1>2. SumFunction(F) = total
  BY DEF SumFunction
<1> HIDE DEF F
<1>3. total \in Int
  BY <1>1, SumType
<1>4. Cardinality(logs) \in Nat \ {0}
  BY FS_CardinalityType, FS_EmptySet
<1>5. Average(logs) = Quotient(100 * total, Cardinality(logs))
  BY <1>2 DEF Average, F
<1> HIDE DEF total
<1> QED BY <1>3, <1>4, <1>5, Rounding

IdsOf(rows) == {r.id : r \in rows}

(* v_rankings reads a user's study as it is at this moment. *)
LEMMA StudyOfMoment ==
  ASSUME IInv, Counting, call.kind = "ranking", NEW p, p = Moment(call), NEW u,
         NEW ids, ids = Done(p, u, mem.first, p.day)
  PROVE  /\ ids \in SUBSET SessionIds /\ Studied(u) = RowsOf(p, ids)
         /\ \A s \in ids : p.sessions[s].started \in Int /\ p.sessions[s].ended \in Int
         /\ MetricsOf(IdsOf(Studied(u))) = AllLogs(p, ids)
         /\ Cardinality(Studied(u)) = Cardinality(ids) /\ (Studied(u) # {} <=> ids # {})
<1>1. p.sessions = sessions /\ p.logs = Logs /\ p.day = Day(clock)
  BY DEF Moment
<1>2. mem.first \in Int /\ clock \in Int /\ Day(clock) \in Int
  BY DayIsInt DEF IInv, TypeOK, Memory
<1>3. ASSUME NEW s \in SessionIds
      PROVE  /\ sessions[s].started \in Int /\ Day(sessions[s].started) \in Int
             /\ sessions[s].status = "COMPLETED" =>
                  /\ sessions[s].ended \in Int
                  /\ Day(sessions[s].started) <= Day(clock)
  <2>1. sessions[s].started \in Int
    BY DEF IInv, TypeOK, Session
  <2>2. sessions[s].status = "COMPLETED" => sessions[s].ended \in Int /\ sessions[s].started <= clock
    BY DEF IInv, StudyKept, ReportsKept, Timely
  <2> QED BY <1>2, <2>1, <2>2, DayIsInt, DaysInOrder
<1>4. ids = {s \in SessionIds : /\ OwnerOf[s] = u /\ Countable(s)
                               /\ Day(sessions[s].started) >= mem.first}
  <2>1. ASSUME NEW s \in SessionIds
        PROVE  s \in Done(p, u, mem.first, p.day) <=>
                 OwnerOf[s] = u /\ Countable(s) /\ Day(sessions[s].started) >= mem.first
    <3>1. sessions[s].ended \in Int => sessions[s].ended # NULL
      OBVIOUS
    <3> QED BY <1>1, <1>2, <1>3, <3>1 DEF Done, Countable
  <2> QED BY <2>1 DEF Done
<1>5. ids \in SUBSET SessionIds /\ \A s \in ids : sessions[s].status = "COMPLETED"
  BY <1>4 DEF Countable
<1>6. \A s : Row(s) = RowAt(p, s) /\ Row(s).id = s
  BY <1>1 DEF Row, RowAt
<1>7. Studied(u) = RowsOf(p, ids)
  BY <1>4, <1>6 DEF Studied, RowsOf
<1>8. IdsOf(Studied(u)) = ids
  BY <1>6, <1>7 DEF RowsOf, IdsOf
<1>9. MetricsOf(IdsOf(Studied(u))) = AllLogs(p, ids)
  BY <1>1, <1>8 DEF MetricsOf, AllLogs
<1>10. Cardinality(Studied(u)) = Cardinality(ids)
  BY <1>5, <1>7, RowsCounted
<1>11. Studied(u) # {} <=> ids # {}
  BY <1>7 DEF RowsOf
<1>12. \A s \in ids : p.sessions[s].started \in Int /\ p.sessions[s].ended \in Int
  BY <1>1, <1>3, <1>5
<1> QED BY <1>5, <1>7, <1>9, <1>10, <1>11, <1>12

LEMMA ValueOfMoment ==
  ASSUME IInv, Counting, call.kind = "ranking", NEW p, p = Moment(call), NEW u,
         NEW ids, ids = Done(p, u, mem.first, p.day)
  PROVE  /\ Value(u) = Worth(p, call, ids)
         /\ Value(u) # NULL => Value(u) \in Int
         /\ call.metric = "study_time" => Value(u) - Seconds(p, ids) \in 0 .. Cardinality(ids)
<1>1. /\ ids \in SUBSET SessionIds /\ Studied(u) = RowsOf(p, ids)
      /\ \A s \in ids : p.sessions[s].started \in Int /\ p.sessions[s].ended \in Int
      /\ MetricsOf(IdsOf(Studied(u))) = AllLogs(p, ids)
  BY StudyOfMoment
<1> DEFINE F == [s \in ids |-> study_seconds(p.sessions[s])]
           G == [s \in ids |-> calculateDurationSeconds(p.sessions[s])]
<1>2. IsFiniteSet(ids)
  BY <1>1, RowsCounted
<1>3. /\ SumFunction([r \in Studied(u) |-> study_seconds(r)]) = StudyTime(p, ids)
      /\ \A s \in ids : F[s] \in Int /\ G[s] \in Int /\ F[s] - G[s] \in 0 .. 1
  <2>1. ids \in SUBSET SessionIds
    BY <1>1
  <2>2. \A s \in ids : p.sessions[s].started \in Int /\ p.sessions[s].ended \in Int
    BY <1>1
  <2> HIDE DEF F, G
  <2>3. SumFunction([r \in RowsOf(p, ids) |-> study_seconds(r)]) = StudyTime(p, ids)
    BY <2>1, <2>2, RowsSummed
  <2>4. ASSUME NEW s \in ids
        PROVE  /\ calculateDurationSeconds(p.sessions[s]) \in Int
               /\ study_seconds(p.sessions[s]) \in Int
               /\ study_seconds(p.sessions[s]) - calculateDurationSeconds(p.sessions[s]) \in 0 .. 1
    BY <2>2, SecondsRounded
  <2> QED BY <1>1, <2>3, <2>4 DEF F, G
<1>4. StudyTime(p, ids) = SumFunctionOnSet(F, ids) /\ Seconds(p, ids) = SumFunctionOnSet(G, ids)
  BY DEF SumFunction, StudyTime, Seconds
<1>5. CASE call.metric = "focus_score"
  <2>1. Value(u) = Average(AllLogs(p, ids)) /\ Worth(p, call, ids) = Average(AllLogs(p, ids))
    BY <1>1, <1>5 DEF Value, Worth, IdsOf
  <2>2. AllLogs(p, ids) \in SUBSET Log /\ IsFiniteSet(AllLogs(p, ids))
    <3>1. AllLogs(p, ids) \subseteq Logs
      BY DEF AllLogs, Moment
    <3> QED BY <3>1, LogsTyped, FS_Subset DEF Counting, IInv
  <2>3. AllLogs(p, ids) = {} => Average(AllLogs(p, ids)) = NULL
    BY DEF Average
  <2>4. AllLogs(p, ids) # {} => Average(AllLogs(p, ids)) \in Int
    BY <2>2, AverageType
  <2> QED BY <1>5, <2>1, <2>3, <2>4
<1>6. CASE call.metric # "focus_score"
  <2>1. Value(u) = StudyTime(p, ids) /\ Worth(p, call, ids) = StudyTime(p, ids)
    BY <1>3, <1>6 DEF Value, Worth
  <2> HIDE DEF F, G
  <2>2. SumFunctionOnSet(F, ids) \in Int
    BY <1>2, <1>3, SumType
  <2>3. SumFunctionOnSet(F, ids) - SumFunctionOnSet(G, ids) \in 0 .. Cardinality(ids)
    BY <1>2, <1>3, SumBound
  <2> QED BY <1>4, <2>1, <2>2, <2>3
<1> QED BY <1>5, <1>6

LEMMA RankedTyped ==
  ASSUME IInv, Counting, call.kind = "ranking"
  PROVE  /\ Ranked \in SUBSET Int /\ IsFiniteSet(Ranked)
         /\ \A u \in Ranked : Value(u) \in Int
<1>1. \A u \in Ranked : Studied(u) # {} /\ Value(u) # NULL /\ u \in mem.scope
  BY DEF Ranked, Contenders
<1>2. Ranked \subseteq Users
  BY <1>1 DEF IInv, TypeOK, Memory
<1>3. \A u \in Ranked : Value(u) \in Int
  <2> SUFFICES ASSUME NEW u \in Ranked PROVE Value(u) \in Int
    OBVIOUS
  <2>1. PICK p : p = Moment(call)
    OBVIOUS
  <2>2. PICK ids : ids = Done(p, u, mem.first, p.day)
    OBVIOUS
  <2> QED BY <1>1, <2>1, <2>2, ValueOfMoment
<1>4. IsFiniteSet(Ranked)
  <2> DEFINE f == [s \in SessionIds |-> OwnerOf[s]]
             owners == {OwnerOf[s] : s \in SessionIds}
  <2>1. f \in Surjection(SessionIds, owners)
    BY DEF Surjection
  <2>2. IsFiniteSet(owners)
    BY <2>1, FS_Surjection
  <2>3. Ranked \subseteq owners
    BY <1>1 DEF Studied
  <2> QED BY <2>2, <2>3, FS_Subset
<1> QED BY <1>2, <1>3, <1>4

LEMMA RankIsPlace ==
  ASSUME IInv, Counting, call.kind = "ranking", NEW W, W = [u \in Ranked |-> Value(u)]
  PROVE  \A u \in Ranked : RankOf[u] = Placed(W, Ranked, u)
<1> DEFINE ranks == [Ranked -> 1 .. Cardinality(Ranked)]
           Follows(rank) == \A u, v \in Ranked : Precedes(u, v) => rank[u] < rank[v]
<1>1. Ranked \in SUBSET Int /\ IsFiniteSet(Ranked) /\ \A u \in Ranked : W[u] \in Int
  BY RankedTyped
<1>2. \A rank : Follows(rank) <=> Respects(W, Ranked, rank)
  BY DEF Precedes, Ahead, Respects
<1>3. PICK R : R = Ranked
  OBVIOUS
<1>4. /\ \E rank \in [R -> 1 .. Cardinality(R)] : Respects(W, R, rank)
      /\ \A rank \in [R -> 1 .. Cardinality(R)] :
           Respects(W, R, rank) => \A u \in R : rank[u] = Placed(W, R, u)
  <2>1. R \in SUBSET Int /\ IsFiniteSet(R) /\ \A u \in R : W[u] \in Int
    BY <1>1, <1>3
  <2> QED BY <2>1, Placing
<1>5. RankOf \in ranks /\ Follows(RankOf)
  <2>1. \E rank \in ranks : Follows(rank)
    BY <1>2, <1>3, <1>4
  <2>2. RankOf = CHOOSE rank \in ranks : Follows(rank)
    BY DEF RankOf
  <2> HIDE DEF Follows, ranks
  <2> QED BY <2>1, <2>2
<1> QED BY <1>2, <1>3, <1>4, <1>5

LEMMA RankAnswered ==
  ASSUME IInv, Counting, Watched, RankingHeld, RankUsers, past' = past
  PROVE  RankingOfOneMoment'
<1>1. pc = {"rank"} /\ call.kind = "ranking"
  BY DEF RankUsers, IInv, InHandler
<1>2. PICK p \in past : p = Moment(call)
  BY <1>1 DEF Watched
<1>3. PICK q \in past : mem.scope = q.scope
  BY <1>1 DEF RankingHeld
<1>4. PICK W : W = [u \in Ranked |-> Value(u)]
  OBVIOUS
<1> DEFINE found(u) == Done(p, u, mem.first, p.day)
           worth(u) == Worth(p, call, found(u))
           place(u) == 1 + Cardinality({v \in Ranked :
                                          \/ worth(v) > worth(u)
                                          \/ worth(v) = worth(u) /\ v < u})
           line(u) == [rank |-> place(u), user |-> u, value |-> worth(u),
                       sessions |-> Cardinality(found(u))]
<1>5. ASSUME NEW u
      PROVE  /\ Value(u) = worth(u) /\ Cardinality(Studied(u)) = Cardinality(found(u))
             /\ Studied(u) # {} <=> found(u) # {}
             /\ call.metric = "study_time" =>
                  Value(u) - Seconds(p, found(u)) \in 0 .. Cardinality(found(u))
  <2>1. PICK ids : ids = found(u)
    OBVIOUS
  <2>2. Cardinality(Studied(u)) = Cardinality(ids) /\ (Studied(u) # {} <=> ids # {})
    BY <1>1, <1>2, <2>1, StudyOfMoment
  <2>3. /\ Value(u) = Worth(p, call, ids)
        /\ call.metric = "study_time" => Value(u) - Seconds(p, ids) \in 0 .. Cardinality(ids)
    BY <1>1, <1>2, <2>1, ValueOfMoment
  <2> QED BY <2>1, <2>2, <2>3
<1> HIDE DEF found
<1>6. Ranked = {u \in q.scope \cap p.taking : found(u) # {} /\ worth(u) # NULL}
  <2>1. p.taking = Participants
    BY <1>2 DEF Moment, Participants
  <2> HIDE DEF worth
  <2> QED BY <1>3, <1>5, <2>1 DEF Ranked, Contenders
<1>7. \A u \in Ranked : RankOf[u] = place(u)
  <2> SUFFICES ASSUME NEW u \in Ranked PROVE RankOf[u] = place(u)
    OBVIOUS
  <2>1. RankOf[u] = 1 + Cardinality({v \in Ranked : Ahead(W, v, u)})
    BY <1>1, <1>4, RankIsPlace DEF Placed
  <2> HIDE DEF worth
  <2>2. {v \in Ranked : Ahead(W, v, u)}
          = {v \in Ranked : worth(v) > worth(u) \/ (worth(v) = worth(u) /\ v < u)}
    BY <1>4, <1>5 DEF Ahead
  <2> QED BY <2>1, <2>2
<1> HIDE DEF worth, place
<1>8. Rows = {line(u) : u \in {u \in Ranked : place(u) <= Top \/ u = call.user}}
  BY <1>5, <1>7 DEF Rows
<1>9. /\ {r \in Rows : r.rank <= Top} = {line(u) : u \in {u \in Ranked : place(u) <= Top}}
      /\ {r \in Rows : r.user = call.user} = {line(u) : u \in Ranked \cap {call.user}}
  BY <1>8
<1>10. PICK a : a = [code |-> 200, since |-> mem.first,
                     rankings |-> {r \in Rows : r.rank <= Top},
                     mine |-> {r \in Rows : r.user = call.user}]
  OBVIOUS
<1>11. a.since = mem.first /\ a.rankings = {line(u) : u \in {u \in Ranked : place(u) <= Top}}
       /\ a.mine = {line(u) : u \in Ranked \cap {call.user}}
  BY <1>9, <1>10
<1>12. call.metric = "study_time" =>
         \A u \in Ranked : worth(u) - Seconds(p, found(u)) \in 0 .. Cardinality(found(u))
  BY <1>5
<1>13. Ranks(p, q.scope, call, a)
  BY <1>6, <1>11, <1>12 DEF Ranks, found, worth, place
<1>14. answer' = a /\ call' = call
  BY <1>10 DEF RankUsers, Answer
<1>15. /\ \E r \in past : SinceADay(mem.first, r)
       /\ call.scope = "group" => \E r \in past : call.user \in r.scope
  BY <1>1 DEF RankingHeld
<1>16. \E r \in past : SinceADay(a.since, r)'
  BY <1>11, <1>14, <1>15 DEF SinceADay
<1> QED BY <1>13, <1>14, <1>15, <1>16 DEF RankingOfOneMoment, SinceADay

-------------------------------------------------------------------------------
(* The inductive invariant of whole reports and rankings.                  *)

LEMMA RankingReceived ==
  ASSUME IInv, NEW u \in Users, NEW scope \in Scopes, NEW period \in {"daily", "weekly"},
         NEW metric \in {"focus_score", "study_time"}, ReceiveRanking(u, scope, period, metric),
         Moment(call)' \in past'
  PROVE  RankingHeld'
<1>0. PICK M : M = Moment(call)'
  OBVIOUS
<1>1. /\ call' = [kind |-> "ranking", user |-> u, scope |-> scope, period |-> period,
                  metric |-> metric]
      /\ pc' = {CASE scope = "global" -> "rank" [] scope = "friends" -> "friends"
                  [] scope \in {"group", "no such group"} -> "group"}
      /\ clock' = clock
  BY DEF ReceiveRanking, Receive
<1>2. /\ mem'.first = PeriodStart(period)
      /\ mem'.scope = IF scope = "global" THEN Users ELSE {}
  BY DEF ReceiveRanking, Nothing
<1>3. InScope'
  BY <1>1 DEF InScope, Scopes
<1>4. M.day = Day(clock) /\ M \in past' /\ (scope = "global" => M.scope = Users)
  BY <1>0, <1>1 DEF Moment, ScopeOf, Day
<1>5. SinceADay(mem.first, M)'
  <2>1. call'.period = period
    BY <1>1
  <2>2. Day(clock) \in Int /\ DaysIn["weekly"] \in Int
    BY DayIsInt DEF IInv, TypeOK
  <2> QED BY <1>2, <1>4, <2>1, <2>2 DEF SinceADay, PeriodStart
<1>6. pc' = {"rank"} => scope = "global"
  BY <1>1 DEF Scopes
<1> QED BY <1>1, <1>2, <1>3, <1>4, <1>5, <1>6 DEF RankingHeld, SinceADay

LEMMA RankingWritten ==
  ASSUME RankingHeld, mem' = mem, call' = call, pc' = pc, past \subseteq past'
  PROVE  RankingHeld'
BY DEF RankingHeld, InScope, SinceADay

LEMMA RankingQueried ==
  ASSUME IInv, RankingHeld, FindFriends \/ FindGroup \/ CheckMembership \/ FindMembers,
         past \subseteq past', pc' # {} => Moment(call)' \in past'
  PROVE  RankingHeld'
<1>0. /\ call.kind = "ranking" /\ call.period \in {"daily", "weekly"} /\ mem \in Memory
      /\ clock \in Int
  <2>1. call.kind = "ranking"
    BY DEF IInv, InHandler, FindFriends, FindGroup, CheckMembership, FindMembers
  <2> QED BY <2>1, CallTyped DEF IInv, TypeOK
<1>1. ASSUME NEW code, Refuse(code) PROVE RankingHeld'
  BY <1>1 DEF Refuse, Answer, RankingHeld, InScope
<1>2. ASSUME NEW set, Scoped(set), ScopeOf(call) = set,
             call.scope = "group" => \E r \in past : call.user \in r.scope
      PROVE  RankingHeld'
  <2>0. PICK M : M = Moment(call)'
    OBVIOUS
  <2>1. /\ pc' = {"rank"} /\ call' = call /\ UNCHANGED <<people, clock>>
        /\ mem'.scope = set /\ mem'.first = PeriodStart(call.period)
    BY <1>0, <1>2 DEF Scoped, Goto, Memory
  <2>2. M \in past' /\ M.scope = set /\ M.day = Day(clock)
    BY <1>2, <2>0, <2>1 DEF Moment, ScopeOf, people, Day
  <2>3. SinceADay(mem.first, M)'
    <3>1. Day(clock) \in Int /\ DaysIn["weekly"] \in Int
      BY <1>0, DayIsInt
    <3> QED BY <1>0, <2>1, <2>2, <3>1 DEF SinceADay, PeriodStart
  <2>4. InScope'
    BY <2>1 DEF InScope
  <2> QED BY <1>2, <2>1, <2>2, <2>3, <2>4 DEF RankingHeld, SinceADay
<1>3. CASE FindFriends
  <2>1. call.scope = "friends"
    BY <1>3 DEF FindFriends, RankingHeld, InScope
  <2>2. ScopeOf(call) = {call.user} \cup {v \in Users : {call.user, v} \in friends}
    BY <1>0, <2>1 DEF ScopeOf
  <2> QED BY <1>2, <1>3, <2>1, <2>2 DEF FindFriends
<1>4. CASE FindGroup
  <2>1. CASE call.scope = "group"
    <3>1. pc' = {"membership"} /\ call' = call
      BY <1>4, <2>1 DEF FindGroup, Goto
    <3> QED BY <2>1, <3>1 DEF RankingHeld, InScope
  <2> QED BY <1>1, <1>4, <2>1 DEF FindGroup
<1>5. CASE CheckMembership
  <2>1. CASE call.user \in members
    <3>1. pc' = {"members"} /\ call' = call /\ UNCHANGED people /\ call.scope = "group"
      BY <1>5, <2>1 DEF CheckMembership, Goto, RankingHeld, InScope
    <3>2. PICK M : M = Moment(call)'
      OBVIOUS
    <3>3. M \in past' /\ M.scope = members
      BY <1>0, <3>1, <3>2 DEF Moment, ScopeOf, people
    <3>4. \E r \in past' : call'.user \in r.scope
      BY <2>1, <3>1, <3>3
    <3> QED BY <3>1, <3>4 DEF RankingHeld, InScope
  <2> QED BY <1>1, <1>5, <2>1 DEF CheckMembership
<1>6. CASE FindMembers
  <2>1. call.scope = "group" /\ \E r \in past : call.user \in r.scope
    BY <1>6 DEF FindMembers, RankingHeld, InScope
  <2>2. ScopeOf(call) = members
    BY <1>0, <2>1 DEF ScopeOf
  <2> QED BY <1>1, <1>2, <1>6, <2>1, <2>2 DEF FindMembers
<1> QED BY <1>3, <1>4, <1>5, <1>6

(* What the two invariants of the reader say of calls of other kinds.      *)
LEMMA OtherKinds ==
  ASSUME InHandler'
  PROVE  /\ call'.kind \notin {"weekly", "monthly"} => PeriodHeld' /\ PeriodOfOneMoment'
         /\ call'.kind # "ranking" => RankingHeld' /\ RankingOfOneMoment'
<1>1. call'.kind \notin {"weekly", "monthly"} => PeriodHeld' /\ PeriodOfOneMoment'
  <2>1. call'.kind \notin {"weekly", "monthly"} => pc' # {"period"} /\ pc' # {"totals"}
    BY DEF InHandler
  <2> QED BY <2>1 DEF PeriodHeld, PeriodOfOneMoment, Answered
<1>2. call'.kind # "ranking" => RankingHeld' /\ RankingOfOneMoment'
  <2>1. call'.kind # "ranking" =>
          pc' \cap {"friends", "group", "membership", "members", "rank"} = {}
    BY DEF InHandler
  <2>2. call'.kind # "ranking" => RankingHeld'
    BY <2>1 DEF RankingHeld, InScope
  <2> QED BY <2>2 DEF RankingOfOneMoment, Answered
<1> QED BY <1>1, <1>2

Told == PeriodHeld /\ RankingHeld /\ PeriodOfOneMoment /\ RankingOfOneMoment

LEMMA CallsTold ==
  ASSUME IInv, Calls, Moment(call)' \in past', arrived' = clock, InHandler'
  PROVE  Told'
<1>1. pc' # {}
  BY CallsKeep DEF IInv
<1>2. PeriodOfOneMoment' /\ RankingOfOneMoment'
  BY <1>1 DEF PeriodOfOneMoment, RankingOfOneMoment, Answered
<1>3. ASSUME NEW u \in Users, NEW kind \in {"weekly", "monthly"}, NEW date \in Dates \cup {NULL},
             ReceivePeriod(kind, u, date)
      PROVE  PeriodHeld' /\ RankingHeld'
  <2>1. call'.kind = kind
    BY <1>3 DEF ReceivePeriod, Receive
  <2> QED BY <1>3, <2>1, PeriodReceived, OtherKinds
<1>4. ASSUME NEW u \in Users, NEW scope \in Scopes, NEW period \in {"daily", "weekly"},
             NEW metric \in {"focus_score", "study_time"}, ReceiveRanking(u, scope, period, metric)
      PROVE  PeriodHeld' /\ RankingHeld'
  <2>1. call'.kind = "ranking"
    BY <1>4 DEF ReceiveRanking, Receive
  <2> QED BY <1>4, <2>1, RankingReceived, OtherKinds
<1>5. ASSUME NEW u \in Users,
             \/ \E kind \in {"report", "session"}, s \in SessionIds : ReceiveOne(kind, u, s)
             \/ ReceiveSessions(u)
      PROVE  PeriodHeld' /\ RankingHeld'
  <2>1. call'.kind \in {"report", "session", "sessions"}
    BY <1>5 DEF ReceiveOne, ReceiveSessions, Receive
  <2> QED BY <2>1, OtherKinds
<1>6. PeriodHeld' /\ RankingHeld'
  BY <1>3, <1>4, <1>5 DEF Calls
<1> QED BY <1>2, <1>6 DEF Told

LEMMA QueriesTold ==
  ASSUME IInv, Counting, FinishedKept, Watched, Told, Queries, InHandler', past \subseteq past',
         pc' = {} => past' = past, pc' # {} => Moment(call)' \in past', arrived' = arrived
  PROVE  Told'
<1>1. CASE FindSessionsOfPeriod \/ ReadTotals
  <2>1. call.kind \in {"weekly", "monthly"} /\ call' = call
    BY <1>1, PeriodQueries DEF IInv, Steady
  <2> QED BY <1>1, <2>1, PeriodQueried, OtherKinds DEF Told
<1>2. CASE FindSession \/ FindReport \/ (\E query \in {"metrics", "timeline"} : ReadLogs(query))
           \/ ReadPage \/ CountSessions \/ ReadMetricMap
  <2>1. call.kind \in {"session", "report", "sessions"}
    BY <1>2 DEF IInv, InHandler, FindSession, FindReport, ReadLogs, ReadPage, CountSessions,
                ReadMetricMap
  <2>2. call' = call
    BY <1>2 DEF FindSession, FindReport, ReadLogs, ReadPage, CountSessions, ReadMetricMap,
                Refuse, Answer, Goto
  <2> QED BY <2>1, <2>2, OtherKinds DEF Told
<1>3. CASE FindFriends \/ FindGroup \/ CheckMembership \/ FindMembers
  <2>1. call.kind = "ranking" /\ call' = call
    BY <1>3, RankingQueries DEF IInv, Steady
  <2>2. pc' = {} => answer'.code # 200
    BY <1>3 DEF FindFriends, FindGroup, CheckMembership, FindMembers, Scoped, Goto, Refuse, Answer
  <2>3. RankingOfOneMoment'
    BY <2>2 DEF RankingOfOneMoment, Answered
  <2>4. RankingHeld'
    BY <1>3, RankingQueried DEF Told
  <2> QED BY <2>1, <2>3, <2>4, OtherKinds DEF Told
<1>4. CASE RankUsers
  <2>1. call.kind = "ranking" /\ call' = call /\ pc' = {}
    <3>1. call.kind = "ranking"
      BY <1>4, RankingQueries DEF IInv
    <3> QED BY <1>4, <3>1 DEF RankUsers, Answer
  <2>2. RankingHeld'
    BY <2>1 DEF RankingHeld, InScope
  <2>3. RankingOfOneMoment'
    BY <1>4, <2>1, RankAnswered DEF Told
  <2> QED BY <2>1, <2>2, <2>3, OtherKinds DEF Told
<1>5. CASE Fail
  <2>1. pc' = {} /\ answer'.code = 500
    BY <1>5 DEF Fail, Refuse, Answer
  <2>2. PeriodHeld' /\ RankingHeld'
    BY <2>1 DEF PeriodHeld, RankingHeld, InScope
  <2>3. PeriodOfOneMoment' /\ RankingOfOneMoment'
    BY <2>1 DEF PeriodOfOneMoment, RankingOfOneMoment, Answered
  <2> QED BY <2>2, <2>3 DEF Told
<1> QED BY <1>1, <1>2, <1>3, <1>4, <1>5 DEF Queries

LEMMA SameTold ==
  ASSUME Told, mem' = mem, call' = call, pc' = pc, answer' = answer, arrived' = arrived,
         past \subseteq past', pc' = {} => past' = past
  PROVE  Told'
<1>1. RankingHeld'
  BY RankingWritten DEF Told
<1>2. PeriodOfOneMoment'
  <2>1. \A p : Says(p, call, answer)' <=> Says(p, call, answer)
    BY DEF Says, DoneBy, Done, Seconds, AllLogs, Day
  <2> QED BY <2>1 DEF Told, PeriodOfOneMoment, Answered
<1>3. RankingOfOneMoment'
  BY DEF Told, RankingOfOneMoment, Answered, SinceADay
<1>4. PeriodHeld'
  BY PeriodWritten DEF Told
<1> QED BY <1>1, <1>2, <1>3, <1>4 DEF Told

LEMMA InitHInv == HistoryInit => HInv
<1> SUFFICES ASSUME HistoryInit PROVE HInv
  OBVIOUS
<1>1. IInv
  BY InitIInv
<1>2. pc = {} /\ past = {} /\ answer.code = 0
  BY DEF HistoryInit, Init
<1>3. Came
  BY DEF HistoryInit, Init, Came
<1>4. Counting
  <2>1. Logs = {}
    BY DEF HistoryInit, Init, Logs
  <2> QED BY <2>1, FS_EmptySet DEF Counting
<1>5. FinishedKept /\ Watched /\ PeriodHeld /\ RankingHeld
  BY <1>2 DEF FinishedKept, Watched, PeriodHeld, RankingHeld, InScope
<1>6. PeriodOfOneMoment /\ RankingOfOneMoment
  BY <1>2 DEF PeriodOfOneMoment, RankingOfOneMoment, Answered
<1> QED BY <1>1, <1>3, <1>4, <1>5, <1>6 DEF HInv

LEMMA NextKeepsHInv == HInv /\ [HistoryNext]_<<vars, past, arrived>> => HInv'
<1> SUFFICES ASSUME HInv, [HistoryNext]_<<vars, past, arrived>> PROVE HInv'
  OBVIOUS
<1>0. /\ IInv /\ Counting /\ Came /\ FinishedKept /\ Watched /\ Told
      /\ TypeOK /\ MomentsKept
  BY DEF HInv, IInv, Told
<1>1. IInv' /\ InHandler'
  BY NextKeeps DEF HInv, IInv
<1>2. ASSUME Counting', Came', FinishedKept', Watched', Told' PROVE HInv'
  BY <1>1, <1>2 DEF HInv, Told
<1>3. CASE UNCHANGED <<vars, past, arrived>>
  <2>1. /\ mem' = mem /\ call' = call /\ pc' = pc /\ answer' = answer /\ past' = past
        /\ arrived' = arrived
    BY <1>3 DEF vars
  <2>2. Told'
    BY <1>0, <2>1, SameTold
  <2>3. Counting' /\ Came' /\ FinishedKept'
    BY <1>0, <1>3 DEF vars, Counting, Came, Logs, FinishedKept
  <2>4. Watched'
    <3>1. Moment(call)' = Moment(call)
      BY <1>3 DEF vars, Moment, ScopeOf, Logs, Day
    <3> QED BY <1>0, <2>1, <3>1 DEF Watched
  <2> QED BY <1>2, <2>2, <2>3, <2>4
<1>4. CASE HistoryNext
  <2>1. /\ past' \subseteq past \cup {Moment(call)'}
        /\ pc' = {} => past' = past
        /\ pc' # {} => Moment(call)' \in past'
        /\ pc # {} => past \subseteq past'
        /\ pc = {} /\ pc' = pc => past' = past
        /\ arrived' = IF pc = {} /\ pc' # {} THEN clock ELSE arrived
    BY <1>4 DEF HistoryNext
  <2>2. Watched'
    BY <2>1 DEF Watched
  <2>3. Came'
    <3>1. clock \in 0 .. MaxClock /\ clock' \in Int /\ clock <= clock'
      BY <1>0, <1>4, ClockRuns DEF HistoryNext, TypeOK
    <3> QED BY <1>0, <2>1, <3>1 DEF Came
  <2>4. ASSUME UNCHANGED <<study, clock>> PROVE Counting' /\ FinishedKept'
    <3>1. clock' \in Int /\ clock <= clock'
      BY <1>0, <2>4 DEF TypeOK
    <3>2. Kept
      BY <1>0, <2>4, <3>1, SameStudy DEF IInv
    <3>3. Counting'
      BY <1>0, <2>4 DEF study, Counting, Logs
    <3> QED BY <1>0, <2>1, <3>2, <3>3, FinishedHeld
  <2>5. CASE Calls
    <3>1. pc' # {} /\ UNCHANGED <<study, clock>>
      BY <1>0, <2>5, CallsKeep
    <3>2. pc = {}
      BY <2>5 DEF Calls, ReceivePeriod, ReceiveOne, ReceiveSessions, ReceiveRanking, Receive
    <3>3. Told'
      BY <1>0, <1>1, <2>1, <2>5, <3>1, <3>2, CallsTold
    <3> QED BY <1>2, <2>2, <2>3, <2>4, <3>1, <3>3
  <2>6. CASE Queries
    <3>1. pc # {} /\ UNCHANGED <<study, clock>>
      BY <1>0, <2>1, <2>6, QueriesKeep DEF Steady
    <3>2. Told'
      BY <1>0, <1>1, <2>1, <2>6, <3>1, QueriesTold
    <3> QED BY <1>2, <2>2, <2>3, <2>4, <3>1, <3>2
  <2>7. CASE Writers
    <3>1. Kept /\ mem' = mem /\ call' = call /\ pc' = pc /\ answer' = answer
      BY <1>0, <2>7, WritersKeep DEF reader, IInv
    <3>2. Counting' /\ FinishedKept'
      BY <1>0, <2>1, <2>7, <3>1, LogsCounted, FinishedHeld
    <3>3. Told'
      BY <1>0, <2>1, <3>1, SameTold
    <3> QED BY <1>2, <2>2, <2>3, <3>2, <3>3
  <2> QED BY <1>4, <2>5, <2>6, <2>7 DEF HistoryNext, Next
<1> QED BY <1>3, <1>4

(* The moments of a call have to do with what its reader has read so far   *)
(* as HInv says: whoever writes, what the first query of a period has      *)
(* found are the sessions of a moment, and a ranking has the scope and the *)
(* first day of one.                                                       *)
THEOREM MomentInvariant == HistorySpec => []HInv
<1>1. HistoryInit => HInv
  BY InitHInv
<1>2. HInv /\ [HistoryNext]_<<vars, past, arrived>> => HInv'
  BY NextKeepsHInv
<1> QED BY <1>1, <1>2, PTL DEF HistorySpec

(* A weekly or monthly report is what the database says at one moment of   *)
(* the call of the sessions begun on its days by the instant the call      *)
(* arrived, the totals those of the whole period.                          *)
THEOREM PeriodReports == HistorySpec => []PeriodOfOneMoment
<1>1. HInv => PeriodOfOneMoment
  BY DEF HInv
<1> QED BY <1>1, MomentInvariant, PTL

(* A ranking places the participants of a scope by what they had studied   *)
(* at one moment of the call, from a first day that was the period's.      *)
THEOREM Rankings == HistorySpec => []RankingOfOneMoment
<1>1. HInv => RankingOfOneMoment
  BY DEF HInv
<1> QED BY <1>1, MomentInvariant, PTL
==============================================================================
