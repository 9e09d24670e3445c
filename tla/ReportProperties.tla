--------------------------- MODULE ReportProperties ---------------------------
(* Reports with the database as it was at every moment of a call, and what *)
(* an answer has to do with it.                                            *)
EXTENDS Reports

VARIABLES past,    \* the moments of the call the reader serves or has served
          arrived  \* the instant it came

ScopeOf(c) == CASE c.kind # "ranking" -> {}
                [] c.scope = "global" -> Users
                [] c.scope = "friends" -> {c.user} \cup {v \in Users : {c.user, v} \in friends}
                [] c.scope \in {"group", "no such group"} -> members
Moment(c) == [sessions |-> sessions, logs |-> Logs, taking |-> participating \cap active,
              scope |-> ScopeOf(c), day |-> Day(clock)]

HistoryInit == Init /\ past = {} /\ arrived = 0
HistoryNext ==
  /\ Next
  /\ past' = IF pc' = {} THEN past
             ELSE IF pc = {} THEN {Moment(call)'} ELSE past \cup {Moment(call)'}
  /\ arrived' = IF pc = {} /\ pc' # {} THEN clock ELSE arrived
HistorySpec == HistoryInit /\ [][HistoryNext]_<<vars, past, arrived>>

Labels == {"period", "totals", "session", "report", "metrics", "timeline", "page", "count",
           "metric map", "friends", "group", "membership", "members", "rank"}
RowOf == [id : SessionIds, status : {"IN_PROGRESS", "COMPLETED"}, started : Int,
          ended : Int \cup {NULL}]

Memory == [rows : SUBSET RowOf, logs : [{"metrics", "timeline"} -> SUBSET Log], total : Nat,
           first : Int, last : Int, scope : SUBSET Users]

(* Every variable holds what the code can put there.                       *)
TypeOK ==
  /\ sessions \in [SessionIds -> Session]
  /\ reports \in [SessionIds -> SUBSET Log]
  /\ tier \in [Tables -> SUBSET Log]
  /\ ending \in [SessionIds -> [begun : BOOLEAN, at : Nat, logs : SUBSET Log]]
  /\ participating \in SUBSET Users /\ active \in SUBSET Users /\ members \in SUBSET Users
  /\ friends \in SUBSET SUBSET Users
  /\ clock \in 0 .. MaxClock
  /\ call \in Call \cup {NoCall} /\ pc \in SUBSET Labels
  /\ mem \in Memory
  /\ answer.code \in {0, 200, 403, 404, 500}

(* Which handler the reader is in, and what it has read so far.            *)
InHandler ==
  /\ pc \cap {"period", "totals"} # {} => call.kind \in {"weekly", "monthly"}
  /\ pc \cap {"session"} # {} => call.kind \in {"session", "report"}
  /\ pc \cap {"report"} # {} => /\ call.kind = "report" /\ pc = {"report"}
                               /\ \A row, other \in mem.rows : row = other
  /\ pc \cap {"metrics", "timeline"} # {} =>
       \/ call.kind = "session" /\ pc \subseteq {"metrics", "timeline"}
       \/ call.kind = "report" /\ pc = {"timeline"}
  /\ pc \cap {"page", "count", "metric map"} # {} => call.kind = "sessions"
  /\ pc \cap {"friends", "group", "membership", "members", "rank"} # {} => call.kind = "ranking"
  /\ pc = {"totals"} => \A row \in mem.rows : row.status = "COMPLETED" /\ row.ended # NULL

(* No start is yet to come and logs are of sessions that have begun;       *)
(* statistics are old; what a report lacks, or will lack, of the logs was  *)
(* old at the end of its session.                                          *)
Timely == \A s \in SessionIds : sessions[s].status # "NONE" => sessions[s].started <= clock
LogsKept == \A l \in Logs : sessions[l.session].status # "NONE"
StatsOld == \A t \in Tables \ {"raw"} : \A l \in tier[t] : l.at <= clock - KEEP
Misses(logs, s, end) == /\ logs \subseteq MetricsOf({s})
                        /\ \A l \in MetricsOf({s}) \ logs : l.at <= end - KEEP
EndsKept == \A s \in SessionIds : ending[s].begun =>
              ending[s].at <= clock /\ Misses(ending[s].logs, s, ending[s].at)
ReportsKept ==
  \A s \in SessionIds : sessions[s].status = "COMPLETED" =>
    sessions[s].ended \in Int /\ Misses(reports[s], s, sessions[s].ended)
StudyKept == Timely /\ LogsKept /\ StatsOld /\ EndsKept /\ ReportsKept

(* What has been read of a finished session is still so.                   *)
Fresh(row) == /\ row.status = "COMPLETED" => /\ sessions[row.id].status = "COMPLETED"
                                             /\ sessions[row.id].started = row.started
                                             /\ sessions[row.id].ended = row.ended
ReadSoFar ==
  \A row \in mem.rows :
    /\ Fresh(row)
    /\ call.kind = "session" /\ pc # {} => \A q \in {"metrics", "timeline"} \ pc :
         LET read == {l \in mem.logs[q] : l.session = row.id}
         IN  /\ read \subseteq MetricsOf({row.id})
             /\ row.status = "COMPLETED" => read = MetricsOf({row.id})
    /\ call.kind = "report" /\ pc = {"timeline"} =>
         row.status = "COMPLETED" /\ mem.logs["metrics"] = reports[row.id]
MomentsKept ==
  \A p \in past, s \in SessionIds :
    p.sessions[s].status = "COMPLETED" =>
      /\ sessions[s].status = "COMPLETED"
      /\ {l \in p.logs : l.session = s} = MetricsOf({s})

Answered(kinds) == pc = {} /\ call.kind \in kinds /\ answer.code = 200

Shown(row, query) == {l \in answer.logs[query] : l.session = row.id}

(* A session that was finished when its row was read is shown with one set *)
(* of logs by its page, its report and the list of sessions, although they *)
(* are read one after the other while logs move from table to table.  The  *)
(* page of a session in progress may miss the logs that arrive between its *)
(* two queries, and nothing else.  endSession makes a report of raw logs   *)
(* alone: it lacks none but those that were old enough to be rolled up     *)
(* when the session ended.                                                 *)
FinishedAgree ==
  Answered({"session", "sessions", "report"}) => \A row \in answer.rows :
    LET metrics == Shown(row, "metrics")
        timeline == Shown(row, "timeline")
    IN  /\ call.kind = "session" => metrics \subseteq timeline \/ timeline \subseteq metrics
        /\ row.status = "COMPLETED" =>
             /\ call.kind = "session" => metrics = timeline
             /\ call.kind = "report" =>
                  /\ metrics \subseteq timeline
                  /\ \A l \in timeline \ metrics : l.at <= row.ended - KEEP
             /\ call.kind = "sessions" =>
                  \A p \in past : p.sessions[row.id].status = "COMPLETED" =>
                    metrics = {l \in p.logs : l.session = row.id}

(* The inductive invariant. *)
IInv == TypeOK /\ InHandler /\ StudyKept /\ ReadSoFar /\ MomentsKept /\ FinishedAgree

(* docs/api-spec.md 1.5: the finished sessions that a user began on one of *)
(* the days, and all their logs, as the database was at a moment.          *)
Done(p, u, first, last) ==
  {s \in SessionIds : /\ OwnerOf[s] = u /\ p.sessions[s].status = "COMPLETED"
                      /\ Day(p.sessions[s].started) \in first .. last}
AllLogs(p, ids) == {l \in p.logs : l.session \in ids}
Seconds(p, ids) == SumFunction([s \in ids |-> calculateDurationSeconds(p.sessions[s])])

(* What a period report says, of the database at p: its days are whole,   *)
(* but without an end_date the last one ends as the call arrives.          *)
DoneBy(p, c, first, last) ==
  {s \in Done(p, c.user, first, last) : c.date = NULL => p.sessions[s].started <= arrived}
Says(p, c, a) ==
  LET first == a.end - (DaysIn[c.kind] - 1)
      found == DoneBy(p, c, first, a.end)
  IN  /\ a.end = IF c.date = NULL THEN Day(arrived) ELSE c.date
      /\ a.start = first
      /\ a.days = [d \in first .. a.end |->
                     LET ids == DoneBy(p, c, d, d)
                     IN  [sessions |-> Cardinality(ids), seconds |-> Seconds(p, ids),
                          average |-> Average(AllLogs(p, ids))]]
      /\ a.seconds = Seconds(p, found)
      /\ a.average = Average(AllLogs(p, found))

(* A period report is what the database says at one moment of the call, of *)
(* the sessions begun on its days by the instant the call arrived:         *)
(* sessions that end, logs that move and a midnight that passes between    *)
(* its two queries do not mix two states, every session it has read falls  *)
(* on one of its days, and the totals are those of the whole period.       *)
PeriodOfOneMoment == Answered({"weekly", "monthly"}) => \E p \in past : Says(p, call, answer)

(* What a ranking of the users of a scope says, of the database at p: a    *)
(* line for each who took part and has something to rank by, who is behind *)
(* those of more and, among equals, behind those of a lower user_id.  The  *)
(* time of study differs from that of the reports by at most a second a    *)
(* session, the reports rounding down what the view rounds to the nearest. *)
StudyTime(p, ids) == SumFunction([s \in ids |-> study_seconds(p.sessions[s])])
Worth(p, c, ids) == IF c.metric = "focus_score" THEN Average(AllLogs(p, ids)) ELSE StudyTime(p, ids)
Ranks(p, scope, c, a) ==
  LET found(u) == Done(p, u, a.since, p.day)
      worth(u) == Worth(p, c, found(u))
      board == {u \in scope \cap p.taking : found(u) # {} /\ worth(u) # NULL}
      place(u) == 1 + Cardinality({v \in board : \/ worth(v) > worth(u)
                                                 \/ worth(v) = worth(u) /\ v < u})
      line(u) == [rank |-> place(u), user |-> u, value |-> worth(u),
                  sessions |-> Cardinality(found(u))]
  IN  /\ a.rankings = {line(u) : u \in {u \in board : place(u) <= Top}}
      /\ a.mine = {line(u) : u \in board \cap {c.user}}
      /\ c.metric = "study_time" => \A u \in board :
           worth(u) - Seconds(p, found(u)) \in 0 .. Cardinality(found(u))
SinceADay(first, r) == first = r.day - (IF call.period = "daily" THEN 0 ELSE DaysIn["weekly"] - 1)

(* A ranking places those who took part, in the scope as it was at one     *)
(* moment of the call and by their sessions at another, from the period's  *)
(* first day at some moment of it; the viewer's own line is the one he has *)
(* on that board, whether or not the top reaches it; and the group's board *)
(* is shown only to one who was a member during the call.                  *)
RankingOfOneMoment ==
  Answered({"ranking"}) =>
    /\ \E p, q \in past : Ranks(p, q.scope, call, answer)
    /\ \E r \in past : SinceADay(answer.since, r)
    /\ call.scope = "group" => \E r \in past : call.user \in r.scope

-------------------------------------------------------------------------------
(* The inductive invariant of these two: what the tables and the moments   *)
(* have to do with each other, and with what the reader has read.          *)

Counting == IsFiniteSet(Logs)
Came == arrived \in 0 .. clock

(* What was finished at a moment is as it was; the database as it is now   *)
(* is a moment of the call in hand.                                        *)
FinishedKept == \A p \in past, s \in SessionIds :
                  p.sessions[s].status = "COMPLETED" => p.sessions[s] = sessions[s]
Watched == pc # {} => Moment(call) \in past

(* The window of a period is whole days up to its last instant; what its   *)
(* first query has found are the sessions of a moment.                     *)
DoneIn(p) == DoneBy(p, call, Day(mem.first), Day(mem.last))
RowAt(p, s) == [id |-> s, status |-> p.sessions[s].status,
                started |-> p.sessions[s].started, ended |-> p.sessions[s].ended]
Window == /\ mem.first = WindowStart(mem.last, DaysIn[call.kind])
          /\ mem.last = IF call.date = NULL THEN arrived ELSE call.date * DAY + DAY - 1
PeriodHeld ==
  /\ pc \in {{"period"}, {"totals"}} => Window
  /\ pc = {"totals"} => \E p \in past : mem.rows = {RowAt(p, s) : s \in DoneIn(p)}

(* The scope and the first day of a ranking are those of a moment, and so  *)
(* is the membership of its viewer.                                        *)
InScope ==
  /\ pc = {"friends"} => call.scope = "friends"
  /\ pc = {"group"} => call.scope \in {"group", "no such group"}
  /\ pc \in {{"membership"}, {"members"}} => call.scope = "group"
  /\ pc = {"members"} => \E r \in past : call.user \in r.scope
RankingHeld ==
  /\ InScope
  /\ pc = {"rank"} =>
       /\ \E q \in past : mem.scope = q.scope
       /\ \E r \in past : SinceADay(mem.first, r)
       /\ call.scope = "group" => \E r \in past : call.user \in r.scope

HInv == /\ IInv /\ Counting /\ Came /\ FinishedKept /\ Watched /\ PeriodHeld /\ RankingHeld
        /\ PeriodOfOneMoment /\ RankingOfOneMoment
==============================================================================
