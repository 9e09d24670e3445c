------------------------------ MODULE MCReports -------------------------------
(* Small instances of Reports for TLC. *)
EXTENDS ReportProperties, TLC

CONSTANTS s1, s2, s3, l1, l2

(* User 1 has two sessions, user 2 another; the averages differ. *)
Owners == s1 :> 1 @@ s2 :> 1 @@ s3 :> 2
Scores == l1 :> 40 @@ l2 :> 75
TwoAndThree == [weekly |-> 2, monthly |-> 3]

Unused(ids) == \A s \in ids : sessions[s] = NoSession
NoPeople == participating = {} /\ active = Users /\ friends = {} /\ members = {}
Upper == tier["daily"] = {} /\ tier["weekly"] = {}

(* Bounds: two sessions of a user in periods of two and three days, in the *)
(* order of their inserts but with any instants; one session, begun at 0,  *)
(* and two logs in all four tables, with any delays of logs and ends; the  *)
(* rankings of two users with a session each, by time or, of a week, by a  *)
(* log each; those of friends and a group.                                 *)
InOrder == sessions[s2] # NoSession => sessions[s1] # NoSession
Periods == /\ call.kind \in {"none", "weekly", "monthly", "sessions"}
           /\ call.kind \in {"monthly", "sessions"} => call.user = 1
           /\ NoPeople /\ Unused({s3}) /\ InOrder /\ Upper /\ \A l \in Logs : l.id = l1
Single == /\ call.kind \in {"none", "report", "session"}
          /\ NoPeople /\ Unused({s2, s3}) /\ sessions[s1].started = 0 /\ clock <= 3
          /\ (\E l \in Logs : l.id = l2) => \E l \in Logs : l.id = l1
Ranking(scopes, metrics) ==
  /\ call.kind \in {"none", "ranking"}
  /\ call.kind = "ranking" => call.scope \in scopes /\ call.metric \in metrics
  /\ Unused({s2}) /\ tier["raw"] = Logs
ByTime == /\ Ranking({"global"}, {"study_time"})
          /\ friends = {} /\ members = {} /\ Logs = {} /\ clock <= 3
          /\ (active = Users \/ participating = Users)
          /\ Cardinality(past) <= 2
ByFocus == /\ Ranking({"global"}, {"focus_score"})
           /\ call.kind = "ranking" => call.period = "weekly" /\ participating # {}
           /\ friends = {} /\ members = {} /\ active = Users /\ Cardinality(past) <= 2
           /\ \A s \in SessionIds : /\ sessions[s].ended \in {NULL, sessions[s].started}
                                    /\ ending[s].begun => ending[s].at = sessions[s].started
           /\ \A l \in Logs : <<l.session, l.id>> \in {<<s1, l1>>, <<s3, l2>>}
Circle == /\ Ranking({"friends", "group", "no such group"}, {"study_time"})
          /\ Logs = {} /\ active = Users /\ clock <= 1
          /\ call.kind = "ranking" => call.period = "weekly" /\ participating = Users
          /\ (friends = {} \/ members = {}) /\ Cardinality(past) <= 3

(* The page and the report of one session are compared with no past.       *)
Remembered(c, p) == IF c.kind \in {"report", "session"} THEN {} ELSE p
View == <<vars, Remembered(call, past), IF call.kind \in {"weekly", "monthly"} THEN arrived ELSE 0>>

(* Nothing is delayed but the inserts of some starts: an end is committed  *)
(* as soon as it has read its logs, and the instants are those of the step.*)
Prompt(late) ==
  /\ \A s \in SessionIds :
       /\ ending[s].begun => ~ ending[s].begun' \/ (pc = {}) # (pc' = {})
       /\ sessions[s] # sessions'[s] =>
            IF sessions[s].status = "NONE" THEN s \in late \/ sessions'[s].started = clock
                                           ELSE sessions'[s].ended = clock
  /\ \A l \in Logs' \ Logs : l.at = clock

(* How many moments of a call are remembered at most. *)
Moments(c) == CASE c.kind = "weekly" /\ c.user = 1 -> 5
                [] c.kind \in {"sessions", "ranking"} -> 3
                [] OTHER -> 2

Planned == /\ \/ Periods' /\ Prompt({s2})
              \/ Single'
              \/ ByTime' /\ Prompt({s3})
              \/ (ByFocus \/ Circle)' /\ Prompt({})
           /\ Remembered(call, past) # {} => Cardinality(past') <= Moments(call)

(* Nothing is written between two calls, which would tell of one.          *)
Quiet == pc = {} /\ call # NoCall => UNCHANGED <<study, people, clock>>

PlannedSpec == HistoryInit /\ [][HistoryNext /\ Planned /\ Quiet]_<<vars, past, arrived>>
==============================================================================
