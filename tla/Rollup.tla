------------------------------- MODULE Rollup --------------------------------
(***************************************************************************)
(* The roll-up job (services/rollup.js, rollupScheduler.js): three stages, *)
(* each its own Serializable transaction, move old logs from               *)
(* concentration_logs to hourly_stats, from there to daily_stats, from     *)
(* there to weekly_stats.                                                  *)
(*                                                                         *)
(* A row of a statistics table is represented by the set of logs it        *)
(* aggregates, and a table by the union of its rows: the row of a session  *)
(* and a bucket is the set of its logs that fall into both.  log_count is  *)
(* its cardinality and every other column is a sum over it, so two rows    *)
(* that agree as sets agree in every column.                               *)
(*                                                                         *)
(* Time is in minutes, minute 0 a Monday 00:00 UTC.                        *)
(***************************************************************************)
EXTENDS Integers

CONSTANTS Sessions, LogIds, Workers,
          RawDays, HourlyDays, DailyDays,  \* ROLLUP_*_RETENTION_DAYS
          MaxDelay,                        \* bound: minutes from receivedAt to the insert
          Instants                         \* bound: the instants at which something happens

Day == 1440

(* readPositiveInteger accepts any positive number of days for each tier,  *)
(* and no request stays in flight for a day.                               *)
ASSUME RollupAssumption ==
  /\ RawDays \in Nat \ {0} /\ HourlyDays \in Nat \ {0} /\ DailyDays \in Nat \ {0}
  /\ MaxDelay \in Nat /\ MaxDelay < Day
  /\ Instants \subseteq Nat

(* What getRetentionFromEnv does not require but rollup-strategy.md lists. *)
RetentionOrdered == RawDays <= HourlyDays /\ HourlyDays <= DailyDays

Log == [id : LogIds, session : Sessions, at : Nat]    \* at is logged_at

VARIABLES
  tier,      \* the logs each table accounts for
  accepted,  \* the logs ever written, to compare with; no code reads it
  clock,
  stage,     \* the stage a worker runs
  pc,        \* a worker is idle, between stages, or inside a stage's transaction
  now,       \* the instant its run was started
  snap       \* the tables as the transaction of its stage sees them

vars == <<tier, accepted, clock, stage, pc, now, snap>>

Tables == {"raw", "hourly", "daily", "weekly"}
Stages == {"hourly", "daily", "weekly"}      \* a stage has the name of its target
Source == [hourly |-> "raw", daily |-> "hourly", weekly |-> "daily"]

-------------------------------------------------------------------------------
Floor(t, width) == t - (t % width)
FloorHour(t) == Floor(t, 60)
FloorDay(t)  == Floor(t, 1440)
FloorWeek(t) == Floor(t, 10080)

Bucket(table, t) == CASE table = "raw"    -> t
                      [] table = "hourly" -> FloorHour(t)
                      [] table = "daily"  -> FloorDay(t)
                      [] table = "weekly" -> FloorWeek(t)

NotFloored(s, t) ==                  \* mutant: the cutoffs are not bucket starts
  t - Day * (CASE s = "hourly" -> RawDays
               [] s = "daily"  -> HourlyDays
               [] s = "weekly" -> DailyDays)
Cutoff(s, t) ==                      \* getRollupCutoffs
  CASE s = "hourly" -> FloorHour(t - Day * RawDays)
    [] s = "daily"  -> FloorDay(t - Day * HourlyDays)
    [] s = "weekly" -> FloorWeek(t - Day * DailyDays)

(* The source rows of stage s before the cutoff, in the tables T. *)
Due(s, T, cutoff) == {l \in T[Source[s]] : Bucket(Source[s], l.at) < cutoff}

(* The two logs belong to one row of table t. *)
SameRow(t, l, m) ==
  IF t = "raw" THEN l = m
               ELSE l.session = m.session /\ Bucket(t, l.at) = Bucket(t, m.at)

(* The rows in L, the contents of table t, that logs of S belong to. *)
Touched(t, L, S) == {m \in L : \E l \in S : SameRow(t, l, m)}

(* INSERT ... ON CONFLICT (session_id, bucket_start) DO UPDATE: the row of  *)
(* the aggregate replaces the row that is there.                           *)
Upsert(s, L, S) == (L \ Touched(s, L, S)) \cup S

(* Every row of the aggregate equals the row of the target. *)
Verified(s, L, S) == Touched(s, L, S) = S

-------------------------------------------------------------------------------
Init == /\ tier = [t \in Tables |-> {}]
        /\ accepted = {}
        /\ clock = 0
        /\ stage = [w \in Workers |-> "hourly"]
        /\ pc = [w \in Workers |-> "idle"]
        /\ now = [w \in Workers |-> 0]
        /\ snap = [w \in Workers |-> [t \in Tables |-> {}]]

(* A session handler stores a log received at most MaxDelay ago. *)
InsertLog ==
  \E i \in LogIds, s \in Sessions, at \in Instants :
    LET l == [id |-> i, session |-> s, at |-> at]
    IN  /\ at <= clock /\ clock - at <= MaxDelay
        /\ \A m \in accepted : m.id # i
        /\ tier' = [tier EXCEPT !["raw"] = @ \cup {l}]
        /\ accepted' = accepted \cup {l}
        /\ UNCHANGED <<clock, stage, pc, now, snap>>

Tick == /\ \E t \in Instants : t > clock /\ clock' = t
        /\ UNCHANGED <<tier, accepted, stage, pc, now, snap>>

FirstDate(w) ==                      \* mutant: new Date() of the server's start
  /\ pc[w] = "idle"
  /\ pc' = [pc EXCEPT ![w] = "ready"]
  /\ UNCHANGED <<tier, accepted, clock, stage, now, snap>>

(* The timer of a server process fires, or npm run rollup is called. *)
StartRun(w) ==
  /\ pc[w] = "idle"
  /\ pc' = [pc EXCEPT ![w] = "ready"]
  /\ now' = [now EXCEPT ![w] = clock]
  /\ UNCHANGED <<tier, accepted, clock, stage, snap>>

(* The statement that asks for the advisory lock takes the snapshot; the   *)
(* lock is granted later and held to the commit, which is one step below.  *)
BeginStage(w) ==
  /\ pc[w] = "ready"
  /\ pc' = [pc EXCEPT ![w] = "tx"]
  /\ snap' = [snap EXCEPT ![w] = tier]
  /\ UNCHANGED <<tier, accepted, clock, stage, now>>

Selected(w) == Due(stage[w], snap[w], Cutoff(stage[w], now[w]))

RunOver(w) == /\ pc' = [pc EXCEPT ![w] = "idle"]
              /\ stage' = [stage EXCEPT ![w] = "hourly"]
              /\ now' = [now EXCEPT ![w] = 0]

NextStage == [hourly |-> "daily", daily |-> "weekly"]

StageDone(w) ==
  /\ snap' = [snap EXCEPT ![w] = [t \in Tables |-> {}]]
  /\ \/ /\ stage[w] = "weekly"
        /\ RunOver(w)
     \/ /\ stage[w] # "weekly"
        /\ pc' = [pc EXCEPT ![w] = "ready"]
        /\ stage' = [stage EXCEPT ![w] = NextStage[@]]
        /\ UNCHANGED now
  /\ UNCHANGED <<accepted, clock>>

(* bucketCount = 0 *)
NothingDue(w) ==
  /\ pc[w] = "tx"
  /\ Selected(w) = {}
  /\ StageDone(w)
  /\ UNCHANGED tier

(* The rows this stage deletes and overwrites are as its snapshot shows     *)
(* them; otherwise PostgreSQL aborts one of the two writers.  A row that   *)
(* has been added since is not seen, and not deleted either.               *)
NotSerializable(w) == TRUE           \* mutant: isolationLevel dropped
Serializable(w) ==
  \A t \in {stage[w], Source[stage[w]]} :
    Touched(t, tier[t], Selected(w)) = Touched(t, snap[w][t], Selected(w))

(* Upsert, verification and deletion of the source rows commit together. *)
CommitStage(w) ==
  LET S == Selected(w)
      target == Upsert(stage[w], tier[stage[w]], S)
  IN  /\ pc[w] = "tx"
      /\ S # {}
      /\ Serializable(w)
      /\ Verified(stage[w], target, S)
      /\ tier' = [tier EXCEPT ![stage[w]] = target,
                              ![Source[stage[w]]] = @ \ S]
      /\ StageDone(w)

SkipsStage(w) ==                     \* mutant: the run goes on after a failed stage
  /\ pc[w] = "tx"
  /\ StageDone(w)
  /\ UNCHANGED tier

(* A serialization failure, a verification error, the timeout of the       *)
(* transaction, a lost connection or a crash of the process: the stage is  *)
(* rolled back and the run is over, runRollup does not retry.              *)
FailStage(w) ==
  /\ pc[w] = "tx"
  /\ RunOver(w)
  /\ snap' = [snap EXCEPT ![w] = [t \in Tables |-> {}]]
  /\ UNCHANGED <<tier, accepted, clock>>

Work(w) == BeginStage(w) \/ NothingDue(w) \/ CommitStage(w) \/ FailStage(w)

Next == InsertLog \/ Tick \/ \E w \in Workers : StartRun(w) \/ Work(w)

Spec == Init /\ [][Next]_vars

(* Time passes, scheduleNext starts a run again and again, a run goes on,  *)
(* and no stage fails for ever: the database recovers.                     *)
FairSpec ==
  /\ Spec
  /\ WF_vars(Tick)
  /\ \A w \in Workers : /\ WF_vars(StartRun(w)) /\ WF_vars(Work(w))
                        /\ \A s \in Stages :
                             SF_vars(stage[w] = s /\ (NothingDue(w) \/ CommitStage(w)))
==============================================================================
