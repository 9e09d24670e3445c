---------------------------- MODULE RollupProofs -----------------------------
(* Proofs about Rollup, for any number of workers, sessions and logs and    *)
(* any retention whose tiers are ordered.                                   *)
EXTENDS RollupProperties, TLAPS

-------------------------------------------------------------------------------
(* Rounding down to a bucket. *)

LEMMA FloorHourFacts ==
  ASSUME NEW a \in Int
  PROVE  FloorHour(a) \in Int /\ FloorHour(a) <= a /\ a < FloorHour(a) + 60
BY DEF FloorHour, Floor

LEMMA FloorHourSplits ==
  ASSUME NEW a \in Int, NEW b \in Int, NEW k \in Int, a < FloorHour(k), FloorHour(k) <= b
  PROVE  FloorHour(a) < FloorHour(k) /\ FloorHour(k) <= FloorHour(b)
BY DEF FloorHour, Floor

LEMMA FloorDaySplits ==
  ASSUME NEW a \in Int, NEW b \in Int, NEW k \in Int, a < FloorDay(k), FloorDay(k) <= b
  PROVE  FloorDay(a) < FloorDay(k) /\ FloorDay(k) <= FloorDay(b)
BY DEF FloorDay, Floor

LEMMA FloorWeekSplits ==
  ASSUME NEW a \in Int, NEW b \in Int, NEW k \in Int, a < FloorWeek(k), FloorWeek(k) <= b
  PROVE  FloorWeek(a) < FloorWeek(k) /\ FloorWeek(k) <= FloorWeek(b)
BY DEF FloorWeek, Floor

LEMMA HourInDay ==
  ASSUME NEW a \in Int, NEW k \in Int
  PROVE  FloorHour(a) < FloorDay(k) <=> a < FloorDay(k)
BY DEF FloorHour, FloorDay, Floor

LEMMA DayInWeek ==
  ASSUME NEW a \in Int, NEW k \in Int
  PROVE  FloorDay(a) < FloorWeek(k) <=> a < FloorWeek(k)
BY DEF FloorWeek, FloorDay, Floor

LEMMA FloorsMonotone ==
  ASSUME NEW a \in Int, NEW b \in Int, a <= b
  PROVE  FloorHour(a) <= FloorHour(b) /\ FloorDay(a) <= FloorDay(b)
         /\ FloorWeek(a) <= FloorWeek(b)
         /\ FloorWeek(a) <= FloorDay(b) /\ FloorDay(a) <= FloorHour(b)
BY DEF FloorHour, FloorWeek, FloorDay, Floor

-------------------------------------------------------------------------------
(* Cutoffs, for whatever stage. *)

USE RollupAssumption

LEMMA StageCases ==
  ASSUME NEW s \in Stages
  PROVE  /\ s = "hourly" \/ s = "daily" \/ s = "weekly"
         /\ Source["hourly"] = "raw" /\ Source["daily"] = "hourly" /\ Source["weekly"] = "daily"
         /\ Source[s] \in Tables /\ s \in Tables /\ Source[s] # s
BY DEF Stages, Tables, Source

LEMMA CutoffType ==
  ASSUME NEW s \in Stages, NEW t \in Int
  PROVE  Cutoff(s, t) \in Int
<1>1. CASE s = "hourly"
  BY <1>1, FloorHourFacts DEF Cutoff, Day
<1>2. CASE s = "daily"
  BY <1>2 DEF Cutoff, Day, FloorDay, Floor
<1>3. CASE s = "weekly"
  BY <1>3 DEF Cutoff, Day, FloorWeek, Floor
<1> QED BY <1>1, <1>2, <1>3, StageCases

LEMMA BucketType ==
  ASSUME NEW s \in Stages, NEW t \in Int
  PROVE  Bucket(s, t) \in Int
BY DEF Stages, Bucket, FloorHour, FloorDay, FloorWeek, Floor

LEMMA CutoffSplits ==
  ASSUME NEW s \in Stages, NEW t \in Int, NEW a \in Int, NEW b \in Int,
         a < Cutoff(s, t), Cutoff(s, t) <= b
  PROVE  Bucket(s, a) < Bucket(s, b)
<1>1. CASE s = "hourly"
  <2> DEFINE k == t - Day * RawDays
  <2>1. k \in Int /\ Cutoff(s, t) = FloorHour(k)
    BY <1>1 DEF Cutoff, Day
  <2> HIDE DEF k
  <2> QED BY <1>1, <2>1, FloorHourSplits, FloorHourFacts DEF Bucket
<1>2. CASE s = "daily"
  <2> DEFINE k == t - Day * HourlyDays
  <2>1. k \in Int /\ Cutoff(s, t) = FloorDay(k)
    BY <1>2 DEF Cutoff, Day
  <2> HIDE DEF k
  <2> QED BY <1>2, <2>1, FloorDaySplits DEF Bucket, FloorDay, Floor
<1>3. CASE s = "weekly"
  <2> DEFINE k == t - Day * DailyDays
  <2>1. k \in Int /\ Cutoff(s, t) = FloorWeek(k)
    BY <1>3 DEF Cutoff, Day
  <2> HIDE DEF k
  <2> QED BY <1>3, <2>1, FloorWeekSplits DEF Bucket, FloorWeek, Floor
<1> QED BY <1>1, <1>2, <1>3, StageCases

(* A source row is before the cutoff iff all the logs it aggregates are. *)
LEMMA DueMeaning ==
  ASSUME NEW s \in Stages, NEW t \in Int, NEW a \in Int
  PROVE  Bucket(Source[s], a) < Cutoff(s, t) <=> a < Cutoff(s, t)
<1>1. CASE s = "hourly"
  BY <1>1, StageCases DEF Bucket
<1>2. CASE s = "daily"
  BY <1>2, StageCases, HourInDay DEF Bucket, Cutoff, Day
<1>3. CASE s = "weekly"
  BY <1>3, StageCases, DayInWeek DEF Bucket, Cutoff, Day
<1> QED BY <1>1, <1>2, <1>3, StageCases

LEMMA CutoffMonotone ==
  ASSUME NEW s \in Stages, NEW t \in Int, NEW u \in Int, t <= u
  PROVE  Cutoff(s, t) <= Cutoff(s, u)
<1>1. \A d \in Nat : t - Day * d \in Int /\ u - Day * d \in Int /\ t - Day * d <= u - Day * d
  BY DEF Day
<1> QED BY <1>1, FloorsMonotone, StageCases DEF Cutoff

LEMMA CutoffsOrdered ==
  ASSUME RetentionOrdered, NEW t \in Int
  PROVE  Cutoff("weekly", t) <= Cutoff("daily", t) /\ Cutoff("daily", t) <= Cutoff("hourly", t)
<1>1. /\ t - Day * DailyDays \in Int /\ t - Day * HourlyDays \in Int /\ t - Day * RawDays \in Int
      /\ t - Day * DailyDays <= t - Day * HourlyDays
      /\ t - Day * HourlyDays <= t - Day * RawDays
  BY DEF RetentionOrdered, Day
<1> QED BY <1>1, FloorsMonotone DEF Cutoff

(* What is received now is not before any cutoff. *)
LEMMA RecentIsKept ==
  ASSUME NEW s \in Stages, NEW t \in Int, NEW a \in Int, t - a <= MaxDelay
  PROVE  Cutoff(s, t) <= a
<1>1. /\ t - Day * DailyDays <= a /\ t - Day * HourlyDays <= a /\ t - Day * RawDays <= a
      /\ t - Day * DailyDays \in Int /\ t - Day * HourlyDays \in Int /\ t - Day * RawDays \in Int
  BY DEF Day
<1>2. \A k \in Int : FloorHour(k) <= k /\ FloorDay(k) <= k /\ FloorWeek(k) <= k
                     /\ FloorHour(k) \in Int /\ FloorDay(k) \in Int /\ FloorWeek(k) \in Int
  BY DEF FloorHour, FloorDay, FloorWeek, Floor
<1> QED BY <1>1, <1>2, StageCases DEF Cutoff

-------------------------------------------------------------------------------
(* The tables before and after a stage. *)

LEMMA MovedWaiting ==
  /\ Moved("hourly") = tier["hourly"] \cup tier["daily"] \cup tier["weekly"]
  /\ Moved("daily") = tier["daily"] \cup tier["weekly"]
  /\ Moved("weekly") = tier["weekly"]
  /\ Waiting("raw") = {}
  /\ Waiting("hourly") = tier["raw"]
  /\ Waiting("daily") = tier["raw"] \cup tier["hourly"]
  /\ Waiting("weekly") = tier["raw"] \cup tier["hourly"] \cup tier["daily"]
<1> DEFINE above(s) == {u \in Tables : Order[u] >= Order[s]}
           below(s) == {u \in Tables : Order[u] < Order[s]}
<1>1. Order["raw"] = 0 /\ Order["hourly"] = 1 /\ Order["daily"] = 2 /\ Order["weekly"] = 3
  BY DEF Order
<1>2. /\ above("hourly") = {"hourly", "daily", "weekly"} /\ above("daily") = {"daily", "weekly"}
      /\ above("weekly") = {"weekly"} /\ below("raw") = {} /\ below("hourly") = {"raw"}
      /\ below("daily") = {"raw", "hourly"} /\ below("weekly") = {"raw", "hourly", "daily"}
  BY <1>1 DEF Tables
<1>3. /\ Moved("hourly") = UNION {tier[t] : t \in {"hourly", "daily", "weekly"}}
      /\ Moved("daily") = UNION {tier[t] : t \in {"daily", "weekly"}}
      /\ Moved("weekly") = UNION {tier[t] : t \in {"weekly"}}
      /\ Waiting("raw") = UNION {tier[t] : t \in {}}
      /\ Waiting("hourly") = UNION {tier[t] : t \in {"raw"}}
      /\ Waiting("daily") = UNION {tier[t] : t \in {"raw", "hourly"}}
      /\ Waiting("weekly") = UNION {tier[t] : t \in {"raw", "hourly", "daily"}}
  BY <1>2 DEF Moved, Waiting
<1> HIDE DEF above, below
<1> QED BY <1>3

LEMMA MovedWaitingNext ==
  (/\ Moved("hourly") = tier["hourly"] \cup tier["daily"] \cup tier["weekly"]
   /\ Moved("daily") = tier["daily"] \cup tier["weekly"]
   /\ Moved("weekly") = tier["weekly"]
   /\ Waiting("raw") = {}
   /\ Waiting("hourly") = tier["raw"]
   /\ Waiting("daily") = tier["raw"] \cup tier["hourly"]
   /\ Waiting("weekly") = tier["raw"] \cup tier["hourly"] \cup tier["daily"])'
BY MovedWaiting, PTL

LEMMA Instant ==
  ASSUME TypeOK, NEW s \in Stages
  PROVE  /\ \A l \in Moved(s) \cup Waiting(s) : l \in Log /\ l.at \in Nat
         /\ tier[s] \subseteq Moved(s) /\ tier[Source[s]] \subseteq Waiting(s)
<1>1. \A t \in Tables : \A l \in tier[t] : l \in Log /\ l.at \in Nat
  BY DEF TypeOK, Log
<1>2. tier[s] \subseteq Moved(s) /\ tier[Source[s]] \subseteq Waiting(s)
  BY StageCases, MovedWaiting
<1> QED BY <1>1, <1>2 DEF Moved, Waiting

LEMMA SameTables ==
  ASSUME tier' = tier
  PROVE  \A s : Moved(s)' = Moved(s) /\ Waiting(s)' = Waiting(s)
BY DEF Moved, Waiting

LEMMA SourceLast ==
  ASSUME NEW s \in Stages
  PROVE  Waiting(s) = Waiting(Source[s]) \cup tier[Source[s]]
BY StageCases, MovedWaiting

(* The earlier stages of a run have left nothing before its cutoff. *)
LEMMA EarlierTables ==
  ASSUME RetentionOrdered, IInv, NEW w \in Workers, pc[w] # "idle",
         NEW l \in Waiting(Source[stage[w]])
  PROVE  l.at >= Cutoff(stage[w], now[w])
<1>1. stage[w] \in Stages /\ now[w] \in Int /\ TypeOK
  BY DEF IInv, TypeOK
<1>2. l.at \in Int
  BY <1>1, SourceLast, Instant
<1>3. \A s \in Stages : Cutoff(s, now[w]) \in Int
  BY <1>1, CutoffType
<1>4. \A s \in Passed(w) : \A m \in Waiting(s) : m.at >= Cutoff(s, now[w])
  BY DEF IInv, RunsBehind
<1>5. CASE stage[w] = "hourly"
  BY <1>5, MovedWaiting, StageCases, <1>1
<1>6. CASE stage[w] = "daily"
  <2>1. l \in Waiting("hourly") /\ "hourly" \in Passed(w)
    BY <1>6, <1>1, StageCases DEF Passed
  <2> QED BY <2>1, <1>1, <1>2, <1>3, <1>4, <1>6, CutoffsOrdered DEF Stages
<1>7. CASE stage[w] = "weekly"
  <2>1. l \in Waiting("daily") /\ "daily" \in Passed(w)
    BY <1>7, <1>1, StageCases DEF Passed
  <2> QED BY <2>1, <1>1, <1>2, <1>3, <1>4, <1>7, CutoffsOrdered DEF Stages
<1> QED BY <1>1, <1>5, <1>6, <1>7, StageCases

-------------------------------------------------------------------------------
(* The steps that leave the tables alone. *)

LEMMA InitEstablishes == Init => IInv
<1> SUFFICES ASSUME Init PROVE IInv
  OBVIOUS
<1>1. TypeOK
  BY DEF Init, TypeOK, Stages, Tables
<1>2. \A s \in Stages : Moved(s) = {} /\ Waiting(s) = {}
  BY StageCases, MovedWaiting DEF Init, Tables
<1>3. accepted = UNION {tier[t] : t \in Tables}
  BY DEF Init
<1>4. RunsBehind /\ SnapshotsSuffice
  BY DEF Init, RunsBehind, SnapshotsSuffice
<1> QED BY <1>1, <1>2, <1>3, <1>4 DEF IInv, Sorted, Retained

LEMMA TickKeeps ==
  ASSUME IInv, Tick
  PROVE  IInv'
<1>1. TypeOK'
  BY DEF IInv, TypeOK, Tick
<1>2. clock <= clock' /\ clock \in Int /\ clock' \in Int /\ tier' = tier
  BY DEF IInv, TypeOK, Tick
<1>3. Sorted'
  BY <1>2, SameTables DEF IInv, Sorted
<1>4. Retained'
  <2> SUFFICES ASSUME NEW s \in Stages, NEW m \in Moved(s)'
               PROVE  m.at < Cutoff(s, clock')
    BY DEF Retained
  <2>1. m \in Moved(s) /\ m.at \in Int
    BY <1>2, SameTables, Instant DEF IInv
  <2>2. m.at < Cutoff(s, clock) /\ Cutoff(s, clock) <= Cutoff(s, clock')
    BY <1>2, <2>1, CutoffMonotone DEF IInv, Retained
  <2> QED BY <2>1, <2>2, <1>2, CutoffType
<1>5. RunsBehind'
  BY <1>2, SameTables DEF IInv, RunsBehind, Passed, Tick, TypeOK, Stages
<1>6. SnapshotsSuffice'
  BY <1>2, SameTables DEF IInv, SnapshotsSuffice, Tick, TypeOK
<1> QED BY <1>1, <1>2, <1>3, <1>4, <1>5, <1>6 DEF IInv, Tick

(* A step that changes neither the tables nor the clock. *)
LEMMA QuietKeeps ==
  ASSUME IInv, UNCHANGED <<tier, accepted, clock>>, TypeOK', RunsBehind', SnapshotsSuffice'
  PROVE  IInv'
<1>1. Sorted' /\ Retained'
  BY SameTables DEF IInv, Sorted, Retained
<1> QED BY <1>1 DEF IInv

LEMMA StartKeeps ==
  ASSUME IInv, NEW w \in Workers, StartRun(w)
  PROVE  IInv'
<1>1. TypeOK'
  BY DEF IInv, TypeOK, StartRun
<1>2. tier' = tier /\ stage' = stage /\ clock' = clock /\ snap' = snap
  BY DEF StartRun
<1>3. RunsBehind'
  <2> SUFFICES ASSUME NEW v \in Workers
               PROVE  /\ now'[v] <= clock
                      /\ pc'[v] = "idle" => stage[v] = "hourly"
                      /\ pc'[v] # "idle" => \A s \in Passed(v) : \A l \in Waiting(s) :
                           l.at >= Cutoff(s, now'[v])
    BY <1>2, SameTables DEF RunsBehind, Passed
  <2>1. CASE v = w
    <3>1. now'[w] = clock /\ clock <= clock
      BY DEF StartRun, IInv, TypeOK
    <3>2. Passed(w) = {} /\ pc'[w] = "ready"
      BY DEF Passed, IInv, RunsBehind, StartRun, TypeOK
    <3> QED BY <2>1, <3>1, <3>2
  <2>2. CASE v # w
    BY <2>2 DEF StartRun, IInv, TypeOK, RunsBehind
  <2> QED BY <2>1, <2>2
<1>4. SnapshotsSuffice'
  BY <1>2, SameTables DEF IInv, SnapshotsSuffice, StartRun, TypeOK
<1> QED BY <1>1, <1>2, <1>3, <1>4, QuietKeeps DEF StartRun

LEMMA BeginKeeps ==
  ASSUME RetentionOrdered, IInv, NEW w \in Workers, BeginStage(w)
  PROVE  IInv'
<1>1. TypeOK'
  BY DEF IInv, TypeOK, BeginStage
<1>2. tier' = tier /\ stage' = stage /\ clock' = clock /\ now' = now
  BY DEF BeginStage
<1>3. RunsBehind'
  BY <1>2, SameTables DEF RunsBehind, Passed, Stages, BeginStage, IInv, TypeOK
<1>4. SnapshotsSuffice'
  <2> SUFFICES ASSUME NEW v \in Workers, pc'[v] = "tx", NEW l \in Waiting(stage[v])
               PROVE  \/ l.at >= Cutoff(stage[v], now[v])
                      \/ l \in snap'[v][Source[stage[v]]]
    BY <1>2, SameTables DEF SnapshotsSuffice, IInv, TypeOK
  <2>1. CASE v = w
    <3>1. snap'[w] = tier /\ pc[w] # "idle"
      BY DEF BeginStage, IInv, TypeOK
    <3> QED BY <2>1, <3>1, EarlierTables, SourceLast DEF IInv, TypeOK
  <2>2. CASE v # w
    BY <2>2 DEF BeginStage, IInv, TypeOK, SnapshotsSuffice
  <2> QED BY <2>1, <2>2
<1> QED BY <1>1, <1>2, <1>3, <1>4, QuietKeeps DEF BeginStage

LEMMA FailKeeps ==
  ASSUME IInv, NEW w \in Workers, FailStage(w)
  PROVE  IInv'
<1>1. TypeOK'
  BY DEF IInv, TypeOK, FailStage, RunOver, Stages
<1>2. tier' = tier /\ clock' = clock
  BY DEF FailStage
<1>3. RunsBehind'
  <2> SUFFICES ASSUME NEW v \in Workers
               PROVE  /\ now'[v] <= clock
                      /\ pc'[v] = "idle" => stage'[v] = "hourly"
                      /\ pc'[v] # "idle" => \A s \in Passed(v)' : \A l \in Waiting(s) :
                           l.at >= Cutoff(s, now'[v])
    BY <1>2, SameTables DEF RunsBehind, Passed
  <2>1. CASE v = w
    BY <2>1 DEF FailStage, RunOver, IInv, TypeOK
  <2>2. CASE v # w
    BY <2>2 DEF FailStage, RunOver, IInv, TypeOK, RunsBehind, Passed
  <2> QED BY <2>1, <2>2
<1>4. SnapshotsSuffice'
  BY <1>2, SameTables DEF IInv, SnapshotsSuffice, FailStage, RunOver, TypeOK
<1> QED BY <1>1, <1>2, <1>3, <1>4, QuietKeeps DEF FailStage

-------------------------------------------------------------------------------
(* The end of a stage. *)

LEMMA StageDoneKeeps ==
  ASSUME IInv, NEW w \in Workers, pc[w] = "tx", StageDone(w),
         NEW done, done = stage[w],
         tier' \in [Tables -> SUBSET Log],
         \A s \in Stages : Waiting(s)' \subseteq Waiting(s),
         \A l \in Waiting(done)' : l.at >= Cutoff(done, now[w])
  PROVE  TypeOK' /\ RunsBehind' /\ SnapshotsSuffice'
<1>1. /\ stage \in [Workers -> Stages] /\ pc \in [Workers -> {"idle", "ready", "tx"}]
      /\ now \in [Workers -> Nat] /\ snap \in [Workers -> [Tables -> SUBSET Log]]
      /\ clock \in Nat /\ accepted \subseteq Log
  BY DEF IInv, TypeOK
<1>2. clock' = clock /\ accepted' = accepted
  BY DEF StageDone
<1>3. \A v \in Workers : v # w => /\ pc'[v] = pc[v] /\ stage'[v] = stage[v]
                                  /\ now'[v] = now[v] /\ snap'[v] = snap[v]
  BY <1>1 DEF StageDone, RunOver
<1>4. \/ pc'[w] = "idle" /\ stage'[w] = "hourly" /\ now'[w] = 0
      \/ /\ pc'[w] = "ready" /\ now'[w] = now[w]
         /\ \/ stage[w] = "hourly" /\ stage'[w] = "daily"
            \/ stage[w] = "daily" /\ stage'[w] = "weekly"
  <2>1. stage[w] = "hourly" \/ stage[w] = "daily" \/ stage[w] = "weekly"
    BY <1>1, StageCases
  <2>2. NextStage["hourly"] = "daily" /\ NextStage["daily"] = "weekly"
    BY DEF NextStage
  <2> QED BY <1>1, <2>1, <2>2 DEF StageDone, RunOver
<1>5. TypeOK'
  <2>1. stage' \in [Workers -> Stages]
    <3>1. \A s \in Stages : s # "weekly" => NextStage[s] \in Stages
      BY DEF Stages, NextStage
    <3> QED BY <1>1, <3>1 DEF StageDone, RunOver, Stages
  <2>2. pc' \in [Workers -> {"idle", "ready", "tx"}] /\ now' \in [Workers -> Nat]
    <3>1. \/ pc' = [pc EXCEPT ![w] = "idle"] /\ now' = [now EXCEPT ![w] = 0]
          \/ pc' = [pc EXCEPT ![w] = "ready"] /\ now' = now
      BY DEF StageDone, RunOver
    <3>2. \A x \in {"idle", "ready"} :
            [pc EXCEPT ![w] = x] \in [Workers -> {"idle", "ready", "tx"}]
      BY <1>1
    <3>3. [now EXCEPT ![w] = 0] \in [Workers -> Nat]
      BY <1>1
    <3> QED BY <1>1, <3>1, <3>2, <3>3
  <2>3. snap' \in [Workers -> [Tables -> SUBSET Log]]
    <3>1. [t \in Tables |-> {}] \in [Tables -> SUBSET Log]
      OBVIOUS
    <3>2. snap' = [snap EXCEPT ![w] = [t \in Tables |-> {}]]
      BY DEF StageDone
    <3> QED BY <1>1, <3>1, <3>2
  <2> QED BY <1>1, <1>2, <2>1, <2>2, <2>3 DEF TypeOK
<1>6. RunsBehind'
  <2> SUFFICES ASSUME NEW v \in Workers
               PROVE  /\ now'[v] <= clock
                      /\ pc'[v] = "idle" => stage'[v] = "hourly"
                      /\ pc'[v] # "idle" => \A s \in Passed(v)' : \A l \in Waiting(s)' :
                           l.at >= Cutoff(s, now'[v])
    BY <1>2 DEF RunsBehind
  <2>1. /\ now[v] <= clock
        /\ pc[v] = "idle" => stage[v] = "hourly"
        /\ pc[v] # "idle" => \A s \in Passed(v) : \A l \in Waiting(s) : l.at >= Cutoff(s, now[v])
    BY DEF IInv, RunsBehind
  <2>2. Passed(v) \subseteq Stages
    BY <1>1, StageCases DEF Passed, Stages
  <2>3. CASE v # w
    <3>1. Passed(v)' = Passed(v)
      BY <1>3, <2>3 DEF Passed
    <3> QED BY <1>3, <2>1, <2>2, <2>3, <3>1
  <2>4. CASE v = w /\ pc'[w] = "idle"
    BY <1>1, <1>4, <2>4
  <2>5. CASE v = w /\ pc'[w] # "idle"
    <3>1. Passed(w)' = Passed(w) \cup {done}
      BY <1>4, <2>5 DEF Passed
    <3> QED BY <1>4, <2>1, <2>2, <2>5, <3>1
  <2> QED BY <2>3, <2>4, <2>5
<1>7. SnapshotsSuffice'
  <2> SUFFICES ASSUME NEW v \in Workers, pc'[v] = "tx", NEW l \in Waiting(stage[v])'
               PROVE  \/ l.at >= Cutoff(stage'[v], now'[v])
                      \/ l \in snap'[v][Source[stage'[v]]]
    BY DEF SnapshotsSuffice
  <2>1. v # w
    BY <1>4
  <2>2. l \in Waiting(stage[v]) /\ pc[v] = "tx"
    BY <2>1, <1>1, <1>3
  <2> QED BY <2>1, <2>2, <1>3 DEF IInv, SnapshotsSuffice
<1> QED BY <1>5, <1>6, <1>7

LEMMA NothingDueKeeps ==
  ASSUME RetentionOrdered, IInv, NEW w \in Workers, NothingDue(w)
  PROVE  IInv'
<1>1. pc[w] = "tx" /\ StageDone(w) /\ tier' = tier /\ Selected(w) = {}
  BY DEF NothingDue
<1>2. stage[w] \in Stages /\ now[w] \in Int /\ TypeOK
  BY DEF IInv, TypeOK
<1>3. ASSUME NEW l \in Waiting(stage[w])
      PROVE  l.at >= Cutoff(stage[w], now[w])
  <2>1. l.at \in Int /\ Cutoff(stage[w], now[w]) \in Int
    BY <1>2, Instant, CutoffType
  <2>2. CASE l \in snap[w][Source[stage[w]]]
    <3>1. ~ (Bucket(Source[stage[w]], l.at) < Cutoff(stage[w], now[w]))
      BY <1>1, <2>2 DEF Selected, Due
    <3> QED BY <1>2, <2>1, <3>1, DueMeaning
  <2> QED BY <1>1, <2>2 DEF IInv, SnapshotsSuffice
<1>4. TypeOK' /\ RunsBehind' /\ SnapshotsSuffice'
  BY <1>1, <1>2, <1>3, SameTables, StageDoneKeeps DEF TypeOK
<1> QED BY <1>1, <1>4, QuietKeeps DEF StageDone

(* Logs S that move from the source of a stage to its target. *)
LEMMA Moves ==
  ASSUME tier \in [Tables -> SUBSET Log], NEW s \in Stages, NEW S \in SUBSET tier[Source[s]],
         tier' = [tier EXCEPT ![s] = @ \cup S, ![Source[s]] = @ \ S]
  PROVE  /\ tier' \in [Tables -> SUBSET Log]
         /\ UNION {tier'[t] : t \in Tables} = UNION {tier[t] : t \in Tables}
         /\ \A u \in Stages : Waiting(u)' \subseteq Waiting(u)
         /\ \A u \in Stages : Moved(u)' = IF u = s THEN Moved(u) \cup S ELSE Moved(u)
         /\ Waiting(s)' = Waiting(Source[s]) \cup (tier[Source[s]] \ S)
<1>1. /\ tier'[s] = tier[s] \cup S /\ tier'[Source[s]] = tier[Source[s]] \ S
      /\ \A t \in Tables \ {s, Source[s]} : tier'[t] = tier[t]
      /\ s \in Tables /\ Source[s] \in Tables /\ s # Source[s]
  BY StageCases
<1>2. tier' \in [Tables -> SUBSET Log]
  BY <1>1
<1>3. UNION {tier'[t] : t \in Tables} = UNION {tier[t] : t \in Tables}
  <2>1. \A l : (\E t \in Tables : l \in tier'[t]) <=> (\E t \in Tables : l \in tier[t])
    BY <1>1
  <2> QED BY <2>1
<1>4. CASE s = "hourly"
  <2>1. /\ tier'["hourly"] = tier["hourly"] \cup S /\ tier'["raw"] = tier["raw"] \ S
        /\ tier'["daily"] = tier["daily"] /\ tier'["weekly"] = tier["weekly"]
        /\ S \subseteq tier["raw"] /\ Source[s] = "raw"
    BY <1>1, <1>4, StageCases DEF Tables
  <2>2. /\ Waiting("hourly")' \subseteq Waiting("hourly")
        /\ Waiting("daily")' \subseteq Waiting("daily")
        /\ Waiting("weekly")' \subseteq Waiting("weekly")
    <3>1. /\ tier'["raw"] \subseteq tier["raw"]
          /\ tier'["raw"] \cup tier'["hourly"] = tier["raw"] \cup tier["hourly"]
      BY <2>1
    <3> QED BY <2>1, <3>1, MovedWaiting, MovedWaitingNext
  <2>3. /\ Moved("hourly")' = Moved("hourly") \cup S
        /\ Moved("daily")' = Moved("daily")
        /\ Moved("weekly")' = Moved("weekly")
    BY <2>1, MovedWaiting, MovedWaitingNext
  <2>4. Waiting("hourly")' = Waiting("raw") \cup (tier["raw"] \ S)
    BY <2>1, MovedWaiting, MovedWaitingNext
  <2> QED BY <1>2, <1>3, <1>4, <2>1, <2>2, <2>3, <2>4 DEF Stages
<1>5. CASE s = "daily"
  <2>1. /\ tier'["daily"] = tier["daily"] \cup S /\ tier'["hourly"] = tier["hourly"] \ S
        /\ tier'["raw"] = tier["raw"] /\ tier'["weekly"] = tier["weekly"]
        /\ S \subseteq tier["hourly"] /\ Source[s] = "hourly"
    BY <1>1, <1>5, StageCases DEF Tables
  <2>2. /\ Waiting("hourly")' \subseteq Waiting("hourly")
        /\ Waiting("daily")' \subseteq Waiting("daily")
        /\ Waiting("weekly")' \subseteq Waiting("weekly")
    BY <2>1, MovedWaiting, MovedWaitingNext
  <2>3. /\ Moved("hourly")' = Moved("hourly")
        /\ Moved("daily")' = Moved("daily") \cup S
        /\ Moved("weekly")' = Moved("weekly")
    BY <2>1, MovedWaiting, MovedWaitingNext
  <2>4. Waiting("daily")' = Waiting("hourly") \cup (tier["hourly"] \ S)
    BY <2>1, MovedWaiting, MovedWaitingNext
  <2> QED BY <1>2, <1>3, <1>5, <2>1, <2>2, <2>3, <2>4 DEF Stages
<1>6. CASE s = "weekly"
  <2>1. /\ tier'["weekly"] = tier["weekly"] \cup S /\ tier'["daily"] = tier["daily"] \ S
        /\ tier'["raw"] = tier["raw"] /\ tier'["hourly"] = tier["hourly"]
        /\ S \subseteq tier["daily"] /\ Source[s] = "daily"
    BY <1>1, <1>6, StageCases DEF Tables
  <2>2. /\ Waiting("hourly")' \subseteq Waiting("hourly")
        /\ Waiting("daily")' \subseteq Waiting("daily")
        /\ Waiting("weekly")' \subseteq Waiting("weekly")
    BY <2>1, MovedWaiting, MovedWaitingNext
  <2>3. /\ Moved("hourly")' = Moved("hourly")
        /\ Moved("daily")' = Moved("daily")
        /\ Moved("weekly")' = Moved("weekly") \cup S
    BY <2>1, MovedWaiting, MovedWaitingNext
  <2>4. Waiting("weekly")' = Waiting("daily") \cup (tier["daily"] \ S)
    BY <2>1, MovedWaiting, MovedWaitingNext
  <2> QED BY <1>2, <1>3, <1>6, <2>1, <2>2, <2>3, <2>4 DEF Stages
<1> QED BY <1>4, <1>5, <1>6, StageCases

LEMMA CommitEffect ==
  ASSUME IInv, NEW w \in Workers, CommitStage(w), NEW s, s = stage[w]
  PROVE  \E S \in SUBSET tier[Source[s]] :
           /\ \A l \in tier[Source[s]] : l \in S <=> l.at < Cutoff(s, now[w])
           /\ tier' = [tier EXCEPT ![s] = @ \cup S, ![Source[s]] = @ \ S]
<1> DEFINE S == Selected(w)
<1>1. s \in Stages /\ now[w] \in Int /\ TypeOK
  BY DEF IInv, TypeOK
<1>2. S = {l \in snap[w][Source[s]] : Bucket(Source[s], l.at) < Cutoff(s, now[w])}
  BY DEF Selected, Due
<1>3. S \subseteq tier[Source[s]]
  <2>1. Touched(Source[s], tier[Source[s]], S) = Touched(Source[s], snap[w][Source[s]], S)
    BY DEF CommitStage, Serializable
  <2>2. S \subseteq Touched(Source[s], snap[w][Source[s]], S)
    BY <1>2 DEF Touched, SameRow
  <2> HIDE DEF S
  <2> QED BY <2>1, <2>2 DEF Touched
<1>4. \A l \in tier[Source[s]] : l \in S <=> l.at < Cutoff(s, now[w])
  <2> SUFFICES ASSUME NEW l \in tier[Source[s]]
               PROVE  l \in S <=> l.at < Cutoff(s, now[w])
    OBVIOUS
  <2>1. l \in Waiting(s) /\ l.at \in Int /\ Cutoff(s, now[w]) \in Int
    BY <1>1, Instant, CutoffType
  <2>2. Bucket(Source[s], l.at) < Cutoff(s, now[w]) <=> l.at < Cutoff(s, now[w])
    BY <1>1, <2>1, DueMeaning
  <2>3. l.at >= Cutoff(s, now[w]) \/ l \in snap[w][Source[s]]
    BY <2>1 DEF IInv, SnapshotsSuffice, CommitStage
  <2> QED BY <1>2, <2>1, <2>2, <2>3
<1>5. Touched(s, tier[s], S) = {}
  <2>1. \A m \in tier[s], l \in S : Bucket(s, m.at) < Bucket(s, l.at)
    BY <1>1, <1>3, Instant DEF IInv, Sorted
  <2>2. \A m \in tier[s], l \in S : Bucket(s, m.at) \in Int /\ Bucket(s, l.at) \in Int
    BY <1>1, <1>3, Instant, BucketType
  <2> HIDE DEF S
  <2> QED BY <1>1, <2>1, <2>2, StageCases DEF Touched, SameRow
<1>6. tier' = [tier EXCEPT ![s] = Upsert(s, tier[s], S), ![Source[s]] = @ \ S]
  BY DEF CommitStage
<1>7. Upsert(s, tier[s], S) = tier[s] \cup S
  BY <1>5 DEF Upsert
<1> HIDE DEF S
<1> QED BY <1>3, <1>4, <1>6, <1>7

LEMMA CommitKeeps ==
  ASSUME RetentionOrdered, IInv, NEW w \in Workers, CommitStage(w)
  PROVE  IInv'
<1> DEFINE s == stage[w]
<1>1. s \in Stages /\ now[w] \in Int /\ TypeOK /\ tier \in [Tables -> SUBSET Log]
      /\ clock \in Int /\ now[w] <= clock /\ Cutoff(s, now[w]) \in Int
  BY CutoffType DEF IInv, TypeOK, RunsBehind
<1>2. pc[w] = "tx" /\ StageDone(w) /\ clock' = clock /\ accepted' = accepted
  BY DEF CommitStage, StageDone
<1>3. PICK c : c = s
  OBVIOUS
<1>4. PICK S \in SUBSET tier[Source[c]] :
        /\ \A l \in tier[Source[c]] : l \in S <=> l.at < Cutoff(c, now[w])
        /\ tier' = [tier EXCEPT ![c] = @ \cup S, ![Source[c]] = @ \ S]
  BY <1>3, CommitEffect
<1>5. /\ tier' \in [Tables -> SUBSET Log]
      /\ UNION {tier'[t] : t \in Tables} = UNION {tier[t] : t \in Tables}
      /\ \A u \in Stages : Waiting(u)' \subseteq Waiting(u)
      /\ \A u \in Stages : Moved(u)' = IF u = c THEN Moved(u) \cup S ELSE Moved(u)
      /\ Waiting(c)' = Waiting(Source[c]) \cup (tier[Source[c]] \ S)
  BY <1>1, <1>3, <1>4, Moves
<1>6. \A u \in Stages : \A l \in Moved(u) \cup Waiting(u) : l.at \in Int
  BY <1>1, Instant
<1>7. \A l \in S : l.at \in Int /\ l.at < Cutoff(c, now[w])
  BY <1>1, <1>3, <1>4, <1>6, Instant
<1>8. \A l \in Waiting(c)' : l.at \in Int /\ l.at >= Cutoff(c, now[w])
  <2>1. \A l \in Waiting(Source[c]) : l.at >= Cutoff(c, now[w])
    BY <1>2, <1>3, EarlierTables
  <2> QED BY <1>1, <1>3, <1>4, <1>5, <1>6, <2>1, Instant
<1>9. Sorted'
  <2> SUFFICES ASSUME NEW u \in Stages, NEW m \in Moved(u)', NEW l \in Waiting(u)'
               PROVE  Bucket(u, m.at) < Bucket(u, l.at)
    BY DEF Sorted
  <2>1. CASE m \in Moved(u)
    BY <1>5, <2>1 DEF IInv, Sorted
  <2>2. CASE u = c /\ m \in S
    BY <1>1, <1>3, <1>7, <1>8, <2>2, CutoffSplits
  <2> QED BY <1>5, <2>1, <2>2
<1>10. Retained'
  <2> SUFFICES ASSUME NEW u \in Stages, NEW m \in Moved(u)'
               PROVE  m.at < Cutoff(u, clock)
    BY <1>2 DEF Retained
  <2>1. CASE m \in Moved(u)
    BY <2>1 DEF IInv, Retained
  <2>2. CASE u = c /\ m \in S
    <3>1. Cutoff(c, now[w]) <= Cutoff(c, clock) /\ Cutoff(c, clock) \in Int
      BY <1>1, <1>3, CutoffMonotone, CutoffType
    <3> QED BY <1>1, <1>3, <1>7, <2>2, <3>1
  <2> QED BY <1>5, <2>1, <2>2
<1>11. TypeOK' /\ RunsBehind' /\ SnapshotsSuffice'
  BY <1>2, <1>3, <1>5, <1>8, StageDoneKeeps
<1> QED BY <1>2, <1>5, <1>9, <1>10, <1>11 DEF IInv

-------------------------------------------------------------------------------
(* A new log is too young for every stage. *)

LEMMA InsertKeeps ==
  ASSUME IInv, InsertLog
  PROVE  IInv'
<1>1. /\ TypeOK /\ tier \in [Tables -> SUBSET Log] /\ clock \in Int
      /\ \A w \in Workers : now[w] \in Int /\ now[w] <= clock /\ stage[w] \in Stages
  BY DEF IInv, TypeOK, RunsBehind
<1>2. PICK i \in LogIds, s \in Sessions, at \in Instants :
        LET l == [id |-> i, session |-> s, at |-> at]
        IN  /\ at <= clock /\ clock - at <= MaxDelay
            /\ tier' = [tier EXCEPT !["raw"] = @ \cup {l}]
            /\ accepted' = accepted \cup {l}
            /\ UNCHANGED <<clock, stage, pc, now, snap>>
  BY DEF InsertLog
<1> DEFINE l == [id |-> i, session |-> s, at |-> at]
<1>3. l \in Log /\ l.at \in Int /\ clock - l.at <= MaxDelay
  BY <1>2 DEF Log
<1>4. /\ tier' = [tier EXCEPT !["raw"] = @ \cup {l}] /\ accepted' = accepted \cup {l}
      /\ UNCHANGED <<clock, stage, pc, now, snap>>
  BY <1>2
<1> HIDE DEF l
<1>5. /\ tier'["raw"] = tier["raw"] \cup {l}
      /\ \A t \in Tables : t # "raw" => tier'[t] = tier[t]
      /\ "raw" \in Tables
  BY <1>1, <1>4 DEF Tables
<1>6. TypeOK'
  BY <1>1, <1>3, <1>4 DEF TypeOK
<1>7. accepted' = UNION {tier'[t] : t \in Tables}
  <2>1. accepted = UNION {tier[t] : t \in Tables}
    BY DEF IInv
  <2>2. \A m : (\E t \in Tables : m \in tier'[t]) <=> (m = l \/ \E t \in Tables : m \in tier[t])
    BY <1>5
  <2> QED BY <1>4, <2>1, <2>2
<1>8. \A u \in Stages : Moved(u)' = Moved(u) /\ Waiting(u)' = Waiting(u) \cup {l}
  <2>1. /\ tier'["hourly"] = tier["hourly"] /\ tier'["daily"] = tier["daily"]
        /\ tier'["weekly"] = tier["weekly"]
    BY <1>5 DEF Tables
  <2>2. /\ Moved("hourly")' = Moved("hourly") /\ Moved("daily")' = Moved("daily")
        /\ Moved("weekly")' = Moved("weekly")
    BY <2>1, MovedWaiting, MovedWaitingNext
  <2>3. /\ Waiting("hourly")' = Waiting("hourly") \cup {l}
        /\ Waiting("daily")' = Waiting("daily") \cup {l}
        /\ Waiting("weekly")' = Waiting("weekly") \cup {l}
    BY <1>5, <2>1, MovedWaiting, MovedWaitingNext
  <2> QED BY <2>2, <2>3 DEF Stages
<1>9. \A u \in Stages : Cutoff(u, clock) \in Int /\ Cutoff(u, clock) <= l.at
  BY <1>1, <1>3, CutoffType, RecentIsKept
<1>10. \A u \in Stages, w \in Workers : l.at >= Cutoff(u, now[w])
  <2> SUFFICES ASSUME NEW u \in Stages, NEW w \in Workers
               PROVE  l.at >= Cutoff(u, now[w])
    OBVIOUS
  <2>1. Cutoff(u, now[w]) <= Cutoff(u, clock) /\ Cutoff(u, now[w]) \in Int
    BY <1>1, CutoffMonotone, CutoffType
  <2> QED BY <1>3, <1>9, <2>1
<1>11. Sorted'
  <2> SUFFICES ASSUME NEW u \in Stages, NEW m \in Moved(u), NEW x \in Waiting(u) \cup {l}
               PROVE  Bucket(u, m.at) < Bucket(u, x.at)
    BY <1>8 DEF Sorted
  <2>1. CASE x \in Waiting(u)
    BY <2>1 DEF IInv, Sorted
  <2>2. CASE x = l
    <3>1. m.at \in Int /\ m.at < Cutoff(u, clock)
      BY <1>1, Instant DEF IInv, Retained
    <3> QED BY <1>1, <1>3, <1>9, <2>2, <3>1, CutoffSplits
  <2> QED BY <2>1, <2>2
<1>12. Retained'
  BY <1>4, <1>8 DEF IInv, Retained
<1>13. RunsBehind'
  <2> SUFFICES ASSUME NEW w \in Workers
               PROVE  /\ now[w] <= clock
                      /\ pc[w] = "idle" => stage[w] = "hourly"
                      /\ pc[w] # "idle" => \A u \in Passed(w) : \A x \in Waiting(u)' :
                           x.at >= Cutoff(u, now[w])
    BY <1>4 DEF RunsBehind, Passed
  <2>1. Passed(w) \subseteq Stages
    BY <1>1, StageCases DEF Passed, Stages
  <2> QED BY <1>8, <1>10, <2>1 DEF IInv, RunsBehind
<1>14. SnapshotsSuffice'
  <2> SUFFICES ASSUME NEW w \in Workers, pc[w] = "tx", NEW x \in Waiting(stage[w])'
               PROVE  x.at >= Cutoff(stage[w], now[w]) \/ x \in snap[w][Source[stage[w]]]
    BY <1>4 DEF SnapshotsSuffice
  <2>1. x \in Waiting(stage[w]) \/ x = l
    BY <1>1, <1>4, <1>8
  <2> QED BY <1>1, <1>10, <2>1 DEF IInv, SnapshotsSuffice
<1> QED BY <1>4, <1>6, <1>7, <1>11, <1>12, <1>13, <1>14 DEF IInv

-------------------------------------------------------------------------------
(* The inductive invariant: whichever workers run, fail or overtake each    *)
(* other, the tables stay cut at bucket boundaries in the order of time,    *)
(* provided the tiers of the retention are ordered.                         *)
THEOREM Invariant ==
  ASSUME RetentionOrdered
  PROVE  Spec => []IInv
<1>1. Init => IInv
  BY InitEstablishes
<1>2. ASSUME IInv, [Next]_vars
      PROVE  IInv'
  <2>1. CASE InsertLog
    BY <1>2, <2>1, InsertKeeps
  <2>2. CASE Tick
    BY <1>2, <2>2, TickKeeps
  <2>3. ASSUME NEW w \in Workers, StartRun(w) PROVE IInv'
    BY <1>2, <2>3, StartKeeps
  <2>4. ASSUME NEW w \in Workers, BeginStage(w) PROVE IInv'
    BY <1>2, <2>4, BeginKeeps
  <2>5. ASSUME NEW w \in Workers, NothingDue(w) PROVE IInv'
    BY <1>2, <2>5, NothingDueKeeps
  <2>6. ASSUME NEW w \in Workers, CommitStage(w) PROVE IInv'
    BY <1>2, <2>6, CommitKeeps
  <2>7. ASSUME NEW w \in Workers, FailStage(w) PROVE IInv'
    BY <1>2, <2>7, FailKeeps
  <2>8. CASE UNCHANGED vars
    <3>1. TypeOK' /\ RunsBehind' /\ SnapshotsSuffice'
      BY <1>2, <2>8, SameTables
         DEF vars, IInv, TypeOK, RunsBehind, SnapshotsSuffice, Passed
    <3> QED BY <1>2, <2>8, <3>1, QuietKeeps DEF vars
  <2> QED BY <1>2, <2>1, <2>2, <2>3, <2>4, <2>5, <2>6, <2>7, <2>8 DEF Next, Work
<1> QED BY <1>1, <1>2, PTL DEF Spec

LEMMA DisjointTables ==
  ASSUME IInv
  PROVE  \A t, u \in Tables : t # u => tier[t] \cap tier[u] = {}
<1>1. \A s \in Stages : Moved(s) \cap Waiting(s) = {}
  <2> SUFFICES ASSUME NEW s \in Stages, NEW m \in Moved(s), m \in Waiting(s)
               PROVE  FALSE
    OBVIOUS
  <2>1. Bucket(s, m.at) < Bucket(s, m.at) /\ Bucket(s, m.at) \in Int
    BY Instant, BucketType DEF IInv, Sorted
  <2> QED BY <2>1
<1>2. /\ Moved("hourly") \cap Waiting("hourly") = {}
      /\ Moved("daily") \cap Waiting("daily") = {}
      /\ Moved("weekly") \cap Waiting("weekly") = {}
  BY <1>1 DEF Stages
<1>3. /\ tier["raw"] \cap tier["hourly"] = {} /\ tier["raw"] \cap tier["daily"] = {}
      /\ tier["raw"] \cap tier["weekly"] = {} /\ tier["hourly"] \cap tier["daily"] = {}
      /\ tier["hourly"] \cap tier["weekly"] = {} /\ tier["daily"] \cap tier["weekly"] = {}
  BY <1>2, MovedWaiting
<1> QED BY <1>3 DEF Tables

(* Totals over the four tables never change by rolling up. *)
THEOREM LogsAreConserved ==
  ASSUME RetentionOrdered
  PROVE  Spec => []Conserved
<1>1. IInv => Conserved
  BY DisjointTables DEF IInv, Conserved
<1> QED BY <1>1, Invariant, PTL

(* An upsert overwrites no row that already stands for other logs. *)
THEOREM BucketsAreWhole ==
  ASSUME RetentionOrdered
  PROVE  Spec => []WholeBuckets
<1>1. ASSUME IInv PROVE WholeBuckets
  <2> SUFFICES ASSUME NEW s \in Stages, NEW l \in tier[Source[s]], NEW m \in tier[s],
                      SameRow(s, l, m)
               PROVE  FALSE
    BY DEF WholeBuckets
  <2>1. Bucket(s, m.at) < Bucket(s, l.at) /\ Bucket(s, m.at) \in Int
    BY <1>1, Instant, BucketType DEF IInv, Sorted
  <2> QED BY <2>1, StageCases DEF SameRow
<1> QED BY <1>1, Invariant, PTL

(* A stage a run has passed has nothing left to do for it. *)
THEOREM StagesDoFinish ==
  ASSUME RetentionOrdered
  PROVE  Spec => []StagesFinish
<1>1. ASSUME IInv PROVE StagesFinish
  <2> SUFFICES ASSUME NEW w \in Workers, pc[w] # "idle", NEW s \in Passed(w),
                      NEW l \in tier[Source[s]],
                      Bucket(Source[s], l.at) < Cutoff(s, now[w])
               PROVE  FALSE
    BY DEF StagesFinish, Due
  <2>1. s \in Stages /\ now[w] \in Int /\ TypeOK
    BY <1>1, StageCases DEF IInv, TypeOK, Passed, Stages
  <2>2. l \in Waiting(s) /\ l.at \in Int /\ Cutoff(s, now[w]) \in Int
    BY <2>1, Instant, CutoffType
  <2>3. l.at >= Cutoff(s, now[w])
    BY <1>1, <2>2 DEF IInv, RunsBehind
  <2> QED BY <2>1, <2>2, <2>3, DueMeaning
<1> QED BY <1>1, Invariant, PTL

(* No log skips a tier or comes back to an earlier one. *)
THEOREM LogsMoveOneTier ==
  ASSUME RetentionOrdered
  PROVE  Spec => OneTierUp
<1> DEFINE Moving == \A t, u \in Tables : (tier[t] \cap tier'[u] # {}) =>
                       Order[u] = Order[t] \/ Order[u] = Order[t] + 1
<1>1. ASSUME IInv, [Next]_vars
      PROVE  [Moving]_tier
  <2> SUFFICES ASSUME tier' # tier, NEW t \in Tables, NEW u \in Tables,
                      NEW l \in tier[t], l \in tier'[u]
               PROVE  Order[u] = Order[t] \/ Order[u] = Order[t] + 1
    OBVIOUS
  <2>1. CASE InsertLog
    <3>1. l \in tier[u] \/ l \notin accepted
      BY <2>1, <1>1 DEF InsertLog, IInv, TypeOK
    <3>2. l \in accepted
      BY <1>1 DEF IInv
    <3> QED BY <1>1, <3>1, <3>2, DisjointTables
  <2>2. ASSUME NEW w \in Workers, CommitStage(w)
        PROVE  Order[u] = Order[t] \/ Order[u] = Order[t] + 1
    <3>1. PICK s \in Stages : s = stage[w]
      BY <1>1 DEF IInv, TypeOK
    <3>2. PICK S \in SUBSET tier[Source[s]] :
            tier' = [tier EXCEPT ![s] = @ \cup S, ![Source[s]] = @ \ S]
      BY <1>1, <2>2, <3>1, CommitEffect
    <3>3. l \in tier[u] \/ (u = s /\ l \in tier[Source[s]])
      BY <1>1, <3>2, StageCases DEF IInv, TypeOK
    <3>4. t = u \/ (u = s /\ t = Source[s])
      BY <1>1, <3>1, <3>3, DisjointTables, StageCases
    <3> QED BY <3>1, <3>4, StageCases DEF Order
  <2>3. CASE Tick \/ UNCHANGED vars
    BY <2>3 DEF Tick, vars
  <2>4. ASSUME NEW w \in Workers, StartRun(w) \/ BeginStage(w) \/ NothingDue(w) \/ FailStage(w)
        PROVE  FALSE
    BY <2>4 DEF StartRun, BeginStage, NothingDue, FailStage
  <2> QED BY <1>1, <2>1, <2>2, <2>3, <2>4 DEF Next, Work
<1> QED BY <1>1, Invariant, PTL DEF Spec, OneTierUp
==============================================================================
