-------------------------- MODULE RollupProperties ---------------------------
(* The correctness properties of the roll-up job. *)
EXTENDS Rollup

TypeOK ==
  /\ tier \in [Tables -> SUBSET Log]
  /\ accepted \subseteq Log
  /\ clock \in Nat
  /\ stage \in [Workers -> Stages]
  /\ pc \in [Workers -> {"idle", "ready", "tx"}]
  /\ now \in [Workers -> Nat]
  /\ snap \in [Workers -> [Tables -> SUBSET Log]]

(* What v_session_metric_totals adds up over the four tables is every log  *)
(* ever stored, each counted once: no run, no failed or concurrent run and *)
(* no overwritten row loses a log or counts it twice.                      *)
Conserved ==
  /\ accepted = UNION {tier[t] : t \in Tables}
  /\ \A t, u \in Tables : t # u => tier[t] \cap tier[u] = {}

(* The reason an upsert may overwrite: when a log waits in a table for the *)
(* next stage, no log of its target row has been moved before it.          *)
WholeBuckets ==
  \A s \in Stages : \A l \in tier[Source[s]], m \in tier[s] : ~ SameRow(s, l, m)

(* A run that has finished a stage leaves nothing before its cutoff in the *)
(* source, whatever was inserted or moved by other runs meanwhile: running *)
(* it again finds nothing to do.                                           *)
Passed(w) == CASE stage[w] = "hourly" -> {}
               [] stage[w] = "daily"  -> {"hourly"}
               [] stage[w] = "weekly" -> {"hourly", "daily"}
StagesFinish ==
  \A w \in Workers : pc[w] # "idle" =>
    \A s \in Passed(w) : Due(s, tier, Cutoff(s, now[w])) = {}

(* A log only ever moves on, and one stage at a time. *)
Order == [raw |-> 0, hourly |-> 1, daily |-> 2, weekly |-> 3]
OneTierUp ==
  [][\A t, u \in Tables : (tier[t] \cap tier'[u] # {}) =>
       Order[u] = Order[t] \/ Order[u] = Order[t] + 1]_tier

(* A log that gets old enough for it ends up in weekly_stats, however often *)
(* runs fail or get in each other's way: the schedule goes on after a      *)
(* failed run, and what a run leaves behind the next one picks up.         *)
EveryLogArchived ==
  \A i \in LogIds :
    (\E l \in accepted : l.id = i /\ \E t \in Instants : l.at < Cutoff("weekly", t))
      ~> (\E l \in tier["weekly"] : l.id = i)

-------------------------------------------------------------------------------
(* The inductive invariant of the proofs.                                  *)

(* The tables are in the order of time, cut at bucket boundaries: a log    *)
(* that has reached a table is of an earlier bucket of that table than     *)
(* every log that has not, whichever their sessions are.                   *)
Moved(s)   == UNION {tier[t] : t \in {u \in Tables : Order[u] >= Order[s]}}
Waiting(s) == UNION {tier[t] : t \in {u \in Tables : Order[u] < Order[s]}}
Sorted == \A s \in Stages : \A m \in Moved(s), l \in Waiting(s) :
            Bucket(s, m.at) < Bucket(s, l.at)

(* Nothing is moved before its retention is over. *)
Retained == \A s \in Stages : \A m \in Moved(s) : m.at < Cutoff(s, clock)

(* A run was started in the past with the first stage, and no table it has *)
(* emptied up to a cutoff gets an older log again.                         *)
RunsBehind ==
  \A w \in Workers :
    /\ now[w] <= clock
    /\ pc[w] = "idle" => stage[w] = "hourly"
    /\ pc[w] # "idle" => \A s \in Passed(w) :
         \A l \in Waiting(s) : l.at >= Cutoff(s, now[w])

(* What has come into the source table since a transaction took its        *)
(* snapshot is not due for it.                                             *)
SnapshotsSuffice ==
  \A w \in Workers : pc[w] = "tx" =>
    \A l \in Waiting(stage[w]) :
      l.at >= Cutoff(stage[w], now[w]) \/ l \in snap[w][Source[stage[w]]]

IInv == /\ TypeOK /\ accepted = UNION {tier[t] : t \in Tables}
        /\ Sorted /\ Retained /\ RunsBehind /\ SnapshotsSuffice
==============================================================================
