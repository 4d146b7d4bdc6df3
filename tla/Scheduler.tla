----------------------------- MODULE Scheduler -----------------------------
(***************************************************************************)
(* scheduleNext, the goroutine of a collector that waits for the instances *)
(* of its schedule and ends in Close.  The SQL and the HTTP collector have *)
(* the same one (src/pkg/sql/collector.go, src/pkg/http/collector.go).     *)
(* What an instance starts is up to the modules that extend this one.      *)
(***************************************************************************)
EXTENDS State

CONSTANT MaxRuns  \* bound: scheduled instances

ASSUME SchedulerAssumption == MaxRuns \in Nat

VARIABLES
  once,           \* Schedule.RunsOnlyOnce
  sched,          \* where scheduleNext is: "next", "sleep", "await" or "over"
  run,            \* the instance that "prev" stands for
  cancelled,      \* schedCtx is done
  execCancelled   \* execCtx is done

schedVars == <<once, sched, run, cancelled>>

Runs == 1..MaxRuns

SchedulerInit ==
  /\ StateInit
  /\ once \in BOOLEAN
  /\ sched = "next" /\ run = 0
  /\ cancelled = FALSE /\ execCancelled = FALSE

SchedulerTypeOK ==
  /\ {once, cancelled, execCancelled} \subseteq BOOLEAN
  /\ sched \in {"next", "sleep", "await", "over"}
  /\ run \in 0..MaxRuns

\* The context that main passed to Start is cancelled.
CancelSchedule ==
  /\ ~cancelled
  /\ cancelled' = TRUE
  /\ UNCHANGED <<stateVars, once, sched, run, execCancelled>>

\* The deferred call of Close.
Stop == sched' = "over" /\ AwaitCloseLock

\* Schedule.Next returns an instance, one that was missed already, or none.
ScheduleNext ==
  /\ sched = "next"
  /\ \/ /\ run < MaxRuns /\ ~(once /\ run > 0)
        /\ sched' = "sleep" /\ UNCHANGED <<stateVars, run>>
     \/ /\ run < MaxRuns /\ ~once
        /\ run' = run + 1 /\ UNCHANGED <<stateVars, sched>>
     \/ once /\ run > 0 /\ sched' = "await" /\ UNCHANGED <<stateVars, run>>
     \/ ~once /\ Stop /\ UNCHANGED run
  /\ UNCHANGED <<once, cancelled, execCancelled>>

\* The instance's time has come.
InstanceDue ==
  /\ sched = "sleep"
  /\ sched' = "next"
  /\ run' = run + 1
  /\ UNCHANGED <<stateVars, once, cancelled, execCancelled>>

StopSleeping ==
  /\ sched = "sleep" /\ cancelled
  /\ Stop
  /\ UNCHANGED <<once, run, cancelled, execCancelled>>

\* Mutant: a collector that runs once waits for the process to end.
StopAwaitingCancelled(idle) ==
  /\ sched = "await" /\ cancelled
  /\ Stop
  /\ UNCHANGED <<once, run, cancelled, execCancelled>>

\* A collector that runs once waits until InProgress is idle.
StopAwaiting(idle) ==
  /\ sched = "await"
  /\ cancelled \/ idle
  /\ Stop
  /\ UNCHANGED <<once, run, cancelled, execCancelled>>
=============================================================================
