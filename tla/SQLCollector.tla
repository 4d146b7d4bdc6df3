---------------------------- MODULE SQLCollector ----------------------------
(***************************************************************************)
(* The SQL collector (src/pkg/sql/collector.go): a scheduler goroutine     *)
(* starts queries up to a concurrency limit, queries add their rows to one *)
(* shared batcher and commit, timers dispatch batches that wait too long,  *)
(* and Close waits for all of them before it signals Done.                 *)
(*                                                                         *)
(* The batcher is the one of module Batcher: here a batch is the set of    *)
(* its rows, cut at a number of rows (1 when batching is disabled).  A row *)
(* is its query and its number.  The checkpoint, which nothing reads, and  *)
(* the choice of a driver are left out; executePostgresQuery has the same  *)
(* steps as executeQuery.  The database may fail or hang at any point.     *)
(***************************************************************************)
EXTENDS Scheduler, FiniteSets

CONSTANTS
  MaxRows,        \* bound: rows per query
  Concurrency,    \* queries that may run at the same time
  BatchCount,     \* rows per batch
  Timers,         \* callbacks of the batcher's timers
  Closing         \* the goroutine that runs Close

ASSUME CollectorAssumption ==
  /\ MaxRows \in Nat
  /\ {Concurrency, BatchCount} \subseteq Nat \ {0}
  /\ Timers \cap 1..MaxRuns = {}
  /\ Closing \notin Timers \cup 1..MaxRuns

Rows == Runs \X (1..MaxRows)
Holders == Runs \cup Timers \cup {Closing}

VARIABLES
  query,          \* where each query is
  scanned,        \* the number of rows that it added to the batcher
  pending,        \* the batcher's current batch
  holding,        \* batches that were cut, by the goroutine that dispatches them
  sent,           \* rows that the sender got
  last,           \* the end of Close: "no", "wait" (for the lock), "held" or "over"
  timely          \* no query outlived Close's timeouts

collectorVars == <<schedVars, execCancelled, query, scanned, pending, holding, sent, last,
                   timely>>
rowVars == <<scanned, pending, holding, sent>>
closeVars == <<execCancelled, last, timely>>

vars == <<stateVars, collectorVars>>

Ended == {"committed", "undone"}
Running == {q \in Runs : query[q] \notin {"none"} \cup Ended}

Init ==
  /\ SchedulerInit
  /\ query = [q \in Runs |-> "none"]
  /\ scanned = [q \in Runs |-> 0]
  /\ pending = {} /\ sent = {}
  /\ holding = [h \in Holders |-> {}]
  /\ last = "no" /\ timely = TRUE

-----------------------------------------------------------------------------
(* scheduleNext, with what its instances start.                            *)

Interrupt == CancelSchedule /\ UNCHANGED <<query, rowVars, last, timely>>

NextInstance == ScheduleNext /\ UNCHANGED <<query, rowVars, last, timely>>

\* Mutant: queries are not limited.
ExecuteUnlimited ==
  /\ InstanceDue
  /\ query' = IF cancelled THEN query ELSE [query EXCEPT ![run + 1] = "begin"]
  /\ UNCHANGED <<rowVars, last, timely>>

\* executeWithConcurrencyLimit: a query runs, or it is skipped.
ExecuteWithConcurrencyLimit ==
  /\ InstanceDue
  /\ query' = IF cancelled \/ Cardinality(Running) >= Concurrency THEN query
              ELSE [query EXCEPT ![run + 1] = "begin"]
  /\ UNCHANGED <<rowVars, last, timely>>

SchedulerStops == StopSleeping /\ UNCHANGED <<query, rowVars, last, timely>>

OneTimeEnds == StopAwaiting(Running = {}) /\ UNCHANGED <<query, rowVars, last, timely>>

-----------------------------------------------------------------------------
(* executeQuery and processResults.                                        *)

Goto(q, step) == query' = [query EXCEPT ![q] = step]

\* sendRows: the sender takes the batch that h holds.
SendRows(h) ==
  /\ sent' = sent \cup holding[h]
  /\ holding' = [holding EXCEPT ![h] = {}]

\* The batcher's Flush, up to its dispatch.
TakePending(h) ==
  /\ holding' = [holding EXCEPT ![h] = pending]
  /\ pending' = {}

\* BeginTx and QueryContext.
BeginQuery(q) ==
  /\ query[q] = "begin"
  /\ Goto(q, "rows") \/ Goto(q, "undone")
  /\ UNCHANGED <<stateVars, schedVars, rowVars, closeVars>>

ScanRow(q) ==
  /\ query[q] = "rows" /\ scanned[q] < MaxRows
  /\ ~execCancelled
  /\ Goto(q, "add")
  /\ UNCHANGED <<stateVars, schedVars, rowVars, closeVars>>

\* AddItem: the batch may be full, then this goroutine has to dispatch it.
AddItem(q) ==
  LET batch == pending \cup {<<q, scanned[q] + 1>>}
      full == Cardinality(batch) >= BatchCount
  IN  /\ query[q] = "add"
      /\ Goto(q, IF full THEN "full" ELSE "rows")
      /\ scanned' = [scanned EXCEPT ![q] = @ + 1]
      /\ pending' = IF full THEN {} ELSE batch
      /\ holding' = IF full THEN [holding EXCEPT ![q] = batch] ELSE holding
      /\ UNCHANGED <<stateVars, schedVars, sent, closeVars>>

DispatchFull(q) ==
  /\ query[q] = "full"
  /\ SendRows(q)
  /\ Goto(q, "rows")
  /\ UNCHANGED <<stateVars, schedVars, scanned, pending, closeVars>>

\* Mutant: results are not flushed after an error.
ResultsEndUnflushed(q) ==
  /\ query[q] = "rows"
  /\ Goto(q, "results") \/ Goto(q, "undone")
  /\ UNCHANGED <<stateVars, schedVars, rowVars, closeVars>>

\* All the rows were read, or an error (a timeout too) interrupts that. Only the
\* generic driver looks at the context once more after the last row; PostgreSQL's
\* does not, so rows that were all read may count as such after a timeout too.
ResultsEnd(q) ==
  /\ query[q] = "rows"
  /\ Goto(q, "results") \/ Goto(q, "error")
  /\ UNCHANGED <<stateVars, schedVars, rowVars, closeVars>>

FlushTakes(q) ==
  /\ \/ query[q] = "results" /\ Goto(q, "flush")
     \/ query[q] = "error" /\ Goto(q, "flushError")
  /\ TakePending(q)
  /\ UNCHANGED <<stateVars, schedVars, scanned, sent, closeVars>>

\* Commit only if all the results were processed, otherwise roll back.
FlushSends(q) ==
  /\ \/ query[q] = "flush" /\ Goto(q, "commit")
     \/ query[q] = "flushError" /\ Goto(q, "undone")
  /\ SendRows(q)
  /\ UNCHANGED <<stateVars, schedVars, scanned, pending, closeVars>>

Commit(q) ==
  /\ query[q] = "commit"
  /\ Goto(q, "committed") \/ Goto(q, "undone")
  /\ UNCHANGED <<stateVars, schedVars, rowVars, closeVars>>

-----------------------------------------------------------------------------
(* The batcher's timers, in the collector's guard.                         *)

\* A timer of the current batch fires, and the callback gets the read lock, which
\* a waiting writer keeps from it.
TimerLocks(t) ==
  /\ t \notin readers
  /\ pending # {}
  /\ closer # "locking" /\ last \notin {"wait", "held"}
  /\ readers' = readers \cup {t}
  /\ UNCHANGED <<closer, closing, closed, collectorVars>>

\* By now the batch may be gone, or have been replaced by another: it has a
\* timer of its own.
TimerTakes(t) ==
  /\ t \in readers /\ holding[t] = {} /\ pending # {}
  /\ TakePending(t)
  /\ UNCHANGED <<stateVars, schedVars, query, scanned, sent, closeVars>>

\* Mutant: a batch that the callback took is dropped once the collector closes.
TimerEndsUnlessClosing(t) ==
  /\ t \in readers
  /\ sent' = IF closing THEN sent ELSE sent \cup holding[t]
  /\ holding' = [holding EXCEPT ![t] = {}]
  /\ RUnlock(t)
  /\ UNCHANGED <<schedVars, query, scanned, pending, closeVars>>

\* The callback dispatches what it took, if anything, and unlocks.
TimerEnds(t) ==
  /\ t \in readers
  /\ SendRows(t)
  /\ RUnlock(t)
  /\ UNCHANGED <<schedVars, query, scanned, pending, closeVars>>

-----------------------------------------------------------------------------
(* Close.                                                                  *)

CloseBegins ==
  /\ BeginClose
  /\ cancelled' = TRUE
  /\ UNCHANGED <<once, sched, run, query, rowVars, closeVars>>

\* Mutant: the timeout closes the pools, which waits for all their connections.
GraceEndsClosingPools ==
  /\ closer = "grace" /\ last = "no"
  /\ Running = {}
  /\ execCancelled' = TRUE
  /\ closer' = "abort"
  /\ UNCHANGED <<readers, closing, closed, schedVars, query, rowVars, last, timely>>

\* Timeout: StopStragglers.
GraceEnds ==
  /\ closer = "grace" /\ last = "no"
  /\ execCancelled' = TRUE
  /\ closer' = "abort"
  /\ UNCHANGED <<readers, closing, closed, schedVars, query, rowVars, last, timely>>

\* All queries ended, so the pools are closed; or AbortTimeout is over.
WaitEnds ==
  /\ closer \in {"grace", "abort"} /\ last = "no"
  /\ Running = {} \/ closer = "abort"
  /\ timely' = (Running = {})
  /\ last' = "wait"
  /\ UNCHANGED <<stateVars, schedVars, execCancelled, query, rowVars>>

\* Mutant: Close flushes without the lock.
CloseFlushesUnlocked ==
  /\ last = "wait"
  /\ TakePending(Closing)
  /\ last' = "held"
  /\ UNCHANGED <<stateVars, schedVars, execCancelled, timely, query, scanned, sent>>

\* Close has the write lock: no callback is between its lock and unlock.
CloseFlushes ==
  /\ last = "wait"
  /\ readers = {}
  /\ TakePending(Closing)
  /\ last' = "held"
  /\ UNCHANGED <<stateVars, schedVars, execCancelled, timely, query, scanned, sent>>

CloseReturns ==
  /\ last = "held"
  /\ SendRows(Closing)
  /\ FinishClose("returned")
  /\ last' = "over"
  /\ execCancelled' = TRUE
  /\ UNCHANGED <<schedVars, timely, query, scanned, pending>>

-----------------------------------------------------------------------------
SchedulerNext ==
  NextInstance \/ ExecuteWithConcurrencyLimit \/ SchedulerStops \/ OneTimeEnds

QueryNext(q) ==
  \/ BeginQuery(q) \/ ScanRow(q) \/ AddItem(q) \/ DispatchFull(q) \/ ResultsEnd(q)
  \/ FlushTakes(q) \/ FlushSends(q) \/ Commit(q)

TimerNext(t) == TimerLocks(t) \/ TimerTakes(t) \/ TimerEnds(t)

CloseNext == CloseBegins \/ GraceEnds \/ WaitEnds \/ CloseFlushes \/ CloseReturns

Next ==
  \/ Interrupt
  \/ SchedulerNext
  \/ \E q \in Runs : QueryNext(q)
  \/ \E t \in Timers : TimerNext(t)
  \/ CloseNext

\* Time passes, callbacks that have the lock finish (Send is asynchronous), and so
\* do dispatches; the database may hang.
Fairness ==
  /\ WF_vars(SchedulerNext)
  /\ WF_vars(CloseNext)
  /\ \A t \in Timers : WF_vars(TimerEnds(t))
  /\ \A q \in Runs : WF_vars(DispatchFull(q) \/ FlushTakes(q) \/ FlushSends(q))

Spec == Init /\ [][Next]_vars

FairSpec == Spec /\ Fairness

-----------------------------------------------------------------------------
(* Properties.                                                             *)

Added == {r \in Rows : r[2] <= scanned[r[1]]}

\* The type invariant, with the capacity of scheduleNext's semaphore.
TypeOK ==
  /\ StateTypeOK(Timers)
  /\ SchedulerTypeOK
  /\ timely \in BOOLEAN
  /\ query \in [Runs -> {"none", "begin", "rows", "add", "full", "results", "error",
                         "flush", "flushError", "commit"} \cup Ended]
  /\ Cardinality(Running) <= Concurrency
  /\ scanned \in [Runs -> 0..MaxRows]
  /\ pending \subseteq Rows /\ sent \subseteq Rows
  /\ holding \in [Holders -> SUBSET Rows]
  /\ last \in {"no", "wait", "held", "over"}

\* What Done promises to main's shutdown, which closes the senders next: unless a
\* query outlived Close's timeouts, the sender already got every row, including
\* those that a timer or another query's goroutine was about to dispatch.
DoneMeansHandedOver == closed /\ timely => sent = Added

\* A query that ended, well or not, left none of its rows in the batcher, where
\* they would wait for another query: they were sent, or are being dispatched.
EndedLeavesNothing ==
  \A q \in Runs : query[q] \in Ended => \A r \in pending : r[1] # q

\* Every row that was added reaches the sender, whoever has to dispatch it.
CommittedRowsArrive ==
  \A q \in Runs :
    query[q] = "committed" ~> \A r \in Added : r[1] = q => r \in sent

\* Shutdown ends even if queries hang.
ShutdownEnds == cancelled ~> closed

\* A one-time collector closes by itself when its query ends.
OneTimeCloses == once /\ run > 0 /\ Running = {} ~> closed
=============================================================================
