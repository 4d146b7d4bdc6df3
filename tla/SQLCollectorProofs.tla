------------------------- MODULE SQLCollectorProofs -------------------------
(***************************************************************************)
(* For any number of scheduled instances, rows, concurrent queries, timers *)
(* and batch sizes: when the SQL collector signals Done, every row that    *)
(* its queries collected has reached the sender, unless a query outlived   *)
(* Close's timeouts; a query leaves nothing in the batcher; and the        *)
(* concurrency limit holds.                                                *)
(***************************************************************************)
EXTENDS SQLCollector, FiniteSetTheorems, TLAPS

Held == UNION {holding[h] : h \in Holders}

ShapeInv ==
  /\ run \in Nat
  /\ \A q \in Runs : q > run => query[q] = "none"
  /\ query \in [Runs -> {"none", "begin", "rows", "add", "full", "results", "error",
                         "flush", "flushError", "commit"} \cup Ended]
  /\ scanned \in [Runs -> Nat]
  /\ \A q \in Runs : query[q] = "add" => scanned[q] < MaxRows
  /\ holding \in [Holders -> SUBSET Rows]
  /\ pending \subseteq Rows

\* A row is in the batcher, in the hands of a goroutine, or sent.
RowInv == Added = pending \cup Held \cup sent

\* Whoever holds a batch is in the middle of its dispatch.
HoldInv ==
  /\ \A q \in Runs : holding[q] # {} => query[q] \in {"full", "flush", "flushError"}
  /\ \A t \in Timers : holding[t] # {} => t \in readers
  /\ holding[Closing] # {} => last = "held"

\* Close waits for the queries, keeps the callbacks out, and empties the batcher.
CloseInv ==
  /\ closed => last = "over"
  /\ last # "no" => sched = "over" /\ closer \in {"grace", "abort", "returned"}
  /\ sched = "over" <=> closer # "open"
  /\ last \in {"held", "over"} /\ timely => pending = {}
  /\ last \in {"held", "over"} /\ timely => readers = {}
  /\ last # "no" /\ timely => Running = {}
  /\ last = "held" => readers = {}

CollectorInv == ShapeInv /\ RowInv /\ HoldInv /\ CloseInv

\* Queries, timers and Close are different goroutines.
LEMMA HoldersDiffer ==
  /\ Runs \cap Timers = {} /\ Closing \notin Runs \cup Timers
  /\ Runs \subseteq Holders /\ Timers \subseteq Holders /\ Closing \in Holders
  BY CollectorAssumption DEF CollectorAssumption, Runs, Holders

\* Nothing is collected at startup.
LEMMA InitInv == Init => CollectorInv
  <1> SUFFICES ASSUME Init PROVE CollectorInv
    OBVIOUS
  <1>1. ShapeInv
    BY DEF Init, SchedulerInit, ShapeInv, Runs
  <1>2. Added = {} /\ Held = {}
    BY DEF Init, Added, Held, Rows
  <1>3. HoldInv
    BY HoldersDiffer DEF Init, HoldInv
  <1>4. CloseInv
    BY DEF Init, SchedulerInit, StateInit, CloseInv
  <1> QED BY <1>1, <1>2, <1>3, <1>4 DEF CollectorInv, RowInv, Init

\* A batch that is taken out of the batcher is still accounted for.
LEMMA TakeFacts ==
  ASSUME ShapeInv, NEW h \in Holders, holding[h] = {}, TakePending(h)
  PROVE  /\ Held' = Held \cup pending
         /\ pending' = {}
         /\ holding' \in [Holders -> SUBSET Rows]
         /\ \A g \in Holders \ {h} : holding'[g] = holding[g]
  BY DEF ShapeInv, TakePending, Held

\* So is a batch that is sent.
LEMMA SendFacts ==
  ASSUME ShapeInv, NEW h \in Holders, SendRows(h)
  PROVE  /\ Held' \cup sent' = Held \cup sent
         /\ holding'[h] = {}
         /\ holding' \in [Holders -> SUBSET Rows]
         /\ \A g \in Holders \ {h} : holding'[g] = holding[g]
  BY DEF ShapeInv, SendRows, Held

\* A query that is running, so that Close does not believe it is over.
LEMMA RunningFacts ==
  ASSUME CollectorInv, NEW q \in Runs, query[q] \notin {"none"} \cup Ended
  PROVE  ~(last # "no" /\ timely)
  BY DEF CollectorInv, CloseInv, Running

\* Every step of a query keeps the invariant.
LEMMA QueryStep ==
  ASSUME CollectorInv, NEW q \in Runs, QueryNext(q)
  PROVE  CollectorInv'
  <1> USE DEF CollectorInv, Goto, schedVars, closeVars, stateVars
  <1>1. query[q] \notin {"none"} \cup Ended
    BY DEF QueryNext, BeginQuery, ScanRow, AddItem, DispatchFull, ResultsEnd, FlushTakes,
       FlushSends, Commit, Ended
  <1>2. ~(last # "no" /\ timely)
    BY <1>1, RunningFacts
  <1>3. UNCHANGED <<stateVars, schedVars, closeVars>>
    BY DEF QueryNext, BeginQuery, ScanRow, AddItem, DispatchFull, ResultsEnd, FlushTakes,
       FlushSends, Commit
  <1>4. CloseInv'
    BY <1>2, <1>3 DEF CloseInv
  <1>5. CASE BeginQuery(q) \/ ScanRow(q) \/ ResultsEnd(q) \/ Commit(q)
    <2> USE <1>5 DEF BeginQuery, ScanRow, ResultsEnd, Commit, rowVars
    <2>1. ShapeInv'
      BY DEF ShapeInv, Ended
    <2>2. RowInv'
      BY DEF RowInv, Added, Held
    <2>3. HoldInv'
      BY DEF HoldInv, ShapeInv
    <2> QED BY <1>4, <2>1, <2>2, <2>3
  <1>6. CASE AddItem(q)
    <2> DEFINE row == <<q, scanned[q] + 1>>
               batch == pending \cup {row}
               full == Cardinality(batch) >= BatchCount
    <2>1. /\ query[q] = "add"
          /\ query' = [query EXCEPT ![q] = IF full THEN "full" ELSE "rows"]
          /\ scanned' = [scanned EXCEPT ![q] = @ + 1]
          /\ pending' = IF full THEN {} ELSE batch
          /\ holding' = IF full THEN [holding EXCEPT ![q] = batch] ELSE holding
          /\ sent' = sent
      BY <1>6 DEF AddItem
    <2> HIDE DEF full
    <2>2. row \in Rows /\ MaxRows \in Nat
      BY <2>1, CollectorAssumption DEF ShapeInv, Rows, CollectorAssumption
    <2>3. q \in Holders /\ holding[q] = {}
      BY <2>1, HoldersDiffer DEF HoldInv
    <2>4. ShapeInv'
      <3>0. run' \in Nat /\ \A p \in Runs : p > run' => query'[p] = "none"
        BY <1>3, <2>1 DEF ShapeInv
      <3>1. query' \in [Runs -> {"none", "begin", "rows", "add", "full", "results", "error",
                         "flush", "flushError", "commit"} \cup Ended]
        BY <2>1 DEF ShapeInv
      <3>2. scanned' \in [Runs -> Nat]
            /\ \A p \in Runs : query'[p] = "add" => scanned'[p] < MaxRows
        BY <2>1 DEF ShapeInv
      <3>3. holding' \in [Holders -> SUBSET Rows] /\ pending' \subseteq Rows
        BY <2>1, <2>2, <2>3 DEF ShapeInv
      <3> QED BY <3>0, <3>1, <3>2, <3>3 DEF ShapeInv
    <2>5. Added' = Added \cup {row}
      <3>1. scanned[q] \in Nat /\ scanned'[q] = scanned[q] + 1
            /\ \A p \in Runs \ {q} : scanned'[p] = scanned[p]
        BY <2>1 DEF ShapeInv
      <3>2. ASSUME NEW r \in Rows
            PROVE  r[2] <= scanned'[r[1]] <=> r[2] <= scanned[r[1]] \/ r = row
        <4>1. r[1] \in Runs /\ r[2] \in 1..MaxRows /\ r = <<r[1], r[2]>>
          BY DEF Rows
        <4>2. r = row <=> r[1] = q /\ r[2] = scanned[q] + 1
          BY <4>1
        <4>3. r[2] \in Nat
          BY <4>1, <2>2
        <4> QED BY <3>1, <4>1, <4>2, <4>3
      <3> QED BY <2>2, <3>2 DEF Added
    <2>6. pending' \cup Held' = pending \cup Held \cup {row}
      <3>1. CASE full
        BY <2>1, <2>3, <3>1 DEF Held, ShapeInv
      <3>2. CASE ~full
        BY <2>1, <3>2 DEF Held
      <3> QED BY <3>1, <3>2
    <2>7. RowInv'
      BY <2>1, <2>5, <2>6 DEF RowInv
    <2>8. HoldInv'
      <3>1. CASE full
        BY <2>1, <2>3, <3>1, <1>3, HoldersDiffer DEF HoldInv, ShapeInv
      <3>2. CASE ~full
        BY <2>1, <2>3, <3>2, <1>3, HoldersDiffer DEF HoldInv, ShapeInv
      <3> QED BY <3>1, <3>2
    <2> QED BY <1>4, <2>4, <2>7, <2>8
  <1>7. CASE DispatchFull(q) \/ FlushSends(q)
    <2> USE <1>7 DEF DispatchFull, FlushSends
    <2>1. q \in Holders /\ SendRows(q) /\ UNCHANGED <<scanned, pending>>
      BY HoldersDiffer
    <2>2. ShapeInv'
      BY <2>1, SendFacts DEF ShapeInv, Ended
    <2>3. RowInv'
      BY <2>1, SendFacts DEF RowInv, Added
    <2>4. HoldInv'
      BY <2>1, <1>3, SendFacts, HoldersDiffer DEF HoldInv, ShapeInv
    <2> QED BY <1>4, <2>2, <2>3, <2>4
  <1>8. CASE FlushTakes(q)
    <2> USE <1>8 DEF FlushTakes
    <2>1. q \in Holders /\ holding[q] = {} /\ TakePending(q) /\ UNCHANGED <<scanned, sent>>
      BY HoldersDiffer DEF HoldInv
    <2>2. ShapeInv'
      BY <2>1, TakeFacts DEF ShapeInv, Ended
    <2>3. RowInv'
      BY <2>1, TakeFacts DEF RowInv, Added
    <2>4. HoldInv'
      BY <2>1, <1>3, TakeFacts, HoldersDiffer DEF HoldInv, ShapeInv
    <2> QED BY <1>4, <2>2, <2>3, <2>4
  <1> QED BY <1>5, <1>6, <1>7, <1>8 DEF QueryNext

\* Every step of the scheduler keeps the invariant: it is over before Close begins.
LEMMA SchedulerStep ==
  ASSUME CollectorInv, SchedulerNext \/ Interrupt
  PROVE  CollectorInv'
  <1> USE DEF CollectorInv, rowVars, closeVars, stateVars
  <1>1. UNCHANGED <<rowVars, closeVars, readers, closing, closed>>
    BY DEF SchedulerNext, Interrupt, NextInstance, ExecuteWithConcurrencyLimit,
       SchedulerStops, OneTimeEnds, CancelSchedule,
         ScheduleNext, InstanceDue, StopSleeping, StopAwaiting, Stop, AwaitCloseLock
  <1>2. RowInv'
    BY <1>1 DEF RowInv, Added, Held
  <1>3. CASE UNCHANGED query
    <2>1. HoldInv'
      BY <1>1, <1>3 DEF HoldInv
    <2>2. run' \in {run, run + 1}
      BY DEF SchedulerNext, Interrupt, NextInstance, ExecuteWithConcurrencyLimit,
         SchedulerStops, OneTimeEnds, CancelSchedule,
         ScheduleNext, InstanceDue, StopSleeping, StopAwaiting
    <2>3. ShapeInv'
      BY <1>1, <1>3, <2>2 DEF ShapeInv, Runs
    <2>4. CloseInv'
      BY <1>1, <1>3 DEF CloseInv, Running, SchedulerNext, Interrupt, NextInstance,
         ExecuteWithConcurrencyLimit, SchedulerStops, OneTimeEnds, CancelSchedule,
         ScheduleNext, InstanceDue, StopSleeping, StopAwaiting, Stop, AwaitCloseLock
    <2> QED BY <1>2, <2>1, <2>3, <2>4
  <1>4. CASE ExecuteWithConcurrencyLimit /\ query' = [query EXCEPT ![run + 1] = "begin"]
    <2> USE <1>4 DEF ExecuteWithConcurrencyLimit, InstanceDue
    <2>1. last = "no"
      BY DEF CloseInv
    <2>2. ShapeInv'
      <3>1. Runs \subseteq Nat
        BY DEF Runs
      <3>2. run' = run + 1 /\ \A q \in Runs : q # run + 1 => query'[q] = query[q]
        BY DEF ShapeInv
      <3>3. \A q \in Runs : q > run' => query'[q] = "none"
        BY <3>1, <3>2 DEF ShapeInv
      <3>4. query' \in [Runs -> {"none", "begin", "rows", "add", "full", "results", "error",
                         "flush", "flushError", "commit"} \cup Ended]
        BY DEF ShapeInv
      <3>5. \A q \in Runs : query'[q] = "add" => scanned[q] < MaxRows
        BY DEF ShapeInv
      <3> QED BY <1>1, <3>2, <3>3, <3>4, <3>5 DEF ShapeInv
    <2>3. CASE run + 1 \in Runs
      <3>1. holding[run + 1] = {}
        BY <2>3 DEF HoldInv, ShapeInv
      <3> QED BY <1>1, <1>2, <2>1, <2>2, <2>3, <3>1 DEF HoldInv, CloseInv, ShapeInv
    <2>4. CASE run + 1 \notin Runs
      BY <1>1, <1>2, <2>1, <2>2, <2>4 DEF HoldInv, CloseInv, ShapeInv
    <2> QED BY <2>3, <2>4
  <1>5. UNCHANGED query \/ (ExecuteWithConcurrencyLimit
                               /\ query' = [query EXCEPT ![run + 1] = "begin"])
    BY DEF SchedulerNext, Interrupt, NextInstance, ExecuteWithConcurrencyLimit,
       SchedulerStops, OneTimeEnds, CancelSchedule,
         ScheduleNext, InstanceDue, StopSleeping, StopAwaiting
  <1> QED BY <1>3, <1>4, <1>5

\* Every step of a timer's callback keeps the invariant: it has the read lock, or
\* Close is not done.
LEMMA TimerStep ==
  ASSUME CollectorInv, NEW t \in Timers, TimerNext(t)
  PROVE  CollectorInv'
  <1> USE DEF CollectorInv, schedVars, closeVars, stateVars
  <1>1. CASE TimerLocks(t)
    <2> USE <1>1 DEF TimerLocks, collectorVars
    <2>1. ShapeInv' /\ HoldInv'
      BY DEF ShapeInv, HoldInv
    <2>2. RowInv'
      BY DEF RowInv, Added, Held
    <2>3. CloseInv'
      BY DEF CloseInv, Running
    <2> QED BY <2>1, <2>2, <2>3
  <1>2. CASE TimerTakes(t)
    <2> USE <1>2 DEF TimerTakes
    <2>1. t \in Holders /\ holding[t] = {} /\ TakePending(t)
      BY HoldersDiffer
    <2>2. ShapeInv'
      BY <2>1, TakeFacts DEF ShapeInv
    <2>3. RowInv'
      BY <2>1, TakeFacts DEF RowInv, Added
    <2>4. HoldInv'
      BY <2>1, TakeFacts, HoldersDiffer DEF HoldInv
    <2>5. CloseInv'
      BY <2>1, TakeFacts DEF CloseInv, Running
    <2> QED BY <2>2, <2>3, <2>4, <2>5
  <1>3. CASE TimerEnds(t)
    <2> USE <1>3 DEF TimerEnds, RUnlock
    <2>1. t \in Holders /\ SendRows(t)
      BY HoldersDiffer
    <2>2. ShapeInv'
      BY <2>1, SendFacts DEF ShapeInv
    <2>3. RowInv'
      BY <2>1, SendFacts DEF RowInv, Added
    <2>4. HoldInv'
      BY <2>1, SendFacts, HoldersDiffer DEF HoldInv
    <2>5. CloseInv'
      BY DEF CloseInv, Running
    <2> QED BY <2>2, <2>3, <2>4, <2>5
  <1> QED BY <1>1, <1>2, <1>3 DEF TimerNext

\* Every step of Close keeps the invariant.
LEMMA CloseStep ==
  ASSUME CollectorInv, CloseNext
  PROVE  CollectorInv'
  <1> USE DEF CollectorInv, schedVars, rowVars, stateVars
  <1>1. CASE CloseBegins \/ GraceEnds \/ WaitEnds
    <2> USE <1>1 DEF CloseBegins, BeginClose, GraceEnds, WaitEnds, closeVars
    <2>1. ShapeInv'
      BY DEF ShapeInv
    <2>2. RowInv'
      BY DEF RowInv, Added, Held
    <2>3. HoldInv'
      BY DEF HoldInv
    <2>4. CloseInv'
      <3>1. Running' = Running
        BY DEF Running
      <3>2. CASE CloseBegins
        BY <3>1, <3>2 DEF CloseInv
      <3>3. CASE GraceEnds
        BY <3>1, <3>3 DEF CloseInv
      <3>4. CASE WaitEnds
        <4>1. timely' => Running' = {}
          BY <3>1, <3>4
        <4>2. sched' = "over" /\ closer' \in {"grace", "abort"} /\ ~closed' /\ last' = "wait"
          BY <3>4 DEF CloseInv
        <4> QED BY <4>1, <4>2 DEF CloseInv
      <3> QED BY <1>1, <3>2, <3>3, <3>4
    <2> QED BY <2>1, <2>2, <2>3, <2>4
  <1>2. CASE CloseFlushes
    <2> USE <1>2 DEF CloseFlushes
    <2>1. Closing \in Holders /\ holding[Closing] = {} /\ TakePending(Closing)
      BY HoldersDiffer DEF HoldInv
    <2>2. ShapeInv'
      BY <2>1, TakeFacts DEF ShapeInv
    <2>3. RowInv'
      BY <2>1, TakeFacts DEF RowInv, Added
    <2>4. HoldInv'
      BY <2>1, TakeFacts, HoldersDiffer DEF HoldInv
    <2>5. CloseInv'
      BY <2>1, TakeFacts DEF CloseInv, Running
    <2> QED BY <2>2, <2>3, <2>4, <2>5
  <1>3. CASE CloseReturns
    <2> USE <1>3 DEF CloseReturns, FinishClose
    <2>1. Closing \in Holders /\ SendRows(Closing)
      BY HoldersDiffer
    <2>2. ShapeInv'
      BY <2>1, SendFacts DEF ShapeInv
    <2>3. RowInv'
      BY <2>1, SendFacts DEF RowInv, Added
    <2>4. HoldInv'
      BY <2>1, SendFacts, HoldersDiffer DEF HoldInv
    <2>5. CloseInv'
      BY DEF CloseInv, Running
    <2> QED BY <2>2, <2>3, <2>4, <2>5
  <1> QED BY <1>1, <1>2, <1>3 DEF CloseNext

\* Every step keeps the invariant.
LEMMA StepInv == CollectorInv /\ [Next]_vars => CollectorInv'
  <1> SUFFICES ASSUME CollectorInv, [Next]_vars PROVE CollectorInv'
    OBVIOUS
  <1>1. CASE UNCHANGED vars
    BY <1>1 DEF vars, stateVars, schedVars, collectorVars, CollectorInv, ShapeInv, RowInv,
       Added, Held, HoldInv, CloseInv, Running
  <1> QED BY <1>1, SchedulerStep, QueryStep, TimerStep, CloseStep DEF Next

\* The inductive invariant holds in every state of the collector.
THEOREM Invariance == Spec => []CollectorInv
  BY InitInv, StepInv, PTL DEF Spec

\* For every instance, Done (the channel that Close closes last) means that all
\* collected rows reached the sender, if Close's waits saw the queries end.
THEOREM DoneIsSound == Spec => []DoneMeansHandedOver
  <1>1. CollectorInv => DoneMeansHandedOver
    <2> SUFFICES ASSUME CollectorInv, closed, timely PROVE sent = Added
      BY DEF DoneMeansHandedOver
    <2> USE DEF CollectorInv
    <2>1. pending = {} /\ readers = {} /\ Running = {} /\ last = "over"
      BY DEF CloseInv
    <2>2. \A h \in Holders : holding[h] = {}
      BY <2>1 DEF HoldInv, Holders, Running, Ended
    <2>3. Held = {}
      BY <2>2 DEF Held
    <2> QED BY <2>1, <2>3 DEF RowInv
  <1> QED BY <1>1, Invariance, PTL

(***************************************************************************)
(* A query has rows in the batcher only between its first row and its own  *)
(* flush, which takes whatever is pending.                                 *)
(***************************************************************************)
OwnerInv ==
  \A q \in Runs : query[q] \in {"none", "begin", "flush", "flushError", "commit"} \cup Ended
                  => \A r \in pending : r[1] # q

\* Every step keeps that.
LEMMA OwnerStep == CollectorInv /\ OwnerInv /\ [Next]_vars => OwnerInv'
  <1> SUFFICES ASSUME CollectorInv, OwnerInv, [Next]_vars PROVE OwnerInv'
    OBVIOUS
  <1> USE DEF rowVars, Goto
  <1>1. query \in [Runs -> {"none", "begin", "rows", "add", "full", "results", "error",
                           "flush", "flushError", "commit"} \cup Ended]
    BY DEF CollectorInv, ShapeInv
  <1>2. ASSUME NEW q \in Runs, QueryNext(q) PROVE OwnerInv'
    <2>1. CASE BeginQuery(q) \/ ScanRow(q) \/ ResultsEnd(q) \/ Commit(q)
      BY <1>1, <2>1 DEF BeginQuery, ScanRow, ResultsEnd, Commit, OwnerInv, Ended
    <2>2. CASE AddItem(q)
      <3>1. PICK next \in {"full", "rows"} : Goto(q, next)
        BY <2>2 DEF AddItem
      <3>2. pending' \subseteq pending \cup {<<q, scanned[q] + 1>>}
        BY <2>2 DEF AddItem
      <3>3. query'[q] = next /\ \A p \in Runs \ {q} : query'[p] = query[p]
        BY <1>1, <3>1
      <3>4. next \notin {"none", "begin", "flush", "flushError", "commit"} \cup Ended
        BY <3>1 DEF Ended
      <3> QED BY <3>2, <3>3, <3>4 DEF OwnerInv
    <2>3. CASE DispatchFull(q)
      BY <1>1, <2>3 DEF DispatchFull, OwnerInv, Ended
    <2>4. CASE FlushTakes(q)
      BY <2>4 DEF FlushTakes, TakePending, OwnerInv
    <2>5. CASE FlushSends(q)
      BY <1>1, <2>5 DEF FlushSends, OwnerInv, Ended
    <2> QED BY <1>2, <2>1, <2>2, <2>3, <2>4, <2>5 DEF QueryNext
  <1>3. CASE SchedulerNext \/ Interrupt
    <2>1. UNCHANGED pending
      BY <1>3 DEF SchedulerNext, Interrupt, NextInstance, ExecuteWithConcurrencyLimit,
         SchedulerStops, OneTimeEnds, CancelSchedule,
         ScheduleNext, InstanceDue, StopSleeping, StopAwaiting
    <2>2. UNCHANGED query \/ query' = [query EXCEPT ![run + 1] = "begin"]
      BY <1>3 DEF SchedulerNext, Interrupt, NextInstance, ExecuteWithConcurrencyLimit,
         SchedulerStops, OneTimeEnds, CancelSchedule,
         ScheduleNext, InstanceDue, StopSleeping, StopAwaiting
    <2>3. run + 1 \in Runs => query[run + 1] = "none"
      BY DEF CollectorInv, ShapeInv, Runs
    <2>4. \A q \in Runs : query'[q] = query[q]
                          \/ (query[q] = "none" /\ query'[q] = "begin")
      BY <1>1, <2>2, <2>3
    <2> QED BY <2>1, <2>4 DEF OwnerInv
  <1>4. CASE \E t \in Timers : TimerNext(t)
    <2>1. pending' \subseteq pending /\ UNCHANGED query
      BY <1>4 DEF TimerNext, TimerLocks, TimerTakes, TimerEnds, TakePending, collectorVars
    <2> QED BY <2>1 DEF OwnerInv
  <1>5. CASE CloseNext
    <2>1. pending' \subseteq pending /\ UNCHANGED query
      BY <1>5 DEF CloseNext, CloseBegins, GraceEnds, WaitEnds, CloseFlushes, CloseReturns,
         TakePending
    <2> QED BY <2>1 DEF OwnerInv
  <1>6. CASE UNCHANGED vars
    BY <1>6 DEF vars, collectorVars, OwnerInv
  <1> QED BY <1>2, <1>3, <1>4, <1>5, <1>6 DEF Next

\* For every instance, executeQuery leaves none of its rows in the shared batcher,
\* whether it commits or rolls back.
THEOREM EndedQueriesLeaveNothing == Spec => []EndedLeavesNothing
  <1>1. Init => OwnerInv
    BY DEF Init, OwnerInv
  <1>2. OwnerInv => EndedLeavesNothing
    BY DEF OwnerInv, EndedLeavesNothing
  <1> QED BY <1>1, <1>2, OwnerStep, Invariance, PTL DEF Spec

(***************************************************************************)
(* The type invariant, with the capacity of the semaphore.                 *)
(***************************************************************************)
TypeInv == TypeOK /\ (sched = "sleep" => run < MaxRuns)

\* The queries that hold the semaphore can be counted.
LEMMA RunningFinite == IsFiniteSet(Running) /\ Cardinality(Running) \in Nat
  <1>1. IsFiniteSet(Runs)
    BY FS_Interval, SchedulerAssumption DEF Runs
  <1>2. Running \subseteq Runs
    BY DEF Running
  <1> QED BY <1>1, <1>2, FS_Subset, FS_CardinalityType

\* Only executeWithConcurrencyLimit starts a query, and it respects the limit.
LEMMA CapacityStep ==
  ASSUME CollectorInv, TypeInv, [Next]_vars
  PROVE  Cardinality(Running') <= Concurrency
  <1>1. CASE ExecuteWithConcurrencyLimit /\ query' # query
    <2>1. /\ query' = [query EXCEPT ![run + 1] = "begin"]
          /\ ~(Cardinality(Running) >= Concurrency)
      BY <1>1 DEF ExecuteWithConcurrencyLimit
    <2>2. run + 1 \in Runs /\ query[run + 1] = "none"
      BY <1>1, SchedulerAssumption
      DEF ExecuteWithConcurrencyLimit, InstanceDue, TypeInv, TypeOK, SchedulerTypeOK,
          CollectorInv, ShapeInv, Runs
    <2>3. Running' = Running \cup {run + 1} /\ run + 1 \notin Running
      BY <2>1, <2>2 DEF Running, Ended, CollectorInv, ShapeInv
    <2>4. Cardinality(Running') = Cardinality(Running) + 1
      BY <2>3, RunningFinite, FS_AddElement
    <2> QED BY <2>1, <2>4, RunningFinite, CollectorAssumption
  <1>2. CASE ~(ExecuteWithConcurrencyLimit /\ query' # query)
    <2>1. Running' \subseteq Running
      <3>1. CASE query' = query
        BY <3>1 DEF Running
      <3>2. ASSUME NEW q \in Runs, QueryNext(q) PROVE Running' \subseteq Running
        <4>1. q \in Running
          BY <3>2 DEF QueryNext, BeginQuery, ScanRow, AddItem, DispatchFull, ResultsEnd,
             FlushTakes, FlushSends, Commit, Running, Ended
        <4>2. \A p \in Runs \ {q} : query'[p] = query[p]
          BY <3>2 DEF QueryNext, BeginQuery, ScanRow, AddItem, DispatchFull, ResultsEnd,
             FlushTakes, FlushSends, Commit, Goto, CollectorInv, ShapeInv
        <4> QED BY <4>1, <4>2 DEF Running
      <3>3. query' = query \/ \E q \in Runs : QueryNext(q)
        BY <1>2 DEF Next, SchedulerNext, Interrupt, NextInstance, SchedulerStops,
           OneTimeEnds, TimerNext, TimerLocks, TimerTakes, TimerEnds, CloseNext, CloseBegins,
           GraceEnds, WaitEnds, CloseFlushes, CloseReturns, collectorVars, vars
      <3> QED BY <3>1, <3>2, <3>3
    <2>2. Cardinality(Running') \in Nat /\ Cardinality(Running') <= Cardinality(Running)
      BY <2>1, RunningFinite, FS_Subset, FS_CardinalityType
    <2> QED BY <2>2, RunningFinite, CollectorAssumption DEF TypeInv, TypeOK
  <1> QED BY <1>1, <1>2

\* The lifecycle and the scheduler keep their types.
LEMMA LifecycleStep ==
  ASSUME TypeInv, [Next]_vars
  PROVE  /\ StateTypeOK(Timers)' /\ SchedulerTypeOK'
         /\ (sched = "sleep" => run < MaxRuns)'
         /\ timely' \in BOOLEAN /\ last' \in {"no", "wait", "held", "over"}
  <1> USE DEF TypeInv, TypeOK, StateTypeOK, SchedulerTypeOK, Closers, stateVars, schedVars,
          closeVars, collectorVars
  <1>1. CASE NextInstance
    <2>1. run' \in 0..MaxRuns /\ (sched' = "sleep" => run' < MaxRuns)
      BY <1>1, SchedulerAssumption DEF NextInstance, ScheduleNext, Stop
    <2> QED BY <1>1, <2>1 DEF NextInstance, ScheduleNext, Stop, AwaitCloseLock
  <1>2. CASE ExecuteWithConcurrencyLimit
    <2>1. run' \in 0..MaxRuns
      BY <1>2, SchedulerAssumption DEF ExecuteWithConcurrencyLimit, InstanceDue
    <2> QED BY <1>2, <2>1 DEF ExecuteWithConcurrencyLimit, InstanceDue
  <1>3. CASE Interrupt \/ SchedulerStops \/ OneTimeEnds
    BY <1>3 DEF Interrupt, CancelSchedule, SchedulerStops, StopSleeping, OneTimeEnds,
       StopAwaiting, Stop, AwaitCloseLock
  <1>4. ASSUME NEW q \in Runs, QueryNext(q)
        PROVE  UNCHANGED <<stateVars, schedVars, closeVars>>
    BY <1>4 DEF QueryNext, BeginQuery, ScanRow, AddItem, DispatchFull, ResultsEnd,
       FlushTakes, FlushSends, Commit
  <1>5. ASSUME NEW t \in Timers, TimerNext(t)
        PROVE  /\ UNCHANGED <<closer, closing, closed, schedVars, closeVars>>
               /\ readers' \subseteq Timers
    BY <1>5 DEF TimerNext, TimerLocks, TimerTakes, TimerEnds, RUnlock
  <1>6. CASE CloseNext
    BY <1>6 DEF CloseNext, CloseBegins, BeginClose, GraceEnds, WaitEnds, CloseFlushes,
       CloseReturns, FinishClose
  <1>7. CASE UNCHANGED vars
    BY <1>7 DEF vars
  <1> QED BY <1>1, <1>2, <1>3, <1>4, <1>5, <1>6, <1>7 DEF Next, SchedulerNext

\* Queries add no more rows than they have, and only rows are sent.
LEMMA RowsStep ==
  ASSUME CollectorInv, TypeInv, [Next]_vars
  PROVE  scanned' \in [Runs -> 0..MaxRows] /\ sent' \subseteq Rows
  <1> USE DEF TypeInv, TypeOK, rowVars
  <1>1. ASSUME NEW q \in Runs, AddItem(q)
        PROVE  scanned' \in [Runs -> 0..MaxRows] /\ sent' \subseteq Rows
    <2>1. scanned[q] \in 0..MaxRows /\ scanned[q] < MaxRows
      BY <1>1 DEF AddItem, CollectorInv, ShapeInv
    <2>2. scanned[q] + 1 \in 0..MaxRows
      BY <2>1, CollectorAssumption
    <2> QED BY <1>1, <2>2 DEF AddItem
  <1>2. ASSUME NEW q \in Runs, QueryNext(q), ~AddItem(q)
        PROVE  scanned' \in [Runs -> 0..MaxRows] /\ sent' \subseteq Rows
    BY <1>2, HoldersDiffer DEF QueryNext, BeginQuery, ScanRow, DispatchFull, ResultsEnd,
       FlushTakes, FlushSends, Commit, SendRows
  <1>3. ASSUME NEW t \in Timers, TimerNext(t)
        PROVE  scanned' \in [Runs -> 0..MaxRows] /\ sent' \subseteq Rows
    BY <1>3, HoldersDiffer DEF TimerNext, TimerLocks, TimerTakes, TimerEnds, SendRows,
       collectorVars
  <1>4. CASE CloseNext
    BY <1>4, HoldersDiffer DEF CloseNext, CloseBegins, GraceEnds, WaitEnds, CloseFlushes,
       CloseReturns, SendRows
  <1>5. CASE SchedulerNext \/ Interrupt \/ UNCHANGED vars
    BY <1>5 DEF SchedulerNext, Interrupt, NextInstance, ExecuteWithConcurrencyLimit,
       SchedulerStops, OneTimeEnds, collectorVars, vars
  <1> QED BY <1>1, <1>2, <1>3, <1>4, <1>5 DEF Next

\* Every variable keeps its type, and no more queries run at the same time than
\* executeWithConcurrencyLimit allows.
THEOREM TypeCorrect == Spec => []TypeOK
  <1>1. Init => TypeInv
    <2> SUFFICES ASSUME Init PROVE TypeInv
      OBVIOUS
    <2>1. Running = {}
      BY DEF Init, Running
    <2>2. Cardinality(Running) <= Concurrency
      BY <2>1, FS_EmptySet, CollectorAssumption
    <2>3. 0 \in 0..MaxRuns /\ 0 \in 0..MaxRows
      BY SchedulerAssumption, CollectorAssumption
    <2> QED
      BY <2>2, <2>3 DEF Init, SchedulerInit, StateInit, TypeInv, TypeOK, StateTypeOK,
         SchedulerTypeOK, Closers
  <1>2. CollectorInv /\ TypeInv /\ [Next]_vars => TypeInv'
    <2> SUFFICES ASSUME CollectorInv, TypeInv, [Next]_vars PROVE TypeInv'
      OBVIOUS
    <2>1. ShapeInv'
      BY StepInv DEF CollectorInv
    <2> QED
      BY <2>1, CapacityStep, LifecycleStep, RowsStep DEF TypeInv, TypeOK, ShapeInv
  <1>3. TypeInv => TypeOK
    BY DEF TypeInv
  <1> QED BY <1>1, <1>2, <1>3, Invariance, PTL DEF Spec
=============================================================================
