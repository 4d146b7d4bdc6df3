----------------------------- MODULE HTTPProofs -----------------------------
(***************************************************************************)
(* Proofs about the HTTP collector, and about the caches in which package  *)
(* http keeps the transports of its clients (pkg/http/client.go).          *)
(*                                                                         *)
(* HTTPCollector, for every schedule, concurrency limit and number of      *)
(* attempts: the type invariant with the capacity of the semaphore, that   *)
(* the collector implements Source, and that no attempt begins after Done. *)
(*                                                                         *)
(* FastCache and LeanCache, for any callers, keys, values and durations:   *)
(* what a call finds was there while the call ran, what LeanCache misses   *)
(* was missing then, and only writers change an unexpired item.            *)
(***************************************************************************)
EXTENDS HTTPCollector, Caches, FiniteSetTheorems, TLAPS

-----------------------------------------------------------------------------
(* The collector.                                                          *)

\* The scheduler starts requests in order, and only while Close was not called.
ScheduleKnown ==
  /\ sched = "sleep" => run < MaxRuns
  /\ \A q \in Runs : q > run => request[q] = "none"
  /\ sched = "over" <=> closer # "open"

\* How far Close has come, and what it waited for.
CloseKnown ==
  /\ closer \in {"open", "locking"} => ~closing
  /\ closer \in {"grace", "abort"} => closing /\ ~closed
  /\ closed <=> closer = "returned"
  /\ closed => closing /\ execCancelled
  /\ closed /\ timely => Running = {}
  /\ ~closed => timely

IInv == TypeOK /\ ScheduleKnown /\ CloseKnown

Stages == {"none", "try", "flight", "pause", "response"} \cup Ended

-----------------------------------------------------------------------------
\* The requests that hold the semaphore can be counted.
LEMMA RunningFinite == IsFiniteSet(Running) /\ Cardinality(Running) \in Nat
<1>1. IsFiniteSet(Runs)
  BY FS_Interval, SchedulerAssumption DEF Runs
<1>2. Running \subseteq Runs
  BY DEF Running
<1> QED BY <1>1, <1>2, FS_Subset, FS_CardinalityType

\* Requests that go on, or end, keep the semaphore within its capacity.
LEMMA StillWithinCapacity ==
  ASSUME TypeOK, Running' \subseteq Running
  PROVE  Cardinality(Running') <= Concurrency
<1>1. Cardinality(Running') \in Nat /\ Cardinality(Running') <= Cardinality(Running)
  BY RunningFinite, FS_Subset, FS_CardinalityType
<1> QED
  BY <1>1, RunningFinite, HTTPCollectorAssumption DEF TypeOK

\* One step of a request that the scheduler has started.
RequestStep(q) ==
  /\ request[q] \notin {"none"} \cup Ended
  /\ \E s \in Stages \ {"none"} : Goto(q, s)
  /\ UNCHANGED <<stateVars, schedVars, execCancelled, timely>>
  /\ attempt' \in [Runs -> 0..MaxAttempts]

\* A step of a request changes the request's own stage only.
LEMMA RequestSteps ==
  ASSUME TypeOK, NEW q \in Runs, RequestNext(q)
  PROVE  RequestStep(q)
<1> USE DEF Goto, TypeOK, Stages, Ended, RequestStep
<1>1. CASE Try(q)
  <2>1. attempt[q] \in 0..MaxAttempts /\ attempt[q] # MaxAttempts
    BY <1>1 DEF Try, NoMoreAttempts
  <2>2. attempt[q] + 1 \in 0..MaxAttempts
    BY <2>1, HTTPCollectorAssumption
  <2> QED BY <1>1, <2>2 DEF Try
<1>2. CASE GivesUp(q)
  BY <1>2 DEF GivesUp
<1>3. CASE Succeeds(q) \/ FailsForGood(q) \/ FailsForNow(q) \/ PauseEnds(q)
  BY <1>3 DEF Succeeds, FailsForGood, FailsForNow, PauseEnds
<1>4. CASE SendResponse(q)
  BY <1>4 DEF SendResponse
<1> QED BY <1>1, <1>2, <1>3, <1>4 DEF RequestNext

-----------------------------------------------------------------------------
\* Whatever a request does, the invariant holds.
LEMMA RequestKeepsInv ==
  ASSUME IInv, NEW q \in Runs, RequestStep(q)
  PROVE  IInv'
<1> USE DEF IInv, RequestStep, Goto
<1>1. request' \in [Runs -> Stages] /\ \A r \in Runs \ {q} : request'[r] = request[r]
  BY DEF TypeOK, Stages
<1>2. Running' \subseteq Running
  BY <1>1 DEF Running, TypeOK
<1>3. TypeOK'
  BY <1>1, <1>2, StillWithinCapacity
  DEF TypeOK, Stages, StateTypeOK, SchedulerTypeOK, stateVars, schedVars
<1>4. ScheduleKnown'
  BY <1>1 DEF ScheduleKnown, stateVars, schedVars
<1>5. CloseKnown'
  BY <1>2 DEF CloseKnown, stateVars, schedVars
<1> QED BY <1>3, <1>4, <1>5

\* requestWithConcurrencyLimit adds one request, if there is room for it.
LEMMA StartKeepsInv == IInv /\ RequestWithConcurrencyLimit => IInv'
<1> SUFFICES ASSUME IInv, RequestWithConcurrencyLimit PROVE IInv'
  OBVIOUS
<1> USE DEF IInv, RequestWithConcurrencyLimit, InstanceDue
<1>1. /\ run + 1 \in Runs /\ request[run + 1] = "none"
      /\ run' = run + 1 /\ run' \in 0..MaxRuns
      /\ \A q \in Runs : q > run + 1 => q > run
  BY SchedulerAssumption DEF ScheduleKnown, TypeOK, SchedulerTypeOK, Runs
<1>2. closer = "open" /\ ~closed
  BY DEF ScheduleKnown, CloseKnown
<1>3. /\ request' \in [Runs -> Stages]
      /\ Cardinality(Running') <= Concurrency
      /\ \A q \in Runs : q > run + 1 => request'[q] = "none"
  <2>1. CASE request' = request
    <3>1. Running' = Running
      BY <2>1 DEF Running
    <3> QED BY <1>1, <2>1, <3>1, StillWithinCapacity DEF TypeOK, Stages, ScheduleKnown
  <2>2. CASE request' # request
    <3>1. /\ request' = [request EXCEPT ![run + 1] = "try"]
          /\ ~(Cardinality(Running) >= Concurrency)
      BY <2>2
    <3>2. Running' = Running \cup {run + 1} /\ run + 1 \notin Running
      BY <1>1, <3>1 DEF Running, Ended, TypeOK
    <3>3. Cardinality(Running') = Cardinality(Running) + 1
      BY <3>2, RunningFinite, FS_AddElement
    <3>4. Cardinality(Running') <= Concurrency
      BY <3>1, <3>3, RunningFinite, HTTPCollectorAssumption
    <3>5. \A q \in Runs : q > run + 1 => request'[q] = "none"
      BY <1>1, <3>1, SchedulerAssumption
      DEF ScheduleKnown, TypeOK, SchedulerTypeOK, Runs
    <3> QED BY <1>1, <3>1, <3>4, <3>5 DEF TypeOK, Stages
  <2> QED BY <2>1, <2>2
<1>4. TypeOK'
  BY <1>1, <1>3 DEF TypeOK, Stages, StateTypeOK, SchedulerTypeOK, stateVars
<1>5. ScheduleKnown'
  BY <1>1, <1>2, <1>3 DEF ScheduleKnown, stateVars
<1>6. CloseKnown'
  BY <1>2 DEF CloseKnown, stateVars
<1> QED BY <1>4, <1>5, <1>6

\* All other steps leave the requests alone.
LEMMA OthersKeepInv ==
  ASSUME IInv,
         \/ Interrupt \/ NextInstance \/ SchedulerStops \/ OneTimeEnds
         \/ CloseNext \/ UNCHANGED vars
  PROVE  IInv'
<1> USE DEF IInv
<1>1. UNCHANGED requestVars
  BY DEF Interrupt, NextInstance, SchedulerStops, OneTimeEnds, CloseNext, CloseBegins,
         GraceEnds, CloseReturns, vars
<1>2. Running' = Running
  BY <1>1 DEF Running, requestVars
<1> USE DEF requestVars, stateVars, schedVars, StateTypeOK, SchedulerTypeOK, Closers,
            TypeOK, ScheduleKnown, CloseKnown
<1>3. CASE Interrupt
  BY <1>1, <1>2, <1>3 DEF Interrupt, CancelSchedule
<1>4. CASE NextInstance
  <2>1. run' \in 0..MaxRuns /\ \A q \in Runs : q > run' => q > run
    BY <1>4, SchedulerAssumption DEF NextInstance, ScheduleNext, Runs
  <2> QED
    BY <1>1, <1>2, <1>4, <2>1
    DEF NextInstance, ScheduleNext, Stop, AwaitCloseLock
<1>5. CASE SchedulerStops
  BY <1>1, <1>2, <1>5 DEF SchedulerStops, StopSleeping, Stop, AwaitCloseLock
<1>6. CASE OneTimeEnds
  BY <1>1, <1>2, <1>6 DEF OneTimeEnds, StopAwaiting, Stop, AwaitCloseLock
<1>7. CASE CloseBegins
  BY <1>1, <1>2, <1>7 DEF CloseBegins, BeginClose
<1>8. CASE GraceEnds
  BY <1>1, <1>2, <1>8 DEF GraceEnds
<1>9. CASE CloseReturns
  BY <1>1, <1>2, <1>9 DEF CloseReturns, FinishClose
<1>10. CASE UNCHANGED vars
  BY <1>1, <1>2, <1>10 DEF vars
<1> QED BY <1>3, <1>4, <1>5, <1>6, <1>7, <1>8, <1>9, <1>10 DEF CloseNext

\* The invariant holds before the collector starts.
LEMMA InitIInv == Init => IInv
<1> SUFFICES ASSUME Init PROVE IInv
  OBVIOUS
<1>1. Running = {}
  BY DEF Init, Running
<1>2. Cardinality(Running) <= Concurrency
  BY <1>1, FS_EmptySet, HTTPCollectorAssumption
<1>3. 0 \in 0..MaxRuns /\ 0 \in 0..MaxAttempts
  BY SchedulerAssumption, HTTPCollectorAssumption
<1> USE DEF Init, SchedulerInit, StateInit
<1>4. TypeOK
  BY <1>2, <1>3 DEF TypeOK, StateTypeOK, SchedulerTypeOK, Closers
<1>5. ScheduleKnown /\ CloseKnown
  BY <1>1 DEF ScheduleKnown, CloseKnown
<1> QED BY <1>4, <1>5 DEF IInv

\* The inductive invariant.
THEOREM Invariance == Spec => []IInv
<1>1. IInv /\ [Next]_vars => IInv'
  BY RequestSteps, RequestKeepsInv, StartKeepsInv, OthersKeepInv
  DEF IInv, Next, SchedulerNext
<1> QED BY InitIInv, <1>1, PTL DEF Spec

\* Every variable keeps its type, and no more requests run at the same time than
\* requestWithConcurrencyLimit allows.
THEOREM TypeCorrect == Spec => []TypeOK
<1>1. IInv => TypeOK
  BY DEF IInv
<1> QED BY Invariance, <1>1, PTL

-----------------------------------------------------------------------------
\* No attempt begins after Done (the check of execCtx in requestWithRetries).
THEOREM DoneEndsAttempts == Spec => NoAttemptAfterDone
<1>1. IInv /\ [Next]_vars => [closed => attempt' = attempt]_attempt
  <2> SUFFICES ASSUME IInv, [Next]_vars, closed PROVE attempt' = attempt
    OBVIOUS
  <2>1. execCancelled
    BY DEF IInv, CloseKnown
  <2>2. ASSUME NEW q \in Runs, RequestNext(q) PROVE attempt' = attempt
    BY <2>1, <2>2
    DEF RequestNext, GivesUp, Try, NoMoreAttempts, Succeeds, FailsForGood, FailsForNow,
        PauseEnds, SendResponse
  <2> QED
    BY <2>2
    DEF Next, SchedulerNext, CloseNext, Interrupt, NextInstance, SchedulerStops,
        OneTimeEnds, RequestWithConcurrencyLimit, CloseBegins, GraceEnds, CloseReturns,
        requestVars, vars
<1> QED BY <1>1, Invariance, PTL DEF Spec, NoAttemptAfterDone

-----------------------------------------------------------------------------
(* The collector implements Source.                                        *)

\* Nothing changes that main sees.
LEMMA Unseen ==
  ASSUME UNCHANGED <<closing, closed, timely>>, \A q \in Runs : Work(q)' = Work(q)
  PROVE  UNCHANGED AsSource!sourceVars
BY DEF AsSource!sourceVars

\* A request that has begun and not ended is work in hand.
LEMMA RunningIsWork ==
  ASSUME TypeOK
  PROVE  \A q \in Runs : Work(q) = "hand" <=> q \in Running
BY DEF TypeOK, Work, Running, Ended

\* The work that a request is changes, and nothing else that main sees.
LEMMA WorkChanges ==
  ASSUME NEW q \in Runs, NEW s, UNCHANGED <<closing, closed, timely>>, TypeOK,
         \E stage \in Stages : request' = [request EXCEPT ![q] = stage], Work(q)' = s
  PROVE  AsSource!Become(q, s)
<1>1. \A p \in Runs : p # q => Work(p)' = Work(p)
  BY DEF TypeOK, Work
<1> QED BY <1>1 DEF AsSource!Become

\* Every step is one of Source, or leaves unchanged what main sees of the collector.
LEMMA SourceStep == IInv /\ [Next]_vars => [AsSource!Next]_(AsSource!sourceVars)
<1> SUFFICES ASSUME IInv, [Next]_vars PROVE [AsSource!Next]_(AsSource!sourceVars)
  OBVIOUS
<1> DEFINE Goal == [AsSource!Next]_(AsSource!sourceVars)
<1> USE DEF IInv, requestVars, stateVars
<1>1. CASE Interrupt \/ NextInstance \/ SchedulerStops \/ OneTimeEnds \/ GraceEnds
  <2>1. UNCHANGED <<closing, closed, timely, request>>
    BY <1>1
    DEF Interrupt, CancelSchedule, NextInstance, ScheduleNext, SchedulerStops, StopSleeping,
        OneTimeEnds, StopAwaiting, GraceEnds, Stop, AwaitCloseLock
  <2> QED BY <2>1, Unseen DEF Work
<1>2. CASE RequestWithConcurrencyLimit
  <2>1. run + 1 \in Runs /\ request[run + 1] = "none"
    BY <1>2, SchedulerAssumption
    DEF RequestWithConcurrencyLimit, InstanceDue, ScheduleKnown, TypeOK, SchedulerTypeOK, Runs
  <2>2. UNCHANGED <<closing, closed, timely>> /\ ~closing /\ ~closed
    BY <1>2
    DEF RequestWithConcurrencyLimit, InstanceDue, ScheduleKnown, CloseKnown, TypeOK,
        StateTypeOK
  <2>3. CASE request' = request
    BY <2>2, <2>3, Unseen DEF Work
  <2>4. CASE request' = [request EXCEPT ![run + 1] = "try"]
    <3>1. PICK q \in Runs : q = run + 1
      BY <2>1
    <3>2. Work(q) = "new" /\ Work(q)' = "hand"
      BY <2>1, <2>4, <3>1 DEF TypeOK, Work
    <3>3. AsSource!Become(q, "hand")
      BY <2>2, <2>4, <3>1, <3>2, WorkChanges DEF Stages
    <3> QED BY <2>2, <3>2, <3>3 DEF AsSource!Take, AsSource!Next
  <2> QED BY <1>2, <2>3, <2>4 DEF RequestWithConcurrencyLimit
<1>3. CASE CloseBegins
  <2>1. \A q \in Runs : Work(q)' = Work(q)
    BY <1>3 DEF CloseBegins, Work
  <2>2. AsSource!BeginClose
    BY <1>3, <2>1 DEF CloseBegins, BeginClose, CloseKnown, AsSource!BeginClose
  <2> QED BY <2>2 DEF AsSource!Next
<1>4. CASE CloseReturns
  <2>1. \A q \in Runs : Work(q)' = Work(q)
    BY <1>4 DEF CloseReturns, Work
  <2>2. closing /\ ~closed /\ closing' /\ closed'
    BY <1>4 DEF CloseReturns, FinishClose, CloseKnown
  <2>3. ~timely' <=> \E q \in Runs : Work(q) = "hand"
    <3>1. timely
      BY <2>2 DEF CloseKnown
    <3>2. \/ Running = {} /\ timely' = timely
          \/ Running # {} /\ timely' = FALSE
      BY <1>4, Zenon DEF CloseReturns
    <3>3. ~timely' <=> Running # {}
      BY <3>1, <3>2, Zenon
    <3> QED BY <3>3, RunningIsWork DEF Running
  <2>4. AsSource!Done
    BY <2>1, <2>2, <2>3 DEF AsSource!Done
  <2> QED BY <2>4 DEF AsSource!Next
<1>5. ASSUME NEW q \in Runs, RequestNext(q) PROVE Goal
  <2>1. RequestStep(q)
    BY <1>5, RequestSteps
  <2>2. /\ UNCHANGED <<closing, closed, timely>> /\ Work(q) = "hand"
        /\ \E stage \in Stages : request' = [request EXCEPT ![q] = stage]
        /\ Work(q)' \in {"hand", "given", "void"}
    BY <2>1 DEF RequestStep, Goto, TypeOK, Work, Ended, Stages
  <2>3. AsSource!Become(q, Work(q)')
    BY <2>2, WorkChanges
  <2>4. CASE Work(q)' = "hand"
    <3>1. \A p \in Runs : Work(p)' = Work(p)
      BY <2>2, <2>4 DEF TypeOK, Work
    <3> QED BY <2>2, <3>1, Unseen
  <2>5. CASE Work(q)' = "given"
    BY <2>2, <2>3, <2>5 DEF AsSource!Give, AsSource!Next
  <2>6. CASE Work(q)' = "void"
    BY <2>2, <2>3, <2>6 DEF AsSource!Drop, AsSource!Next
  <2> QED BY <2>2, <2>4, <2>5, <2>6
<1>6. CASE UNCHANGED vars
  BY <1>6, Unseen DEF vars, Work
<1> QED
  BY <1>1, <1>2, <1>3, <1>4, <1>5, <1>6 DEF Next, SchedulerNext, CloseNext

\* No request begins once the collector closes, and after a Close that ended in time no
\* response is handed over to the sender or to the DLQ (the guarantee that shutdown in
\* main.go relies on).
THEOREM CollectorIsSource == Spec => ImplementsSource
<1>1. Init => AsSource!Init
  BY DEF Init, SchedulerInit, StateInit, Work, AsSource!Init
<1> QED BY <1>1, SourceStep, Invariance, PTL DEF Spec, ImplementsSource, AsSource!Spec

-----------------------------------------------------------------------------
(* The caches.                                                             *)

ItemType == [value : Values \cup {NoValue}, expiration : Int]

\* Where a call looks at the item that it has loaded, and where it removes an item
\* because that one has expired.
CheckSteps == {"addCheck", "replaceCheck", "itemCheck", "deleteCheck"}
RemoveSteps == {"addSwap", "replaceDelete", "itemDelete"}
Operations == {"set", "add", "replace", "item", "delete"}
\* Where Replace has found an item that had not expired.
ReplaceSteps == {"replaceExpire", "replaceSwap"}
CallSteps == Operations \cup CheckSteps \cup RemoveSteps \cup ReplaceSteps

CallType ==
  [step : CallSteps, key : Keys, new : ItemType, options : Options, actual : ItemType]

WorkerType ==
  {Waiting, [step |-> "over"]}
    \cup [step : {"range", "delete", "scan", "batch"}, time : Nat, left : SUBSET Keys,
          key : SUBSET Keys, actual : ItemType]

CacheType ==
  /\ now \in Nat
  /\ data \in [Keys -> ItemType]
  /\ call \in [Callers -> {Idle} \cup CallType]
  /\ worker \in WorkerType
  /\ seen = [c \in Callers |-> seen[c]]

FoundAt(d, time, k) ==
  IF d[k] # Absent /\ ~After(time, d[k]) THEN d[k].value ELSE NoValue

\* What a call knows: the values that its key has had, of which the present one is one;
\* that an item it has loaded was there unexpired, if it is unexpired now or was when
\* it was checked; and that an item it is about to remove has expired.
Knows(r, held, found, time) ==
  /\ found \in held
  /\ r.step \in CheckSteps /\ ~After(time, r.actual) => r.actual.value \in held
  /\ r.step \in ReplaceSteps => r.actual.value \in held
  /\ r.step \in RemoveSteps => After(time, r.actual)

CallOK(c) == call[c] # Idle => Knows(call[c], seen[c], FoundAt(data, now, call[c].key), now)

\* The time of the worker's tick is past, and so is the expiration of its item.
WorkerOK ==
  /\ worker \notin {Waiting, [step |-> "over"]} => worker.time <= now
  /\ worker.step = "delete" => After(worker.time, worker.actual)

CacheInv == CacheType /\ (\A c \in Callers : CallOK(c)) /\ WorkerOK

\* Calls have returned values that they have seen, or one of E.
Answers(E) == \A c \in Callers : answer[c] \subseteq seen[c] \cup E

\* The body of OnlyWritersChangeLive.
WritersOnly ==
  \A k \in Keys :
    Live(k) /\ data'[k] # data[k] =>
      \/ Clear
      \/ \E c \in Callers : /\ call[c] # Idle /\ call[c].key = k
                            /\ call[c].step \in {"set", "replace", "replaceSwap", "delete"}
                            /\ call'[c] # call[c]

\* An item that is not there.
LEMMA AbsentFacts == Absent \in ItemType /\ \A t \in Nat : ~After(t, Absent)
  BY DEF Absent, ItemType, After

\* A new item, with its expiration.
LEMMA NewItemType ==
  ASSUME now \in Nat, NEW options \in Options, NEW v \in Values \cup {NoValue}
  PROVE  /\ NewItem(v, options) \in ItemType /\ durationOptionToTime(options) \in Int
         /\ NewItem(v, options).value = v
  <1> DEFINE ttl == IF options = <<>> THEN DefaultTTL ELSE Head(options)
  <1>1. ttl \in Int
    <2>1. CASE options = <<>>
      BY <2>1, CacheAssumption DEF CacheAssumption
    <2>2. CASE \E t \in TTLs : options = <<t>>
      <3>1. PICK t \in TTLs : options = <<t>>
        BY <2>2
      <3>2. options # <<>> /\ Head(options) = t
        BY <3>1
      <3> QED BY <3>2, CacheAssumption DEF CacheAssumption
    <2> QED BY <2>1, <2>2 DEF Options
  <1> HIDE DEF ttl
  <1>2. durationOptionToTime(options) = IF ttl > 0 THEN now + ttl ELSE 0
    BY DEF durationOptionToTime, ttl
  <1>3. durationOptionToTime(options) \in Int
    BY <1>1, <1>2
  <1> QED BY <1>3 DEF NewItem, ItemType

\* What has expired stays expired.
LEMMA StillExpired ==
  ASSUME NEW item \in ItemType, NEW t \in Nat, NEW u \in Nat, t <= u, After(t, item)
  PROVE  After(u, item)
  <1>1. item.expiration \in Int
    BY DEF ItemType
  <1> QED BY <1>1 DEF After

\* A call that does nothing in a step knows what it did, and what the step changed.
LEMMA KnowsLater ==
  ASSUME NEW r \in CallType, NEW held, NEW found, NEW t \in Nat, Knows(r, held, found, t),
         NEW held2, NEW found2 \in held2, NEW u \in Nat, t <= u, held \subseteq held2
  PROVE  Knows(r, held2, found2, u)
  <1>1. r.actual \in ItemType
    BY DEF CallType
  <1>2. After(t, r.actual) => After(u, r.actual)
    BY <1>1, StillExpired
  <1> QED BY <1>2 DEF Knows

\* A call in progress sees the value of its key after every step.
LEMMA WatchFacts ==
  ASSUME Watch, NEW d \in Callers, call[d] # Idle
  PROVE  /\ seen[d] \subseteq seen'[d]
         /\ FoundAt(data', now', call[d].key) \in seen'[d]
  <1> DEFINE k == call[d].key
  <1>1. seen'[d] = seen[d] \cup {FoundAt(data', now', j) : j \in {k}}
    BY DEF Watch, Found, Live, Expired, FoundAt
  <1> QED BY <1>1

\* The calls that a step leaves alone.
LEMMA CallKept ==
  ASSUME CacheInv, NEW d \in Callers, call'[d] = call[d], now' \in Nat, now <= now', Watch
  PROVE  CallOK(d)'
  <1> SUFFICES ASSUME call[d] # Idle
               PROVE  Knows(call[d], seen'[d], FoundAt(data', now', call[d].key), now')
    BY DEF CallOK
  <1>1. call[d] \in CallType /\ now \in Nat
    BY DEF CacheInv, CacheType
  <1>2. Knows(call[d], seen[d], FoundAt(data, now, call[d].key), now)
    BY DEF CacheInv, CallOK
  <1>3. seen[d] \subseteq seen'[d] /\ FoundAt(data', now', call[d].key) \in seen'[d]
    BY WatchFacts
  <1> DEFINE r == call[d]
             h == seen[d]
             h2 == seen'[d]
             f == FoundAt(data, now, r.key)
             f2 == FoundAt(data', now', r.key)
  <1>4. r \in CallType /\ Knows(r, h, f, now) /\ h \subseteq h2 /\ f2 \in h2
    BY <1>1, <1>2, <1>3
  <1> HIDE DEF r, h, h2, f, f2
  <1>5. Knows(r, h2, f2, now')
    BY <1>1, <1>4, KnowsLater
  <1> QED BY <1>5 DEF r, h2, f2

\* seen is a function of the callers after every step.
LEMMA SeenShape ==
  ASSUME Watch
  PROVE  seen' = [c \in Callers |-> seen'[c]]
  BY DEF Watch

\* A call returns a result.
LEMMA ReturnFacts ==
  ASSUME CacheInv, NEW c \in Callers, call[c] # Idle, NEW result, Return(c, result), CallStep,
         data' \in [Keys -> ItemType], NEW E, result \subseteq seen[c] \cup E
  PROVE  CacheInv' /\ Answers(E)' /\ call'[c] # call[c]
  <1>1. call \in [Callers -> {Idle} \cup CallType] /\ now \in Nat /\ worker \in WorkerType
    BY DEF CacheInv, CacheType
  <1>2. /\ call' = [call EXCEPT ![c] = Idle] /\ answer' = [NoAnswer EXCEPT ![c] = result]
        /\ now' = now /\ worker' = worker /\ Watch
    BY DEF Return, CallStep
  <1>3. call'[c] = Idle /\ \A d \in Callers \ {c} : call'[d] = call[d]
    BY <1>1, <1>2
  <1>4. CacheType'
    <2>1. call' \in [Callers -> {Idle} \cup CallType]
      BY <1>1, <1>2
    <2> QED BY <1>1, <1>2, <2>1, SeenShape DEF CacheType
  <1>5. \A d \in Callers : CallOK(d)'
    <2>1. CallOK(c)'
      BY <1>3 DEF CallOK
    <2>2. ASSUME NEW d \in Callers \ {c} PROVE CallOK(d)'
      <3>1. call'[d] = call[d] /\ now' \in Nat /\ now <= now'
        BY <1>1, <1>2, <1>3
      <3> QED BY <1>2, <3>1, CallKept
    <2> QED BY <2>1, <2>2
  <1>6. WorkerOK'
    BY <1>2 DEF CacheInv, WorkerOK
  <1>7. Answers(E)'
    <2>1. answer'[c] = result /\ \A d \in Callers \ {c} : answer'[d] = {}
      BY <1>2 DEF NoAnswer
    <2>2. seen[c] \subseteq seen'[c]
      BY <1>2, WatchFacts
    <2>3. \A d \in Callers : answer'[d] \subseteq seen'[d] \cup E
      BY <2>1, <2>2
    <2> QED BY <2>3 DEF Answers
  <1> QED BY <1>3, <1>4, <1>5, <1>6, <1>7 DEF CacheInv

\* A call goes on, and knows what its next step needs.
LEMMA GoOnFacts ==
  ASSUME CacheInv, NEW c \in Callers, call[c] # Idle, NEW r \in CallType,
         call' = [call EXCEPT ![c] = r], answer' = NoAnswer, CallStep,
         data' \in [Keys -> ItemType], NEW E, r.key = call[c].key,
         r.step \in CheckSteps /\ ~After(now, r.actual) => r.actual.value \in seen[c],
         r.step \in ReplaceSteps => r.actual.value \in seen[c],
         r.step \in RemoveSteps => After(now, r.actual)
  PROVE  CacheInv' /\ Answers(E)' /\ call'[c] = r
  <1>1. call \in [Callers -> {Idle} \cup CallType] /\ now \in Nat /\ worker \in WorkerType
    BY DEF CacheInv, CacheType
  <1>2. now' = now /\ worker' = worker /\ Watch
    BY DEF CallStep
  <1>3. call'[c] = r /\ \A d \in Callers \ {c} : call'[d] = call[d]
    BY <1>1
  <1>4. CacheType'
    <2>1. call' \in [Callers -> {Idle} \cup CallType]
      BY <1>1
    <2> QED BY <1>1, <1>2, <2>1, SeenShape DEF CacheType
  <1>5. \A d \in Callers : CallOK(d)'
    <2>1. CallOK(c)'
      <3>1. seen[c] \subseteq seen'[c] /\ FoundAt(data', now', call[c].key) \in seen'[c]
        BY <1>2, WatchFacts
      <3>2. Knows(r, seen'[c], FoundAt(data', now', r.key), now)
        BY <3>1 DEF Knows
      <3> QED BY <1>2, <1>3, <3>2 DEF CallOK
    <2>2. ASSUME NEW d \in Callers \ {c} PROVE CallOK(d)'
      <3>1. call'[d] = call[d] /\ now' \in Nat /\ now <= now'
        BY <1>1, <1>2, <1>3
      <3> QED BY <1>2, <3>1, CallKept
    <2> QED BY <2>1, <2>2
  <1>6. WorkerOK'
    BY <1>2 DEF CacheInv, WorkerOK
  <1>7. Answers(E)'
    BY DEF Answers, NoAnswer
  <1> QED BY <1>3, <1>4, <1>5, <1>6, <1>7 DEF CacheInv

\* The clock, the worker and Clear: no call makes a step.
LEMMA OtherFacts ==
  ASSUME CacheInv, UNCHANGED call, answer' = NoAnswer, Watch, now' \in Nat, now <= now',
         data' \in [Keys -> ItemType], worker' \in WorkerType, WorkerOK', NEW E
  PROVE  CacheInv' /\ Answers(E)'
  <1>1. CacheType'
    BY SeenShape DEF CacheInv, CacheType
  <1>2. ASSUME NEW d \in Callers PROVE CallOK(d)'
    BY CallKept
  <1>3. Answers(E)'
    BY DEF Answers, NoAnswer
  <1> QED BY <1>1, <1>2, <1>3 DEF CacheInv

\* A call begins.
LEMMA CallFacts ==
  ASSUME CacheInv, NEW c \in Callers, NEW op \in Operations, NEW k \in Keys,
         NEW new \in ItemType, NEW options \in Options, Call(c, op, k, new, options), NEW E
  PROVE  CacheInv' /\ Answers(E)' /\ UNCHANGED data
  <1> DEFINE r == [step |-> op, key |-> k, new |-> new, options |-> options, actual |-> Absent]
  <1>1. /\ call' = [call EXCEPT ![c] = r] /\ seen' = [seen EXCEPT ![c] = {Found(k)}]
        /\ answer' = NoAnswer /\ UNCHANGED <<now, data, worker>>
    BY DEF Call
  <1>2. r \in CallType /\ r.step = op /\ r.key = k
    BY AbsentFacts DEF CallType, CallSteps
  <1> HIDE DEF r
  <1>3. call \in [Callers -> {Idle} \cup CallType] /\ seen = [d \in Callers |-> seen[d]]
    BY DEF CacheInv, CacheType
  <1>4. CacheType'
    <2>1. call' \in [Callers -> {Idle} \cup CallType]
      BY <1>1, <1>2, <1>3
    <2>2. seen' = [d \in Callers |-> seen'[d]]
      BY <1>1, <1>3
    <2> QED BY <1>1, <2>1, <2>2 DEF CacheInv, CacheType
  <1>5. /\ call'[c] = r /\ seen'[c] = {FoundAt(data, now, k)}
        /\ \A d \in Callers \ {c} : call'[d] = call[d] /\ seen'[d] = seen[d]
    BY <1>1, <1>3 DEF Found, Live, Expired, FoundAt
  <1>6. \A d \in Callers : CallOK(d)'
    <2>1. CallOK(c)'
      <3>1. op \notin CheckSteps /\ op \notin RemoveSteps /\ op \notin ReplaceSteps
        BY DEF Operations, CheckSteps, RemoveSteps, ReplaceSteps
      <3>2. Knows(r, {FoundAt(data, now, k)}, FoundAt(data, now, k), now)
        BY <1>2, <3>1 DEF Knows
      <3> QED BY <1>1, <1>2, <1>5, <3>2 DEF CallOK
    <2>2. ASSUME NEW d \in Callers \ {c} PROVE CallOK(d)'
      <3>1. CallOK(d)
        BY DEF CacheInv
      <3> QED BY <1>1, <1>5, <3>1 DEF CallOK
    <2> QED BY <2>1, <2>2
  <1>7. WorkerOK' /\ Answers(E)'
    BY <1>1 DEF CacheInv, WorkerOK, Answers, NoAnswer
  <1> QED BY <1>1, <1>4, <1>6, <1>7 DEF CacheInv

StepTo(r, st) == [r EXCEPT !.step = st]

Loaded(r, st, item) == [r EXCEPT !.step = st, !.actual = item]

\* A call at another step, and with another item.
LEMMA StepToFacts ==
  ASSUME NEW r \in CallType, NEW st \in CallSteps
  PROVE  /\ StepTo(r, st) \in CallType
         /\ StepTo(r, st).step = st /\ StepTo(r, st).key = r.key
         /\ StepTo(r, st).actual = r.actual
  BY DEF StepTo, CallType

\* A call that loads an item has it in hand at its next step.
LEMMA LoadedFacts ==
  ASSUME NEW r \in CallType, NEW st \in CallSteps, NEW item \in ItemType
  PROVE  /\ Loaded(r, st, item) \in CallType
         /\ Loaded(r, st, item).step = st /\ Loaded(r, st, item).key = r.key
         /\ Loaded(r, st, item).actual = item
  BY DEF Loaded, CallType

\* What a call that is not idle is.
LEMMA AtFacts ==
  ASSUME CacheInv, NEW c \in Callers, NEW st \in CallSteps, At(c, st)
  PROVE  /\ call[c] # Idle /\ call[c] \in CallType /\ call[c].step = st
         /\ call[c].key \in Keys /\ call[c].actual \in ItemType /\ call[c].new \in ItemType
         /\ call[c].options \in Options
         /\ data[call[c].key] \in ItemType /\ now \in Nat
         /\ Knows(call[c], seen[c], FoundAt(data, now, call[c].key), now)
  <1>1. st # "idle"
    BY DEF CallSteps, Operations, CheckSteps, RemoveSteps, ReplaceSteps
  <1>2. call[c] # Idle
    BY <1>1 DEF At, Idle
  <1>3. call[c] \in CallType /\ data \in [Keys -> ItemType] /\ now \in Nat
    BY <1>2 DEF CacheInv, CacheType
  <1>4. /\ call[c].key \in Keys /\ call[c].actual \in ItemType /\ call[c].new \in ItemType
        /\ call[c].options \in Options
    BY <1>3 DEF CallType
  <1>5. Knows(call[c], seen[c], FoundAt(data, now, call[c].key), now)
    BY <1>2 DEF CacheInv, CallOK
  <1> QED BY <1>2, <1>3, <1>4, <1>5 DEF At

\* The map after an item was stored.
LEMMA StoreFacts ==
  ASSUME CacheInv, NEW k \in Keys, NEW item \in ItemType, Store(k, item)
  PROVE  data' \in [Keys -> ItemType] /\ \A j \in Keys \ {k} : data'[j] = data[j]
  BY DEF CacheInv, CacheType, Store

\* The map is the same.
LEMMA DataKept ==
  ASSUME CacheInv, UNCHANGED data
  PROVE  data' \in [Keys -> ItemType] /\ WritersOnly
  BY DEF CacheInv, CacheType, WritersOnly

\* One key changes, whose item has expired or was not there.
LEMMA DeadChanged ==
  ASSUME NEW k \in Keys, ~Live(k), \A j \in Keys \ {k} : data'[j] = data[j]
  PROVE  WritersOnly
  <1> SUFFICES ASSUME NEW j \in Keys, Live(j), data'[j] # data[j] PROVE FALSE
    BY DEF WritersOnly
  <1>1. j = k
    OBVIOUS
  <1> QED BY <1>1

\* One key changes, in a call that may.
LEMMA WriterChanged ==
  ASSUME NEW c \in Callers, call[c] # Idle, call'[c] # call[c],
         call[c].step \in {"set", "replace", "replaceSwap", "delete"},
         \A j \in Keys \ {call[c].key} : data'[j] = data[j]
  PROVE  WritersOnly
  BY DEF WritersOnly

\* A call returns without a change of the map.
LEMMA JustReturns ==
  ASSUME CacheInv, NEW c \in Callers, call[c] # Idle, NEW result, Return(c, result), CallStep,
         UNCHANGED data, NEW E, result \subseteq seen[c] \cup E
  PROVE  CacheInv' /\ Answers(E)' /\ WritersOnly
  BY DataKept, ReturnFacts

\* A call goes to another step with what it has.
LEMMA JustGoesOn ==
  ASSUME CacheInv, NEW c \in Callers, NEW st \in CallSteps, At(c, st), NEW next \in CallSteps,
         GoOn(c, next), CallStep, UNCHANGED data, NEW E,
         next \notin CheckSteps,
         next \in ReplaceSteps => call[c].actual.value \in seen[c],
         next \in RemoveSteps => After(now, call[c].actual)
  PROVE  CacheInv' /\ Answers(E)' /\ WritersOnly
  <1> DEFINE r == StepTo(call[c], next)
  <1>1. call[c] # Idle /\ call[c] \in CallType
    BY AtFacts
  <1>2. /\ r \in CallType /\ r.step = next /\ r.key = call[c].key /\ r.actual = call[c].actual
    BY <1>1, StepToFacts
  <1>3. call' = [call EXCEPT ![c] = r] /\ answer' = NoAnswer
    BY Zenon DEF GoOn, StepTo
  <1> HIDE DEF r
  <1>4. data' \in [Keys -> ItemType] /\ WritersOnly
    BY DataKept
  <1>5. CacheInv' /\ Answers(E)'
    BY <1>1, <1>2, <1>3, <1>4, GoOnFacts
  <1> QED BY <1>4, <1>5

\* A call goes on with a new item that expires at another time.
LEMMA JustExpires ==
  ASSUME CacheInv, NEW c \in Callers, NEW st \in CallSteps, At(c, st),
         NEW next \in ReplaceSteps, NEW e \in Int, Expires(c, e, next), CallStep,
         UNCHANGED data, NEW E, call[c].actual.value \in seen[c]
  PROVE  CacheInv' /\ Answers(E)' /\ WritersOnly
  <1> DEFINE n == [call[c].new EXCEPT !.expiration = e]
             r == [call[c] EXCEPT !.step = next, !.new = n]
  <1>1. call[c] # Idle /\ call[c] \in CallType /\ call[c].new \in ItemType
    BY AtFacts
  <1>2. n \in ItemType
    BY <1>1 DEF ItemType
  <1>3. call' = [call EXCEPT ![c] = r] /\ answer' = NoAnswer
    BY <1>1 DEF Expires, CallType
  <1> HIDE DEF n
  <1>4. /\ r \in CallType /\ r.step = next /\ r.key = call[c].key /\ r.actual = call[c].actual
        /\ next \notin CheckSteps /\ next \notin RemoveSteps
    BY <1>1, <1>2 DEF CallType, CallSteps, CheckSteps, RemoveSteps, ReplaceSteps
  <1> HIDE DEF r
  <1>5. data' \in [Keys -> ItemType] /\ WritersOnly
    BY DataKept
  <1>6. CacheInv' /\ Answers(E)'
    BY <1>1, <1>3, <1>4, <1>5, GoOnFacts
  <1> QED BY <1>5, <1>6

\* A call goes to a step where it checks the item that the map has, or had.
LEMMA LoadsItem ==
  ASSUME CacheInv, NEW c \in Callers, NEW st \in CallSteps, At(c, st), NEW next \in CheckSteps,
         GotoWith(c, next), CallStep, data' \in [Keys -> ItemType], NEW E,
         data[call[c].key] # Absent
  PROVE  CacheInv' /\ Answers(E)' /\ call'[c].step = next
  <1> DEFINE item == data[call[c].key]
             r == Loaded(call[c], next, item)
  <1>1. /\ call[c] # Idle /\ call[c] \in CallType /\ item \in ItemType
        /\ Knows(call[c], seen[c], FoundAt(data, now, call[c].key), now)
    BY AtFacts
  <1>2. next \in CallSteps /\ next \notin ReplaceSteps /\ next \notin RemoveSteps
    BY DEF CallSteps, CheckSteps, RemoveSteps, ReplaceSteps
  <1>3. ~After(now, item) => item.value \in seen[c]
    BY <1>1 DEF Knows, FoundAt
  <1>4. call' = [call EXCEPT ![c] = Loaded(call[c], next, item)] /\ answer' = NoAnswer
    BY Zenon DEF GotoWith, Loaded
  <1> HIDE DEF item
  <1>5. r \in CallType /\ r.step = next /\ r.key = call[c].key /\ r.actual = item
    BY <1>1, <1>2, LoadedFacts
  <1>6. call' = [call EXCEPT ![c] = r]
    BY <1>4
  <1> HIDE DEF r
  <1>7. CacheInv' /\ Answers(E)' /\ call'[c] = r
    BY <1>1, <1>2, <1>3, <1>4, <1>5, <1>6, GoOnFacts
  <1> QED BY <1>5, <1>7

-----------------------------------------------------------------------------
(* FastCache.                                                              *)

\* Set, and the loop of Add.
LEMMA FastAdds ==
  ASSUME CacheInv, NEW c \in Callers, FastSet(c) \/ LoadOrStore(c) \/ AddChecks(c) \/ AddSwaps(c)
  PROVE  CacheInv' /\ Answers({NoValue})' /\ WritersOnly
  <1> DEFINE k == call[c].key
             item == call[c].actual
             E == {NoValue}
  <1> USE DEF CallSteps, Operations, CheckSteps, RemoveSteps, ReplaceSteps
  <1>1. CASE FastSet(c)
    <2>1. At(c, "set") /\ Store(k, call[c].new) /\ Return(c, {}) /\ CallStep
      BY <1>1 DEF FastSet
    <2>2. call[c] # Idle /\ call[c].step = "set" /\ k \in Keys /\ call[c].new \in ItemType
      BY <2>1, AtFacts
    <2>3. data' \in [Keys -> ItemType] /\ \A j \in Keys \ {k} : data'[j] = data[j]
      BY <2>1, <2>2, StoreFacts
    <2>4. {} \subseteq seen[c] \cup E
      OBVIOUS
    <2>5. CacheInv' /\ Answers(E)' /\ call'[c] # call[c]
      BY <2>1, <2>2, <2>3, <2>4, ReturnFacts
    <2> QED BY <2>2, <2>3, <2>5, WriterChanged
  <1>2. CASE LoadOrStore(c)
    <2>1. At(c, "add") /\ CallStep
      BY <1>2 DEF LoadOrStore
    <2>2. call[c] # Idle /\ k \in Keys /\ call[c].new \in ItemType
      BY <2>1, AtFacts
    <2>3. CASE data[k] = Absent
      <3>1. Store(k, call[c].new) /\ Return(c, {})
        BY <1>2, <2>3 DEF LoadOrStore
      <3>2. data' \in [Keys -> ItemType] /\ \A j \in Keys \ {k} : data'[j] = data[j]
        BY <2>2, <3>1, StoreFacts
      <3>3. {} \subseteq seen[c] \cup E
        OBVIOUS
      <3>4. CacheInv' /\ Answers(E)'
        BY <2>1, <2>2, <3>1, <3>2, <3>3, ReturnFacts
      <3>5. ~Live(k)
        BY <2>3 DEF Live
      <3> QED BY <2>2, <3>2, <3>4, <3>5, DeadChanged
    <2>4. CASE data[k] # Absent
      <3>1. GotoWith(c, "addCheck") /\ UNCHANGED data
        BY <1>2, <2>4 DEF LoadOrStore
      <3>2. data' \in [Keys -> ItemType] /\ WritersOnly
        BY <3>1, DataKept
      <3>3. CacheInv' /\ Answers(E)'
        BY <2>1, <2>4, <3>1, <3>2, LoadsItem
      <3> QED BY <3>2, <3>3
    <2> QED BY <2>3, <2>4
  <1>3. CASE AddChecks(c)
    <2>1. At(c, "addCheck") /\ UNCHANGED data /\ CallStep
      BY <1>3 DEF AddChecks
    <2>2. /\ call[c] # Idle /\ call[c].step = "addCheck"
          /\ Knows(call[c], seen[c], FoundAt(data, now, k), now)
      BY <2>1, AtFacts
    <2>3. CASE After(now, item)
      <3>1. GoOn(c, "addSwap")
        BY <1>3, <2>3 DEF AddChecks, Expired
      <3> QED BY <2>1, <2>3, <3>1, JustGoesOn
    <2>4. CASE ~After(now, item)
      <3>1. Return(c, {item.value})
        BY <1>3, <2>4 DEF AddChecks, Expired
      <3>2. {item.value} \subseteq seen[c] \cup E
        BY <2>2, <2>4 DEF Knows
      <3> QED BY <2>1, <2>2, <3>1, <3>2, JustReturns
    <2> QED BY <2>3, <2>4
  <1>4. CASE AddSwaps(c)
    <2>1. At(c, "addSwap") /\ CallStep
      BY <1>4 DEF AddSwaps
    <2>2. /\ call[c] # Idle /\ call[c].step = "addSwap" /\ k \in Keys /\ call[c].new \in ItemType
          /\ Knows(call[c], seen[c], FoundAt(data, now, k), now)
      BY <2>1, AtFacts
    <2>3. CASE data[k] = item /\ Store(k, call[c].new) /\ Return(c, {})
      <3>1. data' \in [Keys -> ItemType] /\ \A j \in Keys \ {k} : data'[j] = data[j]
        BY <2>2, <2>3, StoreFacts
      <3>2. {} \subseteq seen[c] \cup E
        OBVIOUS
      <3>3. CacheInv' /\ Answers(E)'
        BY <2>1, <2>2, <2>3, <3>1, <3>2, ReturnFacts
      <3>4. ~Live(k)
        BY <2>2, <2>3 DEF Live, Expired, Knows
      <3> QED BY <2>2, <3>1, <3>3, <3>4, DeadChanged
    <2>4. CASE GoOn(c, "add") /\ UNCHANGED data
      BY <2>1, <2>4, JustGoesOn
    <2> QED BY <1>4, <2>3, <2>4 DEF AddSwaps, CompareAndSwap
  <1> QED BY <1>1, <1>2, <1>3, <1>4

\* CompareAndDelete of an item that has expired.
LEMMA ExpiredDeleted ==
  ASSUME CacheInv, NEW k \in Keys, NEW item, After(now, item), CompareAndDelete(k, item)
  PROVE  data' \in [Keys -> ItemType] /\ WritersOnly
  <1>1. CASE data[k] = item
    <2>1. Store(k, Absent)
      BY <1>1 DEF CompareAndDelete, Store
    <2>2. data' \in [Keys -> ItemType] /\ \A j \in Keys \ {k} : data'[j] = data[j]
      BY <2>1, AbsentFacts, StoreFacts
    <2>3. ~Live(k)
      BY <1>1 DEF Live, Expired
    <2> QED BY <2>2, <2>3, DeadChanged
  <1>2. CASE data[k] # item
    <2>1. UNCHANGED data
      BY <1>2 DEF CompareAndDelete
    <2> QED BY <2>1, DataKept
  <1> QED BY <1>1, <1>2

\* The loop of Replace.
LEMMA FastReplaces ==
  ASSUME CacheInv, NEW c \in Callers,
         \/ ReplaceLoads(c) \/ ReplaceChecks(c) \/ ReplaceDeletes(c)
         \/ ReplaceExpires(c) \/ ReplaceSwaps(c)
  PROVE  CacheInv' /\ Answers({NoValue})' /\ WritersOnly
  <1> DEFINE k == call[c].key
             item == call[c].actual
             E == {NoValue}
  <1> USE DEF CallSteps, Operations, CheckSteps, RemoveSteps, ReplaceSteps
  <1>0. {NoValue} \subseteq seen[c] \cup E
    OBVIOUS
  <1>1. CASE ReplaceLoads(c)
    <2>1. At(c, "replace") /\ CallStep /\ UNCHANGED data
      BY <1>1 DEF ReplaceLoads
    <2>2. call[c] # Idle
      BY <2>1, AtFacts
    <2>3. CASE data[k] = Absent
      <3>1. Return(c, {NoValue})
        BY <1>1, <2>3 DEF ReplaceLoads
      <3> QED BY <1>0, <2>1, <2>2, <3>1, JustReturns
    <2>4. CASE data[k] # Absent
      <3>1. GotoWith(c, "replaceCheck")
        BY <1>1, <2>4 DEF ReplaceLoads
      <3>2. data' \in [Keys -> ItemType] /\ WritersOnly
        BY <2>1, DataKept
      <3>3. CacheInv' /\ Answers(E)'
        BY <2>1, <2>4, <3>1, <3>2, LoadsItem
      <3> QED BY <3>2, <3>3
    <2> QED BY <2>3, <2>4
  <1>2. CASE ReplaceChecks(c)
    <2>1. At(c, "replaceCheck") /\ CallStep /\ UNCHANGED data
      BY <1>2 DEF ReplaceChecks
    <2>2. /\ call[c].step = "replaceCheck" /\ item \in ItemType
          /\ Knows(call[c], seen[c], FoundAt(data, now, k), now)
      BY <2>1, AtFacts
    <2>3. CASE After(now, item)
      <3>1. GoOn(c, "replaceDelete")
        BY <1>2, <2>3 DEF ReplaceChecks, Expired
      <3> QED BY <2>1, <2>3, <3>1, JustGoesOn
    <2>4. CASE ~After(now, item)
      <3>1. PICK next \in ReplaceSteps : Expires(c, item.expiration, next)
        BY <1>2, <2>4 DEF ReplaceChecks, Expired
      <3>2. item.value \in seen[c] /\ item.expiration \in Int
        BY <2>2, <2>4 DEF Knows, ItemType
      <3> QED BY <2>1, <3>1, <3>2, JustExpires
    <2> QED BY <2>3, <2>4
  <1>3. CASE ReplaceExpires(c)
    <2>1. At(c, "replaceExpire") /\ CallStep /\ UNCHANGED data
      BY <1>3 DEF ReplaceExpires
    <2>2. /\ call[c].step = "replaceExpire" /\ call[c].options \in Options
          /\ Knows(call[c], seen[c], FoundAt(data, now, k), now) /\ now \in Nat
      BY <2>1, AtFacts
    <2>3. Expires(c, durationOptionToTime(call[c].options), "replaceSwap")
      BY <1>3 DEF ReplaceExpires
    <2>4. durationOptionToTime(call[c].options) \in Int
      BY <2>2, NewItemType
    <2>5. item.value \in seen[c]
      BY <2>2 DEF Knows
    <2> QED BY <2>1, <2>3, <2>4, <2>5, JustExpires
  <1>4. CASE ReplaceDeletes(c)
    <2>1. At(c, "replaceDelete") /\ CompareAndDelete(k, item) /\ Return(c, {NoValue}) /\ CallStep
      BY <1>4 DEF ReplaceDeletes
    <2>2. /\ call[c] # Idle /\ call[c].step = "replaceDelete" /\ k \in Keys
          /\ Knows(call[c], seen[c], FoundAt(data, now, k), now)
      BY <2>1, AtFacts
    <2>3. After(now, item)
      BY <2>2 DEF Knows
    <2>4. data' \in [Keys -> ItemType] /\ WritersOnly
      BY <2>1, <2>2, <2>3, ExpiredDeleted
    <2>5. CacheInv' /\ Answers(E)'
      BY <1>0, <2>1, <2>2, <2>4, ReturnFacts
    <2> QED BY <2>4, <2>5
  <1>5. CASE ReplaceSwaps(c)
    <2>1. At(c, "replaceSwap") /\ CallStep
      BY <1>5 DEF ReplaceSwaps
    <2>2. /\ call[c] # Idle /\ call[c].step = "replaceSwap" /\ k \in Keys
          /\ call[c].new \in ItemType
          /\ Knows(call[c], seen[c], FoundAt(data, now, k), now)
      BY <2>1, AtFacts
    <2>3. CASE Store(k, call[c].new) /\ Return(c, {item.value})
      <3>1. data' \in [Keys -> ItemType] /\ \A j \in Keys \ {k} : data'[j] = data[j]
        BY <2>2, <2>3, StoreFacts
      <3>2. {item.value} \subseteq seen[c] \cup E
        BY <2>2 DEF Knows
      <3>3. CacheInv' /\ Answers(E)' /\ call'[c] # call[c]
        BY <2>1, <2>2, <2>3, <3>1, <3>2, ReturnFacts
      <3> QED BY <2>2, <3>1, <3>3, WriterChanged
    <2>4. CASE GoOn(c, "replace") /\ UNCHANGED data
      BY <2>1, <2>4, JustGoesOn
    <2> QED BY <1>5, <2>3, <2>4 DEF ReplaceSwaps, CompareAndSwap
  <1> QED BY <1>1, <1>2, <1>3, <1>4, <1>5

\* Item and Delete.
LEMMA FastItemDelete ==
  ASSUME CacheInv, NEW c \in Callers,
         ItemLoads(c) \/ ItemChecks(c) \/ ItemDeletes(c) \/ FastDelete(c) \/ DeleteChecks(c)
  PROVE  CacheInv' /\ Answers({NoValue})' /\ WritersOnly
  <1> DEFINE k == call[c].key
             item == call[c].actual
             E == {NoValue}
  <1> USE DEF CallSteps, Operations, CheckSteps, RemoveSteps, ReplaceSteps
  <1>0. {NoValue} \subseteq seen[c] \cup E
    OBVIOUS
  <1>1. CASE ItemLoads(c)
    <2>1. At(c, "item") /\ CallStep /\ UNCHANGED data
      BY <1>1 DEF ItemLoads
    <2>2. call[c] # Idle
      BY <2>1, AtFacts
    <2>3. CASE data[k] = Absent
      <3>1. Return(c, {NoValue})
        BY <1>1, <2>3 DEF ItemLoads
      <3> QED BY <1>0, <2>1, <2>2, <3>1, JustReturns
    <2>4. CASE data[k] # Absent
      <3>1. GotoWith(c, "itemCheck")
        BY <1>1, <2>4 DEF ItemLoads
      <3>2. data' \in [Keys -> ItemType] /\ WritersOnly
        BY <2>1, DataKept
      <3>3. CacheInv' /\ Answers(E)'
        BY <2>1, <2>4, <3>1, <3>2, LoadsItem
      <3> QED BY <3>2, <3>3
    <2> QED BY <2>3, <2>4
  <1>2. CASE ItemChecks(c)
    <2>1. At(c, "itemCheck") /\ UNCHANGED data /\ CallStep
      BY <1>2 DEF ItemChecks
    <2>2. /\ call[c] # Idle /\ call[c].step = "itemCheck"
          /\ Knows(call[c], seen[c], FoundAt(data, now, k), now)
      BY <2>1, AtFacts
    <2>3. CASE After(now, item)
      <3>1. GoOn(c, "itemDelete")
        BY <1>2, <2>3 DEF ItemChecks, Expired
      <3> QED BY <2>1, <2>3, <3>1, JustGoesOn
    <2>4. CASE ~After(now, item)
      <3>1. Return(c, {item.value})
        BY <1>2, <2>4 DEF ItemChecks, Expired
      <3>2. {item.value} \subseteq seen[c] \cup E
        BY <2>2, <2>4 DEF Knows
      <3> QED BY <2>1, <2>2, <3>1, <3>2, JustReturns
    <2> QED BY <2>3, <2>4
  <1>3. CASE ItemDeletes(c)
    <2>1. At(c, "itemDelete") /\ CompareAndDelete(k, item) /\ Return(c, {NoValue}) /\ CallStep
      BY <1>3 DEF ItemDeletes
    <2>2. /\ call[c] # Idle /\ call[c].step = "itemDelete" /\ k \in Keys
          /\ Knows(call[c], seen[c], FoundAt(data, now, k), now)
      BY <2>1, AtFacts
    <2>3. After(now, item)
      BY <2>2 DEF Knows
    <2>4. data' \in [Keys -> ItemType] /\ WritersOnly
      BY <2>1, <2>2, <2>3, ExpiredDeleted
    <2>5. CacheInv' /\ Answers(E)'
      BY <1>0, <2>1, <2>2, <2>4, ReturnFacts
    <2> QED BY <2>4, <2>5
  <1>4. CASE FastDelete(c)
    <2>1. At(c, "delete") /\ Store(k, Absent) /\ CallStep
      BY <1>4 DEF FastDelete
    <2>2. call[c] # Idle /\ call[c].step = "delete" /\ k \in Keys
      BY <2>1, AtFacts
    <2>3. data' \in [Keys -> ItemType] /\ \A j \in Keys \ {k} : data'[j] = data[j]
      BY <2>1, <2>2, AbsentFacts, StoreFacts
    <2>4. CASE data[k] = Absent
      <3>1. Return(c, {NoValue})
        BY <1>4, <2>4 DEF FastDelete
      <3>2. CacheInv' /\ Answers(E)' /\ call'[c] # call[c]
        BY <1>0, <2>1, <2>2, <2>3, <3>1, ReturnFacts
      <3> QED BY <2>2, <2>3, <3>2, WriterChanged
    <2>5. CASE data[k] # Absent
      <3>1. GotoWith(c, "deleteCheck")
        BY <1>4, <2>5 DEF FastDelete
      <3>2. CacheInv' /\ Answers(E)' /\ call'[c].step = "deleteCheck"
        BY <2>1, <2>3, <2>5, <3>1, LoadsItem
      <3>3. call'[c] # call[c]
        BY <2>2, <3>2
      <3> QED BY <2>2, <2>3, <3>2, <3>3, WriterChanged
    <2> QED BY <2>4, <2>5
  <1>5. CASE DeleteChecks(c)
    <2> DEFINE v == IF After(now, item) THEN NoValue ELSE item.value
    <2>1. At(c, "deleteCheck") /\ UNCHANGED data /\ CallStep /\ Return(c, {v})
      BY <1>5 DEF DeleteChecks, Expired
    <2>2. /\ call[c] # Idle /\ call[c].step = "deleteCheck"
          /\ Knows(call[c], seen[c], FoundAt(data, now, k), now)
      BY <2>1, AtFacts
    <2>3. {v} \subseteq seen[c] \cup E
      BY <2>2 DEF Knows
    <2> HIDE DEF v
    <2> QED BY <2>1, <2>2, <2>3, JustReturns
  <1> QED BY <1>1, <1>2, <1>3, <1>4, <1>5

\* Add, Replace, Item, Delete and Set of FastCache.
LEMMA FastCallStep ==
  ASSUME CacheInv, NEW c \in Callers, FastCall(c)
  PROVE  CacheInv' /\ Answers({NoValue})' /\ WritersOnly
  <1>1. CASE FastCallBegins(c)
    <2>1. PICK k \in Keys, v \in Values, options \in Options :
            \/ \E op \in {"set", "add"} : Call(c, op, k, NewItem(v, options), <<>>)
            \/ Call(c, "replace", k, [value |-> v, expiration |-> 0], options)
            \/ \E op \in {"item", "delete"} : Call(c, op, k, Absent, <<>>)
      BY <1>1 DEF FastCallBegins
    <2>2. NewItem(v, options) \in ItemType
      BY NewItemType DEF CacheInv, CacheType
    <2>3. [value |-> v, expiration |-> 0] \in ItemType /\ <<>> \in Options
      BY DEF ItemType, Options
    <2>4. PICK op \in Operations, new \in ItemType, opts \in Options : Call(c, op, k, new, opts)
      BY <2>1, <2>2, <2>3, AbsentFacts DEF Operations
    <2>5. CacheInv' /\ Answers({NoValue})' /\ UNCHANGED data
      BY <2>4, CallFacts
    <2> QED BY <2>5, DataKept
  <1>2. CASE FastSet(c) \/ LoadOrStore(c) \/ AddChecks(c) \/ AddSwaps(c)
    BY <1>2, FastAdds
  <1>3. CASE \/ ReplaceLoads(c) \/ ReplaceChecks(c) \/ ReplaceDeletes(c)
             \/ ReplaceExpires(c) \/ ReplaceSwaps(c)
    BY <1>3, FastReplaces
  <1>4. CASE ItemLoads(c) \/ ItemChecks(c) \/ ItemDeletes(c) \/ FastDelete(c) \/ DeleteChecks(c)
    BY <1>4, FastItemDelete
  <1> QED BY <1>1, <1>2, <1>3, <1>4 DEF FastCall

\* The clock and Clear.
LEMMA TickClear ==
  ASSUME CacheInv, Tick \/ Clear, NEW E
  PROVE  CacheInv' /\ Answers(E)' /\ WritersOnly
  <1>1. now \in Nat /\ data \in [Keys -> ItemType] /\ worker \in WorkerType
    BY DEF CacheInv, CacheType
  <1>2. CASE Tick
    <2>1. now' = now + 1 /\ UNCHANGED <<data, call, worker>> /\ answer' = NoAnswer /\ Watch
      BY <1>2 DEF Tick
    <2>2. now' \in Nat /\ now <= now'
      BY <1>1, <2>1
    <2>3. WorkerOK'
      <3>1. ASSUME worker \notin {Waiting, [step |-> "over"]} PROVE worker.time <= now'
        <4>1. worker.time \in Nat /\ worker.time <= now
          BY <1>1, <3>1 DEF WorkerType, CacheInv, WorkerOK
        <4> QED BY <1>1, <2>1, <4>1
      <3> QED BY <2>1, <3>1 DEF CacheInv, WorkerOK
    <2>4. UNCHANGED call /\ data' \in [Keys -> ItemType] /\ worker' \in WorkerType
      BY <1>1, <2>1
    <2>5. CacheInv' /\ Answers(E)'
      BY <2>1, <2>2, <2>3, <2>4, OtherFacts
    <2> QED BY <2>1, <2>5, DataKept
  <1>3. CASE Clear
    <2>1. /\ data' = [k \in Keys |-> Absent] /\ answer' = NoAnswer
          /\ UNCHANGED <<now, call, worker>> /\ Watch
      BY <1>3 DEF Clear
    <2>2. /\ now' \in Nat /\ now <= now' /\ UNCHANGED call /\ worker' \in WorkerType
          /\ data' \in [Keys -> ItemType]
      BY <1>1, <2>1, AbsentFacts
    <2>3. WorkerOK'
      BY <2>1 DEF CacheInv, WorkerOK
    <2>4. CacheInv' /\ Answers(E)'
      BY <2>1, <2>2, <2>3, OtherFacts
    <2>5. WritersOnly
      BY <1>3 DEF WritersOnly
    <2> QED BY <2>4, <2>5
  <1> QED BY <1>2, <1>3

\* A step of the worker.
LEMMA WorkerFacts ==
  ASSUME CacheInv, WorkerStep, data' \in [Keys -> ItemType], worker' \in WorkerType,
         WorkerOK', NEW E
  PROVE  CacheInv' /\ Answers(E)'
  <1>1. now' = now /\ now \in Nat
    BY DEF WorkerStep, CacheInv, CacheType
  <1>2. now' \in Nat /\ now <= now'
    BY <1>1
  <1> QED BY <1>2, OtherFacts DEF WorkerStep

\* The worker begins, or ends.
LEMMA WorkerTurns ==
  ASSUME CacheInv, NEW E, NEW first \in {"range", "scan"},
         \/ TickerFires(first) \/ WorkerStops \/ RangeEnds \/ BatchStops
  PROVE  CacheInv' /\ Answers(E)' /\ WritersOnly
  <1>1. UNCHANGED data /\ WorkerStep
    BY DEF TickerFires, WorkerStops, RangeEnds, BatchStops
  <1>2. now \in Nat /\ now' = now
    BY <1>1 DEF WorkerStep, CacheInv, CacheType
  <1>3. worker' \in WorkerType /\ WorkerOK'
    <2>1. CASE TickerFires(first)
      <3>1. worker' = [step |-> first, time |-> now, left |-> Keys, key |-> {}, actual |-> Absent]
        BY <2>1 DEF TickerFires
      <3>2. worker' \in WorkerType
        BY <1>2, <3>1, AbsentFacts DEF WorkerType
      <3>3. worker'.time = now /\ worker'.step # "delete"
        BY <3>1
      <3> QED BY <1>2, <3>2, <3>3 DEF WorkerOK
    <2>2. CASE worker' \in {Waiting, [step |-> "over"]}
      <3>1. worker'.step # "delete"
        BY <2>2 DEF Waiting
      <3> QED BY <2>2, <3>1 DEF WorkerOK, WorkerType
    <2> QED BY <2>1, <2>2 DEF WorkerStops, RangeEnds, BatchStops
  <1>4. data' \in [Keys -> ItemType] /\ WritersOnly
    BY <1>1, DataKept
  <1> QED BY <1>1, <1>3, <1>4, WorkerFacts

\* The worker at work.
LEMMA WorkingFacts ==
  ASSUME CacheInv, worker.step \in {"range", "delete", "scan", "batch"}
  PROVE  /\ worker \in [step : {"range", "delete", "scan", "batch"}, time : Nat,
                        left : SUBSET Keys, key : SUBSET Keys, actual : ItemType]
         /\ worker.time \in Nat /\ worker.left \in SUBSET Keys /\ worker.time <= now
         /\ worker.actual \in ItemType /\ now \in Nat
  <1>1. worker \in WorkerType /\ now \in Nat
    BY DEF CacheInv, CacheType
  <1>2. worker # Waiting /\ worker # [step |-> "over"]
    BY DEF Waiting
  <1>3. worker \in [step : {"range", "delete", "scan", "batch"}, time : Nat,
                    left : SUBSET Keys, key : SUBSET Keys, actual : ItemType]
    BY <1>1, <1>2 DEF WorkerType
  <1>4. worker.time <= now
    BY <1>2 DEF CacheInv, WorkerOK
  <1> QED BY <1>1, <1>3, <1>4

\* fastCleanup looks at a key, or deletes an item that has expired.
LEMMA RangeSteps ==
  ASSUME CacheInv, NEW k \in Keys, RangeLoads(k) \/ RangeDeletes(k), NEW E
  PROVE  CacheInv' /\ Answers(E)' /\ WritersOnly
  <1> DEFINE W == [step : {"range", "delete", "scan", "batch"}, time : Nat,
                   left : SUBSET Keys, key : SUBSET Keys, actual : ItemType]
  <1>1. WorkerStep /\ worker.step \in {"range", "delete"}
    BY DEF RangeLoads, RangeDeletes
  <1>2. /\ worker \in W /\ worker.time <= now /\ worker.time \in Nat
        /\ worker.actual \in ItemType /\ now \in Nat /\ now' = now
    BY <1>1, WorkingFacts DEF WorkerStep
  <1>3. \A w \in W : w \in WorkerType
    BY DEF WorkerType
  <1>4. CASE RangeLoads(k)
    <2>1. UNCHANGED data
      BY <1>4 DEF RangeLoads
    <2>2. data' \in [Keys -> ItemType] /\ WritersOnly
      BY <2>1, DataKept
    <2>3. CASE data[k] # Absent /\ After(worker.time, data[k])
      <3> DEFINE d == data[k]
                 w == [worker EXCEPT !.step = "delete", !.key = {k}, !.actual = d]
      <3>1. worker' = w
        BY <1>4, <2>3 DEF RangeLoads
      <3>2. d \in ItemType
        BY DEF CacheInv, CacheType
      <3> HIDE DEF d
      <3>3. w \in W /\ w.time = worker.time /\ w.actual = d
        BY <1>2, <3>2
      <3>4. worker' \in WorkerType /\ worker'.time <= now' /\ After(worker'.time, worker'.actual)
        BY <1>2, <1>3, <2>3, <3>1, <3>3 DEF d
      <3>5. WorkerOK'
        BY <3>4 DEF WorkerOK
      <3> QED BY <1>1, <2>2, <3>4, <3>5, WorkerFacts
    <2>4. CASE ~(data[k] # Absent /\ After(worker.time, data[k]))
      <3> DEFINE w == [worker EXCEPT !.left = @ \ {k}]
      <3>1. worker' = w /\ worker.step = "range"
        BY <1>4, <2>4 DEF RangeLoads
      <3>2. w \in W /\ w.time = worker.time /\ w.step = worker.step
        BY <1>2
      <3>3. worker' \in WorkerType /\ worker'.time <= now' /\ worker'.step # "delete"
        BY <1>2, <1>3, <3>1, <3>2
      <3>4. WorkerOK'
        BY <3>3 DEF WorkerOK
      <3> QED BY <1>1, <2>2, <3>3, <3>4, WorkerFacts
    <2> QED BY <2>3, <2>4
  <1>5. CASE RangeDeletes(k)
    <2> DEFINE w == [worker EXCEPT !.step = "range", !.left = @ \ {k}, !.key = {}, !.actual = Absent]
    <2>1. worker.step = "delete" /\ CompareAndDelete(k, worker.actual) /\ worker' = w
      BY <1>5 DEF RangeDeletes
    <2>2. After(worker.time, worker.actual)
      BY <2>1 DEF CacheInv, WorkerOK
    <2>3. After(now, worker.actual)
      BY <1>2, <2>2, StillExpired
    <2>4. data' \in [Keys -> ItemType] /\ WritersOnly
      BY <2>1, <2>3, ExpiredDeleted
    <2>5. w \in W /\ w.time = worker.time /\ w.step = "range"
      BY <1>2, AbsentFacts
    <2>6. worker' \in WorkerType /\ worker'.time <= now' /\ worker'.step # "delete"
      BY <1>2, <1>3, <2>1, <2>5
    <2>7. WorkerOK'
      BY <2>6 DEF WorkerOK
    <2> QED BY <1>1, <2>4, <2>6, <2>7, WorkerFacts
  <1> QED BY <1>4, <1>5

\* A new cache is empty.
LEMMA CacheInitInv == CacheInit => CacheInv /\ \A E : Answers(E)
  <1> SUFFICES ASSUME CacheInit PROVE CacheInv /\ \A E : Answers(E)
    OBVIOUS
  <1>1. CacheType
    BY AbsentFacts DEF CacheInit, CacheType, WorkerType
  <1>2. \A c \in Callers : CallOK(c)
    BY DEF CacheInit, CallOK
  <1>3. WorkerOK
    <2>1. worker = Waiting /\ worker.step # "delete"
      BY DEF CacheInit, Waiting
    <2> QED BY <2>1 DEF WorkerOK
  <1>4. \A E : Answers(E)
    BY DEF CacheInit, Answers
  <1> QED BY <1>1, <1>2, <1>3, <1>4 DEF CacheInv

\* Nothing happens.
LEMMA CacheStutters ==
  ASSUME CacheInv, UNCHANGED cacheVars, NEW E, Answers(E)
  PROVE  CacheInv' /\ Answers(E)' /\ WritersOnly
  <1>1. CacheInv' /\ Answers(E)'
    BY DEF cacheVars, CacheInv, CacheType, CallOK, WorkerOK, Answers
  <1>2. WritersOnly
    BY DataKept DEF cacheVars
  <1> QED BY <1>1, <1>2

\* Every step of FastCache.
LEMMA FastStep ==
  ASSUME CacheInv, Answers({NoValue}), [FastNext]_cacheVars
  PROVE  CacheInv' /\ Answers({NoValue})' /\ WritersOnly
  <1>1. CASE UNCHANGED cacheVars
    BY <1>1, CacheStutters
  <1>2. CASE Tick \/ Clear
    BY <1>2, TickClear
  <1>3. CASE \E c \in Callers : FastCall(c)
    BY <1>3, FastCallStep
  <1>4. CASE TickerFires("range") \/ RangeEnds \/ WorkerStops
    <2>1. "range" \in {"range", "scan"}
      OBVIOUS
    <2> QED BY <1>4, <2>1, WorkerTurns
  <1>5. CASE \E k \in Keys : RangeLoads(k) \/ RangeDeletes(k)
    BY <1>5, RangeSteps
  <1> QED BY <1>1, <1>2, <1>3, <1>4, <1>5 DEF FastNext, fastCleanup

-----------------------------------------------------------------------------
(* LeanCache.                                                              *)

\* What the map has is what a caller finds, and the call has seen it.
LEMMA FoundIsSeen ==
  ASSUME CacheInv, NEW c \in Callers, NEW st \in CallSteps, At(c, st)
  PROVE  /\ Found(call[c].key) \in seen[c]
         /\ Live(call[c].key) => data[call[c].key].value \in seen[c]
         /\ ~Live(call[c].key) => NoValue \in seen[c]
  <1>1. Knows(call[c], seen[c], FoundAt(data, now, call[c].key), now)
    BY AtFacts
  <1>2. Found(call[c].key) = FoundAt(data, now, call[c].key)
    BY DEF Found, Live, Expired, FoundAt
  <1> QED BY <1>1, <1>2 DEF Knows, Found

\* The critical sections of Set, Add, Replace and Delete.
LEMMA LeanWrites ==
  ASSUME CacheInv, NEW c \in Callers, LeanSet(c) \/ LeanAdd(c) \/ LeanReplace(c) \/ LeanDelete(c)
  PROVE  CacheInv' /\ Answers({})' /\ WritersOnly
  <1> DEFINE k == call[c].key
             new == NewItem(call[c].new.value, call[c].options)
  <1> USE DEF CallSteps, Operations
  <1>0. PICK st \in Operations : At(c, st) /\ CallStep
    BY DEF LeanSet, LeanAdd, LeanReplace, LeanDelete
  <1>1. /\ call[c] # Idle /\ k \in Keys /\ data[k] \in ItemType /\ call[c].new \in ItemType
        /\ call[c].options \in Options /\ now \in Nat /\ call[c].step = st
    BY <1>0, AtFacts
  <1>2. new \in ItemType
    <2>1. call[c].new.value \in Values \cup {NoValue}
      BY <1>1 DEF ItemType
    <2> QED BY <1>1, <2>1, NewItemType
  <1>3. /\ Found(k) \in seen[c]
        /\ Live(k) => data[k].value \in seen[c]
        /\ ~Live(k) => NoValue \in seen[c]
    BY <1>0, FoundIsSeen
  <1>4. CASE LeanSet(c)
    <2>1. At(c, "set") /\ Store(k, new) /\ Return(c, {})
      BY <1>4 DEF LeanSet
    <2>2. data' \in [Keys -> ItemType] /\ \A j \in Keys \ {k} : data'[j] = data[j]
      BY <1>1, <1>2, <2>1, StoreFacts
    <2>3. {} \subseteq seen[c] \cup {}
      OBVIOUS
    <2>4. CacheInv' /\ Answers({})' /\ call'[c] # call[c]
      BY <1>0, <1>1, <2>1, <2>2, <2>3, ReturnFacts
    <2>5. call[c].step = "set"
      BY <2>1 DEF At
    <2> QED BY <1>1, <2>2, <2>4, <2>5, WriterChanged
  <1>5. CASE LeanAdd(c)
    <2>1. CASE Live(k) /\ Return(c, {data[k].value}) /\ UNCHANGED data
      <3>1. {data[k].value} \subseteq seen[c] \cup {}
        BY <1>3, <2>1
      <3> QED BY <1>0, <1>1, <2>1, <3>1, JustReturns
    <2>2. CASE ~Live(k) /\ Return(c, {}) /\ Store(k, new)
      <3>1. data' \in [Keys -> ItemType] /\ \A j \in Keys \ {k} : data'[j] = data[j]
        BY <1>1, <1>2, <2>2, StoreFacts
      <3>2. {} \subseteq seen[c] \cup {}
        OBVIOUS
      <3>3. CacheInv' /\ Answers({})'
        BY <1>0, <1>1, <2>2, <3>1, <3>2, ReturnFacts
      <3> QED BY <1>1, <2>2, <3>1, <3>3, DeadChanged
    <2> QED BY <1>5, <2>1, <2>2 DEF LeanAdd
  <1>6. CASE LeanReplace(c)
    <2> DEFINE kept == [data[k] EXCEPT !.value = new.value]
               item == IF call[c].options = <<>> THEN kept ELSE new
    <2>1. kept \in ItemType
      <3>1. new.value \in Values \cup {NoValue}
        BY <1>2 DEF ItemType
      <3> QED BY <1>1, <3>1 DEF ItemType
    <2>2. item \in ItemType
      BY <1>2, <2>1
    <2>3. At(c, "replace")
      BY <1>6 DEF LeanReplace
    <2>4. \/ Live(k) /\ Store(k, item) /\ Return(c, {data[k].value})
          \/ ~Live(k) /\ Store(k, Absent) /\ Return(c, {NoValue})
      BY <1>6 DEF LeanReplace
    <2> HIDE DEF item
    <2>5. PICK x \in ItemType, result \in SUBSET seen[c] : Store(k, x) /\ Return(c, result)
      BY <1>3, <2>2, <2>4, AbsentFacts
    <2>6. data' \in [Keys -> ItemType] /\ \A j \in Keys \ {k} : data'[j] = data[j]
      BY <1>1, <2>5, StoreFacts
    <2>7. result \subseteq seen[c] \cup {}
      BY <2>5
    <2>8. CacheInv' /\ Answers({})' /\ call'[c] # call[c]
      BY <1>0, <1>1, <2>5, <2>6, <2>7, ReturnFacts
    <2>9. call[c].step = "replace"
      BY <2>3 DEF At
    <2> QED BY <1>1, <2>6, <2>8, <2>9, WriterChanged
  <1>7. CASE LeanDelete(c)
    <2>1. At(c, "delete") /\ Store(k, Absent) /\ Return(c, {Found(k)})
      BY <1>7 DEF LeanDelete
    <2>2. data' \in [Keys -> ItemType] /\ \A j \in Keys \ {k} : data'[j] = data[j]
      BY <1>1, <2>1, AbsentFacts, StoreFacts
    <2>3. {Found(k)} \subseteq seen[c] \cup {}
      BY <1>3
    <2>4. CacheInv' /\ Answers({})' /\ call'[c] # call[c]
      BY <1>0, <1>1, <2>1, <2>2, <2>3, ReturnFacts
    <2>5. call[c].step = "delete"
      BY <2>1 DEF At
    <2> QED BY <1>1, <2>2, <2>4, <2>5, WriterChanged
  <1> QED BY <1>4, <1>5, <1>6, <1>7

\* Item, which reads, checks and deletes in steps of their own.
LEMMA LeanItem ==
  ASSUME CacheInv, NEW c \in Callers, LeanItemLoads(c) \/ LeanItemChecks(c) \/ LeanItemDeletes(c)
  PROVE  CacheInv' /\ Answers({})' /\ WritersOnly
  <1> DEFINE k == call[c].key
             item == call[c].actual
  <1> USE DEF CallSteps, Operations, CheckSteps, RemoveSteps, ReplaceSteps
  <1>1. CASE LeanItemLoads(c)
    <2>1. At(c, "item") /\ CallStep /\ UNCHANGED data
      BY <1>1 DEF LeanItemLoads
    <2>2. call[c] # Idle
      BY <2>1, AtFacts
    <2>3. CASE data[k] = Absent
      <3>1. Return(c, {NoValue})
        BY <1>1, <2>3 DEF LeanItemLoads
      <3>2. ~Live(k)
        BY <2>3 DEF Live
      <3>3. {NoValue} \subseteq seen[c] \cup {}
        BY <2>1, <3>2, FoundIsSeen
      <3> QED BY <2>1, <2>2, <3>1, <3>3, JustReturns
    <2>4. CASE data[k] # Absent
      <3>1. GotoWith(c, "itemCheck")
        BY <1>1, <2>4 DEF LeanItemLoads
      <3>2. data' \in [Keys -> ItemType] /\ WritersOnly
        BY <2>1, DataKept
      <3>3. CacheInv' /\ Answers({})'
        BY <2>1, <2>4, <3>1, <3>2, LoadsItem
      <3> QED BY <3>2, <3>3
    <2> QED BY <2>3, <2>4
  <1>2. CASE LeanItemChecks(c)
    <2>1. At(c, "itemCheck") /\ UNCHANGED data /\ CallStep
      BY <1>2 DEF LeanItemChecks
    <2>2. /\ call[c] # Idle /\ call[c].step = "itemCheck"
          /\ Knows(call[c], seen[c], FoundAt(data, now, k), now)
      BY <2>1, AtFacts
    <2>3. CASE After(now, item)
      <3>1. GoOn(c, "itemDelete")
        BY <1>2, <2>3 DEF LeanItemChecks, Expired
      <3> QED BY <2>1, <2>3, <3>1, JustGoesOn
    <2>4. CASE ~After(now, item)
      <3>1. Return(c, {item.value})
        BY <1>2, <2>4 DEF LeanItemChecks, Expired
      <3>2. {item.value} \subseteq seen[c] \cup {}
        BY <2>2, <2>4 DEF Knows
      <3> QED BY <2>1, <2>2, <3>1, <3>2, JustReturns
    <2> QED BY <2>3, <2>4
  <1>3. CASE LeanItemDeletes(c)
    <2>1. At(c, "itemDelete") /\ Return(c, {Found(k)}) /\ CallStep
      BY <1>3 DEF LeanItemDeletes
    <2>2. call[c] # Idle /\ k \in Keys
      BY <2>1, AtFacts
    <2>3. {Found(k)} \subseteq seen[c] \cup {}
      BY <2>1, FoundIsSeen
    <2>4. CASE Live(k)
      <3>1. UNCHANGED data
        BY <1>3, <2>4 DEF LeanItemDeletes
      <3> QED BY <2>1, <2>2, <2>3, <3>1, JustReturns
    <2>5. CASE ~Live(k)
      <3>1. Store(k, Absent)
        BY <1>3, <2>5 DEF LeanItemDeletes
      <3>2. data' \in [Keys -> ItemType] /\ \A j \in Keys \ {k} : data'[j] = data[j]
        BY <2>2, <3>1, AbsentFacts, StoreFacts
      <3>3. CacheInv' /\ Answers({})'
        BY <2>1, <2>2, <2>3, <3>2, ReturnFacts
      <3> QED BY <2>2, <2>5, <3>2, <3>3, DeadChanged
    <2> QED BY <2>4, <2>5
  <1> QED BY <1>1, <1>2, <1>3

\* Add, Replace, Item, Delete and Set of LeanCache.
LEMMA LeanCallStep ==
  ASSUME CacheInv, NEW c \in Callers, LeanCall(c)
  PROVE  CacheInv' /\ Answers({})' /\ WritersOnly
  <1>1. CASE LeanCallBegins(c)
    <2>1. PICK k \in Keys, v \in Values, options \in Options :
            \/ \E op \in {"set", "add", "replace"} :
                 Call(c, op, k, [value |-> v, expiration |-> 0], options)
            \/ \E op \in {"item", "delete"} : Call(c, op, k, Absent, <<>>)
      BY <1>1 DEF LeanCallBegins
    <2>2. [value |-> v, expiration |-> 0] \in ItemType /\ <<>> \in Options
      BY DEF ItemType, Options
    <2>3. PICK op \in Operations, new \in ItemType, opts \in Options : Call(c, op, k, new, opts)
      BY <2>1, <2>2, AbsentFacts DEF Operations
    <2>4. CacheInv' /\ Answers({})' /\ UNCHANGED data
      BY <2>3, CallFacts
    <2> QED BY <2>4, DataKept
  <1>2. CASE LeanSet(c) \/ LeanAdd(c) \/ LeanReplace(c) \/ LeanDelete(c)
    BY <1>2, LeanWrites
  <1>3. CASE LeanItemLoads(c) \/ LeanItemChecks(c) \/ LeanItemDeletes(c)
    BY <1>3, LeanItem
  <1> QED BY <1>1, <1>2, <1>3 DEF LeanCall

\* leanCleanup scans, and deletes what has expired at the time of its tick.
LEMMA BatchSteps ==
  ASSUME CacheInv, Scan \/ DeleteBatch, NEW E
  PROVE  CacheInv' /\ Answers(E)' /\ WritersOnly
  <1> DEFINE W == [step : {"range", "delete", "scan", "batch"}, time : Nat,
                   left : SUBSET Keys, key : SUBSET Keys, actual : ItemType]
  <1>1. WorkerStep /\ worker.step \in {"scan", "batch"}
    BY DEF Scan, DeleteBatch
  <1>2. /\ worker \in W /\ worker.time <= now /\ worker.time \in Nat
        /\ now \in Nat /\ now' = now /\ data \in [Keys -> ItemType]
    BY <1>1, WorkingFacts DEF WorkerStep, CacheInv, CacheType
  <1>3. ASSUME worker' = Waiting \/ \E w \in W : /\ worker' = w /\ w.time = worker.time
                                                 /\ w.step = "batch"
        PROVE  worker' \in WorkerType /\ WorkerOK'
    <2>1. CASE worker' = Waiting
      <3>1. worker'.step # "delete"
        BY <2>1 DEF Waiting
      <3> QED BY <2>1, <3>1 DEF WorkerType, WorkerOK
    <2>2. CASE \E w \in W : worker' = w /\ w.time = worker.time /\ w.step = "batch"
      <3>1. worker' \in WorkerType
        BY <2>2 DEF WorkerType
      <3>2. worker'.time <= now' /\ worker'.step # "delete"
        BY <1>2, <2>2
      <3> QED BY <3>1, <3>2 DEF WorkerOK
    <2> QED BY <1>3, <2>1, <2>2
  <1>4. CASE Scan
    <2> DEFINE expired == {k \in Keys : data[k] # Absent /\ After(worker.time, data[k])}
               w == [worker EXCEPT !.step = "batch", !.left = expired]
    <2>1. worker' = (IF expired = {} THEN Waiting ELSE w) /\ UNCHANGED data
      BY <1>4 DEF Scan
    <2>2. expired \in SUBSET Keys
      OBVIOUS
    <2> HIDE DEF expired
    <2>3. w \in W /\ w.time = worker.time /\ w.step = "batch"
      BY <1>2, <2>2
    <2> HIDE DEF w
    <2>4. worker' \in WorkerType /\ WorkerOK'
      BY <1>3, <2>1, <2>3
    <2>5. data' \in [Keys -> ItemType] /\ WritersOnly
      BY <2>1, DataKept
    <2> QED BY <1>1, <2>4, <2>5, WorkerFacts
  <1>5. CASE DeleteBatch
    <2>1. PICK batch \in (SUBSET worker.left) \ {{}} :
            /\ data' = [k \in Keys |-> IF k \in batch /\ After(worker.time, data[k])
                                       THEN Absent ELSE data[k]]
            /\ BatchDone(batch)
      BY <1>5 DEF DeleteBatch
    <2> DEFINE w == [worker EXCEPT !.left = @ \ batch]
    <2>2. worker' = (IF batch = worker.left THEN Waiting ELSE w) /\ worker.step = "batch"
      BY <1>5, <2>1 DEF BatchDone, DeleteBatch
    <2>3. w \in W /\ w.time = worker.time /\ w.step = "batch"
      BY <1>2, <2>2
    <2> HIDE DEF w
    <2>4. worker' \in WorkerType /\ WorkerOK'
      BY <1>3, <2>2, <2>3
    <2>5. data' \in [Keys -> ItemType]
      BY <1>2, <2>1, AbsentFacts
    <2>6. \A k \in Keys : data'[k] = data[k] \/ After(worker.time, data[k])
      BY <2>1
    <2>7. \A k \in Keys : data'[k] = data[k] \/ ~Live(k)
      <3> SUFFICES ASSUME NEW k \in Keys, After(worker.time, data[k]) PROVE ~Live(k)
        BY <2>6
      <3>1. data[k] \in ItemType
        BY <1>2
      <3>2. After(now, data[k])
        BY <1>2, <3>1, StillExpired
      <3> QED BY <3>2 DEF Live, Expired
    <2>8. WritersOnly
      BY <2>7 DEF WritersOnly
    <2> QED BY <1>1, <2>4, <2>5, <2>8, WorkerFacts
  <1> QED BY <1>4, <1>5

\* Every step of LeanCache.
LEMMA LeanStep ==
  ASSUME CacheInv, Answers({}), [LeanNext]_cacheVars
  PROVE  CacheInv' /\ Answers({})' /\ WritersOnly
  <1>1. CASE UNCHANGED cacheVars
    BY <1>1, CacheStutters
  <1>2. CASE Tick \/ Clear
    BY <1>2, TickClear
  <1>3. CASE \E c \in Callers : LeanCall(c)
    BY <1>3, LeanCallStep
  <1>4. CASE TickerFires("scan") \/ BatchStops \/ WorkerStops
    <2>1. "scan" \in {"range", "scan"}
      OBVIOUS
    <2> QED BY <1>4, <2>1, WorkerTurns
  <1>5. CASE Scan \/ DeleteBatch
    BY <1>5, BatchSteps
  <1> QED BY <1>1, <1>2, <1>3, <1>4, <1>5 DEF LeanNext, leanCleanup

-----------------------------------------------------------------------------
(* The theorems about the caches.                                          *)

\* Calls of LeanCache return only what they have seen, a miss included.
CachesInv ==
  /\ lean \in BOOLEAN
  /\ CacheInv
  /\ Answers({NoValue})
  /\ lean => Answers({})

\* Whichever cache it is, every step keeps the invariant, and only writers change an item
\* that has not expired.
LEMMA CachesStep ==
  ASSUME CachesInv, [CachesNext]_cachesVars
  PROVE  CachesInv' /\ WritersOnly
  <1>1. lean' = lean /\ CacheInv /\ Answers({NoValue}) /\ lean \in BOOLEAN
    BY DEF CachesInv, CachesNext, cachesVars
  <1>2. CASE ~lean
    <2>1. [FastNext]_cacheVars
      BY <1>2 DEF CachesNext, cachesVars
    <2>2. CacheInv' /\ Answers({NoValue})' /\ WritersOnly
      BY <1>1, <2>1, FastStep
    <2> QED BY <1>1, <1>2, <2>2 DEF CachesInv
  <1>3. CASE lean
    <2>1. [LeanNext]_cacheVars
      BY <1>3 DEF CachesNext, cachesVars
    <2>2. CacheInv' /\ Answers({})' /\ WritersOnly
      BY <1>1, <1>3, <2>1, LeanStep DEF CachesInv
    <2>3. Answers({NoValue})'
      BY <2>2 DEF Answers
    <2> QED BY <1>1, <2>2, <2>3 DEF CachesInv
  <1> QED BY <1>2, <1>3

\* The invariant holds, of either cache.
LEMMA CachesInvariance == CachesSpec => []CachesInv
  <1>1. NewCache => CachesInv
    BY CacheInitInv DEF NewCache, CachesInv
  <1>2. CachesInv /\ [CachesNext]_cachesVars => CachesInv'
    BY CachesStep
  <1> QED BY <1>1, <1>2, PTL DEF CachesSpec

\* Whatever other callers, the clock and the worker do between the steps of a call of
\* either cache, the value that it finds was there, unexpired, at some moment of the call.
THEOREM FindsHeld == CachesSpec => []FoundHeld
  <1>1. CachesInv => FoundHeld
    BY DEF CachesInv, Answers, FoundHeld
  <1> QED BY <1>1, CachesInvariance, PTL

\* LeanCache reports a miss only if the key had no unexpired item at some moment of the
\* call, because Item looks again under the write lock.  FastCache does not.
THEOREM LeanMissesRightly == CachesSpec => []LeanMissesHeld
  <1>1. CachesInv => LeanMissesHeld
    BY DEF CachesInv, Answers, LeanMissesHeld, MissesHeld
  <1> QED BY <1>1, CachesInvariance, PTL

\* Neither Add nor the removal of expired items by Item, Replace and the worker ever
\* changes an item that has not expired, even if it was put there after they looked: long
\* after, for the worker of LeanCache, which deletes in batches.
THEOREM KeepsLive == CachesSpec => OnlyWritersChangeLive
  <1>1. CachesInv /\ [CachesNext]_cachesVars => [WritersOnly]_cacheVars
    BY CachesStep
  <1> QED BY <1>1, CachesInvariance, PTL DEF CachesSpec, OnlyWritersChangeLive, WritersOnly
=============================================================================
