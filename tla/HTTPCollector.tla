--------------------------- MODULE HTTPCollector ---------------------------
(***************************************************************************)
(* The HTTP collector (src/pkg/http/collector.go, client.go): a scheduler  *)
(* goroutine starts requests up to a concurrency limit, each request is    *)
(* retried after transient errors, and its response is handed over to the  *)
(* sender or to the dead-letter queue.  Close waits for all of them, then  *)
(* cancels what is left, and signals Done.                                 *)
(*                                                                         *)
(* The server may answer anything, or nothing.  What is in a response, and *)
(* how long a pause lasts, are left out.                                   *)
(***************************************************************************)
EXTENDS Scheduler, FiniteSets

CONSTANTS
  Concurrency,    \* requests that may run at the same time
  MaxAttempts     \* retries.MaxAttempts

ASSUME HTTPCollectorAssumption == {Concurrency, MaxAttempts} \subseteq Nat \ {0}

VARIABLES
  request,        \* where each request is
  attempt,        \* the number of attempts that it began
  timely          \* no request outlived Close's timeouts

requestVars == <<request, attempt>>
vars == <<stateVars, schedVars, execCancelled, requestVars, timely>>

\* failed: no response; sent, rejected: it went to the sender or to the DLQ;
\* empty: it has nothing to send.
Ended == {"failed", "sent", "rejected", "empty"}

\* Mutant: the response is handed over in a goroutine of its own.
RunningUntilResponse == {q \in Runs : request[q] \notin {"none", "response"} \cup Ended}

\* The requests that InProgress counts, and that have a place in the semaphore.
Running == {q \in Runs : request[q] \notin {"none"} \cup Ended}

Init ==
  /\ SchedulerInit
  /\ request = [q \in Runs |-> "none"]
  /\ attempt = [q \in Runs |-> 0]
  /\ timely = TRUE

-----------------------------------------------------------------------------
(* scheduleNext, with what its instances start.                            *)

Interrupt == CancelSchedule /\ UNCHANGED <<requestVars, timely>>

NextInstance == ScheduleNext /\ UNCHANGED <<requestVars, timely>>

\* requestWithConcurrencyLimit: a request begins, or it is skipped.
RequestWithConcurrencyLimit ==
  /\ InstanceDue
  /\ request' = IF cancelled \/ Cardinality(Running) >= Concurrency THEN request
                ELSE [request EXCEPT ![run + 1] = "try"]
  /\ UNCHANGED <<attempt, timely>>

SchedulerStops == StopSleeping /\ UNCHANGED <<requestVars, timely>>

OneTimeEnds == StopAwaiting(Running = {}) /\ UNCHANGED <<requestVars, timely>>

-----------------------------------------------------------------------------
(* requestWithRetries, requestOnce and sendResponse.                       *)

Goto(q, stage) == request' = [request EXCEPT ![q] = stage]

\* The loop of requestWithRetries ends: no attempt is left, or this is a retry and
\* the collector shuts down, or even the grace period is over.
NoMoreAttempts(q) ==
  \/ attempt[q] = MaxAttempts
  \/ attempt[q] > 0 /\ cancelled
  \/ execCancelled

GivesUp(q) ==
  /\ request[q] = "try"
  /\ NoMoreAttempts(q)
  /\ Goto(q, "failed")
  /\ UNCHANGED <<stateVars, schedVars, execCancelled, attempt, timely>>

\* Mutant: only the schedule's context is checked, and only before a retry.
TryDuringAbort(q) ==
  /\ request[q] = "try"
  /\ attempt[q] < MaxAttempts /\ ~(attempt[q] > 0 /\ cancelled)
  /\ Goto(q, "flight")
  /\ attempt' = [attempt EXCEPT ![q] = @ + 1]
  /\ UNCHANGED <<stateVars, schedVars, execCancelled, timely>>

Try(q) ==
  /\ request[q] = "try"
  /\ ~NoMoreAttempts(q)
  /\ Goto(q, "flight")
  /\ attempt' = [attempt EXCEPT ![q] = @ + 1]
  /\ UNCHANGED <<stateVars, schedVars, execCancelled, timely>>

\* The server answers, and the whole body was read.
Succeeds(q) ==
  /\ request[q] = "flight"
  /\ Goto(q, "response")
  /\ UNCHANGED <<stateVars, schedVars, execCancelled, attempt, timely>>

\* A status that is not retryable, or a body that is too large.
FailsForGood(q) ==
  /\ request[q] = "flight"
  /\ Goto(q, "failed")
  /\ UNCHANGED <<stateVars, schedVars, execCancelled, attempt, timely>>

\* Any other error.
FailsForNow(q) ==
  /\ request[q] = "flight"
  /\ Goto(q, "pause")
  /\ UNCHANGED <<stateVars, schedVars, execCancelled, attempt, timely>>

\* Mutant: the request does not carry execCtx.
NeverAborted(q) == FALSE /\ FailsForNow(q)

\* execCtx is done, so client.Do, or the reading of the body, returns an error;
\* that is as retryable as any other.
Aborted(q) == execCancelled /\ FailsForNow(q)

\* waitBeforeRetry: the interval is over, a context is done, or this was the last
\* attempt anyway.
PauseEnds(q) ==
  /\ request[q] = "pause"
  /\ Goto(q, "try")
  /\ UNCHANGED <<stateVars, schedVars, execCancelled, attempt, timely>>

\* sendResponse: the response as it is, or its body in the collector's format; a
\* body that is not in that format goes to the DLQ, with the rest of the response.
SendResponse(q) ==
  /\ request[q] = "response"
  /\ \E end \in {"sent", "rejected", "empty"} : Goto(q, end)
  /\ UNCHANGED <<stateVars, schedVars, execCancelled, attempt, timely>>

-----------------------------------------------------------------------------
(* Close.                                                                  *)

CloseBegins ==
  /\ BeginClose
  /\ cancelled' = TRUE
  /\ UNCHANGED <<once, sched, run, execCancelled, requestVars, timely>>

\* Timeout: StopStragglers.
GraceEnds ==
  /\ closer = "grace"
  /\ closer' = "abort"
  /\ execCancelled' = TRUE
  /\ UNCHANGED <<readers, closing, closed, schedVars, requestVars, timely>>

\* All requests ended; or AbortTimeout is over as well, and some did not.
CloseReturns ==
  /\ \/ closer \in {"grace", "abort"} /\ Running = {} /\ UNCHANGED timely
     \/ closer = "abort" /\ Running # {} /\ timely' = FALSE
  /\ FinishClose("returned")
  /\ execCancelled' = TRUE
  /\ UNCHANGED <<schedVars, requestVars>>

-----------------------------------------------------------------------------
SchedulerNext ==
  NextInstance \/ RequestWithConcurrencyLimit \/ SchedulerStops \/ OneTimeEnds

RequestNext(q) ==
  \/ GivesUp(q) \/ Try(q)
  \/ Succeeds(q) \/ FailsForGood(q) \/ FailsForNow(q)
  \/ PauseEnds(q) \/ SendResponse(q)

CloseNext == CloseBegins \/ GraceEnds \/ CloseReturns

Next ==
  \/ Interrupt
  \/ SchedulerNext
  \/ \E q \in Runs : RequestNext(q)
  \/ CloseNext

Spec == Init /\ [][Next]_vars

\* Time passes, and goroutines go on; the server may never answer, but a request
\* ends when its context does.
Fairness ==
  /\ WF_vars(SchedulerNext)
  /\ WF_vars(CloseNext)
  /\ \A q \in Runs :
       WF_vars(GivesUp(q) \/ Try(q) \/ Aborted(q) \/ PauseEnds(q) \/ SendResponse(q))

FairSpec == Spec /\ Fairness

-----------------------------------------------------------------------------
(* Properties.                                                             *)

\* The type invariant, with the capacity of scheduleNext's semaphore.
TypeOK ==
  /\ StateTypeOK({})
  /\ SchedulerTypeOK
  /\ timely \in BOOLEAN
  /\ request \in [Runs -> {"none", "try", "flight", "pause", "response"} \cup Ended]
  /\ attempt \in [Runs -> 0..MaxAttempts]
  /\ Cardinality(Running) <= Concurrency

\* What a request is to main.
Work(q) == CASE request[q] = "none" -> "new"
             [] request[q] \in {"sent", "rejected"} -> "given"
             [] request[q] \in {"failed", "empty"} -> "void"
             [] OTHER -> "hand"

\* What Close promises to main, which closes the senders next: no request begins once
\* it closes, and after Done no response is handed over, unless a request outlived both
\* of Close's timeouts.
AsSource == INSTANCE Source WITH
              Data <- Runs,
              phase <- IF closed THEN "done" ELSE IF closing THEN "closing" ELSE "open",
              late <- ~timely,
              work <- [q \in Runs |-> Work(q)]

ImplementsSource == AsSource!Spec

\* Requests that outlive Close may end, but no attempt begins after Done: not even
\* the first one of a request that was started just before.
NoAttemptAfterDone ==
  [][closed => attempt' = attempt]_attempt

\* Whatever the server does, Close signals Done, and all requests end once they are
\* aborted, although the error of an aborted request is retryable.
ShutdownEnds ==
  /\ cancelled ~> closed
  /\ execCancelled ~> Running = {}
=============================================================================
