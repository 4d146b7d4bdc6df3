------------------------------- MODULE Sender -------------------------------
(***************************************************************************)
(* The HTTP sender (src/pkg/http/sender.go, client.go and retries.go) with *)
(* its lifecycle (State), its batchers at the granularity of their         *)
(* critical sections (Batcher), its concurrency slots, its retries and its *)
(* two-phase Close.                                                        *)
(*                                                                         *)
(* Each request is a goroutine in InProgress.  The HTTP server and the     *)
(* fallback (the dead-letter queue) are the environment: an attempt may    *)
(* succeed, fail for good, fail for now or never end.                      *)
(***************************************************************************)
EXTENDS State, Integers, Sequences, FiniteSets, SequencesExt

CONSTANTS
  Clients,        \* goroutines of collectors and receivers that call Send
  Items,          \* what they send, each item once
  Formats,        \* structured formats: one batcher per format
  FormatOf,       \* an item's structured format, or Unstructured
  Unstructured,   \* blobs, HTTP requests and responses are not batched
  MaxItems,       \* the batchers' Limits.MaxItems (0: batching is disabled)
  Slots,          \* capacity of Sender.slots
  MaxAttempts,    \* retries.MaxAttempts
  MaxChunk        \* bound: items per Send

ASSUME SenderAssumption ==
  /\ Unstructured \notin Formats
  /\ FormatOf \in [Items -> Formats \cup {Unstructured}]
  /\ Clients \cap Items = {}
  /\ MaxItems \in Nat /\ Slots \in Nat \ {0}
  /\ MaxAttempts \in Nat \ {0} /\ MaxChunk \in Nat

VARIABLES
  client,         \* where each Send is: "idle" or "inside" (holds the read lock)
  left,           \* items of the chunk that Send has not passed on yet
  pending,        \* per format, the batcher's pending batch
  timed,          \* window callbacks inside their guard, by their first item
  requests,       \* goroutines in InProgress
  slots,          \* occupied slots
  drainer,        \* Close's goroutine: "off", "flush", "wait" or "done"
  toFlush,        \* the batchers it has not flushed yet
  acked,          \* history: items of requests that succeeded
  rejected        \* history: items that were passed to the fallback

senderVars == <<client, left, pending, timed, requests, slots, drainer, toFlush,
                acked, rejected>>

vars == <<stateVars, senderVars>>

Chunks == {<<i>> : i \in Items}
            \cup {s \in [1..2 -> Items] :
                    MaxChunk >= 2 /\ s[1] # s[2] /\ FormatOf[s[1]] = FormatOf[s[2]]}

\* The items that a Send was granted and that are not resolved.
Inside ==
  (UNION {r.items : r \in requests})
    \cup (UNION {ToSet(left[c]) : c \in Clients})
    \cup (UNION {ToSet(pending[f]) : f \in Formats})

Seen == Inside \cup acked \cup rejected

Init ==
  /\ StateInit
  /\ client = [c \in Clients |-> "idle"]
  /\ left = [c \in Clients |-> << >>]
  /\ pending = [f \in Formats |-> << >>]
  /\ timed = {}
  /\ requests = {} /\ slots = 0
  /\ drainer = "off" /\ toFlush = {}
  /\ acked = {} /\ rejected = {}

-----------------------------------------------------------------------------
(* Starting requests.                                                      *)

\* A request's stages: wait (for a slot), recheck (the second select), encode,
\* try (the head of the retry loop), flight (sendOnce), pause (waitBeforeRetry).
NewRequest(items, structured, hasSlot) ==
  [items |-> items, structured |-> structured, slot |-> hasSlot, attempt |-> 0,
   stage |-> IF ~hasSlot THEN "wait" ELSE IF structured THEN "encode" ELSE "try"]

\* sendWithConcurrencyLimit for one payload after the other: a free slot is
\* taken at once, and a request without one waits in its own goroutine.
Start(payloads, structured) ==
  LET free == Slots - slots
      new == {NewRequest(payloads[k], structured, k <= free) : k \in DOMAIN payloads}
  IN  /\ requests' = requests \cup new
      /\ slots' = slots + Cardinality({r \in new : r.slot})

\* appendToBatch, with the pending batch and the caller's "ready" slice in acc.
AppendToBatch(acc, i) ==
  LET b == Append(acc.batch, i)
  IN  IF MaxItems > 0 /\ Len(b) >= MaxItems
      THEN [batch |-> << >>, ready |-> Append(acc.ready, ToSet(b))]
      ELSE [batch |-> b, ready |-> acc.ready]

\* AddChunk's loop: what each of its iterations leaves.
AddChunk(batch, items) ==
  LET after[k \in 0..Len(items)] ==
        IF k = 0 THEN [batch |-> batch, ready |-> << >>]
        ELSE AppendToBatch(after[k - 1], items[k])
  IN  after[Len(items)]

Batched(batch, items) ==
  IF MaxItems > 0 THEN AddChunk(batch, items)
  ELSE [batch |-> batch, ready |-> <<ToSet(items)>>]

-----------------------------------------------------------------------------
(* Send.                                                                   *)

SendRefused(c, chunk) ==
  /\ client[c] = "idle"
  /\ ToSet(chunk) \cap Seen = {}
  /\ Refused
  /\ rejected' = rejected \cup ToSet(chunk)
  /\ UNCHANGED <<stateVars, client, left, pending, timed, requests, slots, drainer,
                 toFlush, acked>>

SendAccepted(c, chunk) ==
  /\ client[c] = "idle"
  /\ ToSet(chunk) \cap Seen = {}
  /\ Granted(c)
  /\ client' = [client EXCEPT ![c] = "inside"]
  /\ left' = [left EXCEPT ![c] = chunk]
  /\ UNCHANGED <<pending, timed, requests, slots, drainer, toFlush, acked, rejected>>

\* Structured data goes through its batcher as one chunk, and the batches that
\* are ready are dispatched by the caller, still under the read lock.
SendStructured(c) ==
  /\ client[c] = "inside"
  /\ left[c] # << >>
  /\ LET f == FormatOf[Head(left[c])]
         added == Batched(pending[f], left[c])
     IN  /\ f # Unstructured
         /\ pending' = [pending EXCEPT ![f] = added.batch]
         /\ Start(added.ready, TRUE)
  /\ left' = [left EXCEPT ![c] = << >>]
  /\ UNCHANGED <<stateVars, client, timed, drainer, toFlush, acked, rejected>>

\* sendBlob, sendHTTPRequest and sendHTTPResponse, one item after the other.  All bodies
\* are in memory already, so reading them does not fail.
SendDirect(c) ==
  /\ client[c] = "inside"
  /\ left[c] # << >>
  /\ FormatOf[Head(left[c])] = Unstructured
  /\ Start(<<{Head(left[c])}>>, FALSE)
  /\ left' = [left EXCEPT ![c] = Tail(@)]
  /\ UNCHANGED <<stateVars, client, pending, timed, drainer, toFlush, acked, rejected>>

SendReturns(c) ==
  /\ client[c] = "inside"
  /\ left[c] = << >>
  /\ RUnlock(c)
  /\ client' = [client EXCEPT ![c] = "idle"]
  /\ UNCHANGED <<left, pending, timed, requests, slots, drainer, toFlush, acked,
                 rejected>>

-----------------------------------------------------------------------------
(* The batch window: the guard is State.IfNotClosing, which keeps the read *)
(* lock until the batch is registered; once closing, it does nothing.  The *)
(* generation that the callback captured is told by its first item.        *)

WindowExpires(f, first) ==
  /\ pending[f] # << >>
  /\ Head(pending[f]) = first
  /\ first \notin timed
  /\ Granted(first)
  /\ timed' = timed \cup {first}
  /\ UNCHANGED <<client, left, pending, requests, slots, drainer, toFlush, acked,
                 rejected>>

\* The batch may have been cut by a Send in the meantime.
TimedFlush(f, first) ==
  /\ first \in timed
  /\ FormatOf[first] = f
  /\ timed' = timed \ {first}
  /\ RUnlock(first)
  /\ IF pending[f] # << >> /\ Head(pending[f]) = first
     THEN /\ pending' = [pending EXCEPT ![f] = << >>]
          /\ Start(<<ToSet(pending[f])>>, TRUE)
     ELSE UNCHANGED <<pending, requests, slots>>
  /\ UNCHANGED <<client, left, drainer, toFlush, acked, rejected>>

-----------------------------------------------------------------------------
(* The goroutine of a request.                                             *)

Become(r, next) == requests' = (requests \ {r}) \cup {next}

ReleaseSlot(r) == slots' = IF r.slot THEN slots - 1 ELSE slots

Finish(r) == requests' = requests \ {r} /\ ReleaseSlot(r)

\* deadLetter: the fallback takes the data over, and the goroutine ends.
Reject(r) ==
  /\ Finish(r)
  /\ rejected' = rejected \cup r.items
  /\ UNCHANGED acked

untouched == <<stateVars, client, left, pending, timed, drainer, toFlush>>

GetSlot(r) ==
  /\ r.stage = "wait"
  /\ slots < Slots
  /\ slots' = slots + 1
  /\ Become(r, [r EXCEPT !.stage = "recheck", !.slot = TRUE])
  /\ UNCHANGED <<untouched, acked, rejected>>

StopWaiting(r) ==
  /\ r.stage = "wait"
  /\ closing
  /\ Become(r, [r EXCEPT !.stage = "recheck"])
  /\ UNCHANGED <<untouched, slots, acked, rejected>>

\* Mutant: the slot is kept when the request is rejected.
RecheckLeaksSlot(r) ==
  /\ r.stage = "recheck"
  /\ IF closing
     THEN /\ requests' = requests \ {r}
          /\ rejected' = rejected \cup r.items
          /\ UNCHANGED <<slots, acked>>
     ELSE /\ Become(r, [r EXCEPT !.stage = IF r.structured THEN "encode" ELSE "try"])
          /\ UNCHANGED <<slots, acked, rejected>>
  /\ UNCHANGED untouched

\* Mutant: whoever got a slot goes ahead.
RecheckDropped(r) ==
  /\ r.stage = "recheck"
  /\ IF ~r.slot THEN Reject(r)
     ELSE /\ Become(r, [r EXCEPT !.stage = IF r.structured THEN "encode" ELSE "try"])
          /\ UNCHANGED <<slots, acked, rejected>>
  /\ UNCHANGED untouched

Recheck(r) ==
  /\ r.stage = "recheck"
  /\ IF closing THEN Reject(r)
     ELSE /\ Become(r, [r EXCEPT !.stage = IF r.structured THEN "encode" ELSE "try"])
          /\ UNCHANGED <<slots, acked, rejected>>
  /\ UNCHANGED untouched

Encode(r) ==
  /\ r.stage = "encode"
  /\ \/ Reject(r)
     \/ /\ Become(r, [r EXCEPT !.stage = "try"])
        /\ UNCHANGED <<slots, acked, rejected>>
  /\ UNCHANGED untouched

\* The head of the retry loop: no retries once closing, and none after the last.
TryAgain(r) ==
  /\ r.stage = "try"
  /\ IF r.attempt = MaxAttempts \/ (r.attempt > 0 /\ closing) THEN Reject(r)
     ELSE /\ Become(r, [r EXCEPT !.stage = "flight"])
          /\ UNCHANGED <<slots, acked, rejected>>
  /\ UNCHANGED untouched

Succeeds(r) ==
  /\ r.stage = "flight"
  /\ Finish(r)
  /\ acked' = acked \cup r.items
  /\ UNCHANGED <<untouched, rejected>>

\* A status that is not retryable, or a request that cannot be built.
FailsForGood(r) ==
  /\ r.stage = "flight"
  /\ Reject(r)
  /\ UNCHANGED untouched

\* A retryable status, a timeout or a broken connection.
FailsForNow(r) ==
  /\ r.stage = "flight"
  /\ Become(r, [r EXCEPT !.stage = "pause"])
  /\ UNCHANGED <<untouched, slots, acked, rejected>>

\* Mutant: an aborted request ends without a word.
AbortedSilently(r) ==
  /\ r.stage = "flight"
  /\ closed
  /\ Finish(r)
  /\ UNCHANGED <<untouched, acked, rejected>>

\* Mutant: nothing cancels the request when the sender is closed.
NeverAborted(r) == FALSE

\* sendOnce's goroutine cancels the request when the channel Closed is closed.
Aborted(r) ==
  /\ r.stage = "flight"
  /\ closed
  /\ Reject(r)
  /\ UNCHANGED untouched

\* The interval ends, or the sender begins to close, or there is no wait at all
\* because this was the last attempt.
PauseEnds(r) ==
  /\ r.stage = "pause"
  /\ Become(r, [r EXCEPT !.stage = "try", !.attempt = @ + 1])
  /\ UNCHANGED <<untouched, slots, acked, rejected>>

-----------------------------------------------------------------------------
(* Close.                                                                  *)

CloseCalled == AwaitCloseLock /\ UNCHANGED senderVars

CloseBegins ==
  /\ BeginClose
  /\ drainer' = "flush"
  /\ toFlush' = Formats
  /\ UNCHANGED <<client, left, pending, timed, requests, slots, acked, rejected>>

FlushOne(f) ==
  /\ drainer = "flush"
  /\ f \in toFlush
  /\ toFlush' = toFlush \ {f}
  /\ pending' = [pending EXCEPT ![f] = << >>]
  /\ IF pending[f] = << >> THEN UNCHANGED <<requests, slots>>
     ELSE Start(<<ToSet(pending[f])>>, TRUE)
  /\ UNCHANGED <<stateVars, client, left, timed, drainer, acked, rejected>>

FlushedAll ==
  /\ drainer = "flush"
  /\ toFlush = {}
  /\ drainer' = "wait"
  /\ UNCHANGED <<stateVars, client, left, pending, timed, requests, slots, toFlush,
                 acked, rejected>>

\* InProgress.Wait returns.
Drained ==
  /\ drainer = "wait"
  /\ requests = {}
  /\ drainer' = "done"
  /\ UNCHANGED <<stateVars, client, left, pending, timed, requests, slots, toFlush,
                 acked, rejected>>

\* Everything is done, or the timeout expires: either way, Closed is closed.
GraceEnds == closer = "grace" /\ FinishClose("abort") /\ UNCHANGED senderVars

\* Everything is done, or AbortTimeout expires.
CloseReturns ==
  /\ closer = "abort"
  /\ closer' = "returned"
  /\ UNCHANGED <<readers, closing, closed, senderVars>>

-----------------------------------------------------------------------------
ClientNext(c) ==
  \/ \E chunk \in Chunks : SendRefused(c, chunk) \/ SendAccepted(c, chunk)
  \/ SendStructured(c) \/ SendDirect(c) \/ SendReturns(c)

\* What a request does by itself; the other ends of an attempt are the server's.
RequestStep(r) ==
  GetSlot(r) \/ StopWaiting(r) \/ Recheck(r) \/ Encode(r) \/ TryAgain(r)
    \/ PauseEnds(r) \/ Aborted(r)

RequestNext(r) ==
  RequestStep(r) \/ Succeeds(r) \/ FailsForGood(r) \/ FailsForNow(r)

CloseNext ==
  \/ CloseCalled \/ CloseBegins
  \/ \E f \in Formats : FlushOne(f)
  \/ FlushedAll \/ Drained \/ GraceEnds \/ CloseReturns

Next ==
  \/ \E c \in Clients : ClientNext(c)
  \/ \E f \in Formats, i \in Items : WindowExpires(f, i) \/ TimedFlush(f, i)
  \/ \E r \in requests : RequestNext(r)
  \/ CloseNext

\* Goroutines that can run do: a Send that was accepted returns, callbacks and
\* requests go on, and Close does, with its timeouts.  Nobody has to call Send
\* or Close, and the server does not have to answer.
Fairness ==
  /\ \A c \in Clients : WF_vars(SendStructured(c) \/ SendDirect(c) \/ SendReturns(c))
  /\ \A f \in Formats, i \in Items : WF_vars(TimedFlush(f, i))
  /\ WF_vars(\E r \in requests : RequestStep(r))
  /\ WF_vars(CloseBegins \/ (\E f \in Formats : FlushOne(f)) \/ FlushedAll \/ Drained)
  /\ WF_vars(GraceEnds \/ CloseReturns)

Spec == Init /\ [][Next]_vars

FairSpec == Spec /\ Fairness

-----------------------------------------------------------------------------
(* Properties.                                                             *)

\* The slots count the requests that are prepared, sent and retried, of which
\* there are never more than configured; each request that ends, on whichever
\* path, gives its slot back exactly once.
SlotsAccounted ==
  /\ slots = Cardinality({r \in requests : r.slot})
  /\ slots <= Slots
  /\ \A r \in requests : r.stage \notin {"wait", "recheck"} => r.slot

\* When Close's wait ends, nothing is pending, in progress or on its way in,
\* and nothing ever is again: no Send and no window callback slips in between
\* the flush of a batcher and the wait.
DrainedIsEmpty ==
  drainer = "done" =>
    /\ requests = {}
    /\ \A f \in Formats : pending[f] = << >>
    /\ \A c \in Clients : left[c] = << >>

\* A request that still waits for a slot when Close begins is never sent, even
\* if a slot is released at that moment.
WaitersNotSentOnceClosing ==
  [][\A r \in requests, next \in requests' :
       closing /\ r.items = next.items /\ r.stage \in {"wait", "recheck"}
         => next.stage \in {"wait", "recheck"}]_vars

\* Every item is resolved once: delivered, or handed to the fallback.
Phase == CASE drainer = "done" -> "drained"
           [] ~closing -> "open"
           [] OTHER -> "closing"

HandoffSpec == INSTANCE Handoff WITH
  phase <- Phase,
  inside <- Inside,
  acked <- acked,
  rejected <- rejected

ImplementsHandoff == HandoffSpec!Spec

\* Close comes to an end with nothing left behind, even if the server never
\* answers: waiting and pausing requests notice that the sender is closing, and
\* requests in flight are aborted after the grace period.
CloseDrains == closer = "locking" ~> drainer = "done"
=============================================================================
