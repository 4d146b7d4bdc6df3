------------------------------ MODULE Batcher ------------------------------
(***************************************************************************)
(* The batcher of src/pkg/flow/batcher.go: concurrent callers add items    *)
(* and flush, timers expire, and the batches that are cut under the lock   *)
(* [mu] are dispatched outside of it.                                      *)
(*                                                                         *)
(* A caller's critical section is split at the items of its chunk; what    *)
(* runs without the lock (dispatching, the expiry of a timer, the guard)   *)
(* interleaves with everything.  A timer is identified with the generation *)
(* its callback captured: startTimer runs at most once per generation.     *)
(***************************************************************************)
EXTENDS Integers, Sequences, FiniteSets, Functions

CONSTANTS
  Callers,        \* goroutines that call AddItem, AddChunk and Flush
  Items,          \* the items they add, each at most once
  SizeOf,         \* Options.SizeOf: the size of each item
  LimitChoices,   \* the Limits, and the guards, a batcher may be created with
  Nobody,         \* [mu] is free
  MaxChunk,       \* bound: items per AddChunk
  MaxGen          \* bound: no Flush from this generation on

ASSUME BatcherAssumption ==
  /\ Nobody \notin Callers
  /\ IsFiniteSet(Callers)
  /\ SizeOf \in [Items -> Nat]
  /\ LimitChoices \subseteq [maxItems : Int, maxBytes : Int, window : BOOLEAN,
                      refuses : BOOLEAN]
  /\ MaxChunk \in Nat /\ MaxGen \in Nat

VARIABLES
  limits,         \* Batcher.limits; a window is positive (TRUE) or disabled;
                  \* with refuses, Options.Guard may refuse to call flush
  batcher,        \* the fields under [mu], and the runtime's armed timers
  mu,             \* who holds the lock
  pc,             \* where each caller is
  todo,           \* items of the caller's chunk that are not appended yet
  ready,          \* batches the caller has cut and not dispatched yet
  fired,          \* callbacks that have not passed the guard yet
  admitted,       \* callbacks inside the guard, that have not locked [mu] yet
  timedReady,     \* batches that callbacks have cut and not dispatched yet
  added,          \* history: every item that was handed to the batcher
  dispatched      \* history: every batch that was passed to dispatch

vars == <<limits, batcher, mu, pc, todo, ready, fired, admitted, timedReady,
          added, dispatched>>

NoTimer == -1     \* Batcher.timer is nil

Chunks == UNION {[1..n -> Items] : n \in 1..MaxChunk}

PCs == {"idle", "lock", "append", "dispatch"}

-----------------------------------------------------------------------------
(* The fields that [mu] protects, and the operations on them.              *)

NewBatcher ==
  [buf |-> << >>, bytes |-> 0, timer |-> NoTimer, gen |-> 0, armed |-> {}]

Passthrough == limits.maxItems <= 0 /\ limits.maxBytes <= 0

\* Mutant: the pending slice is handed out and kept.
NextBatchKeepsBuf(b) ==
  [b EXCEPT !.bytes = 0, !.timer = NoTimer, !.gen = @ + 1, !.armed = @ \ {b.timer}]

\* Stop is a no-op on a timer that has already fired: its callback still runs.
NextBatch(b) ==
  [buf |-> << >>, bytes |-> 0, timer |-> NoTimer, gen |-> b.gen + 1,
   armed |-> b.armed \ {b.timer}]

\* Mutant: the new item's own size is not counted.
OverflowsWithoutItem(b, size) ==
  limits.maxBytes > 0 /\ b.buf # << >> /\ b.bytes > limits.maxBytes

\* The item does not fit in the bytes that the pending batch has left.
Overflows(b, size) ==
  limits.maxBytes > 0 /\ b.buf # << >> /\ b.bytes + size > limits.maxBytes

Full(b) ==
  \/ limits.maxItems > 0 /\ Len(b.buf) >= limits.maxItems
  \/ limits.maxBytes > 0 /\ b.bytes >= limits.maxBytes

SizeIn(item) == IF limits.maxBytes > 0 THEN SizeOf[item] ELSE 0

\* The pending batch with the item in it, after the one it did not fit in was cut.
WithItem(b, item) ==
  LET base == IF Overflows(b, SizeIn(item)) THEN NextBatch(b) ELSE b
  IN  [buf |-> Append(base.buf, item), bytes |-> base.bytes + SizeIn(item),
       timer |-> base.timer, gen |-> base.gen, armed |-> base.armed]

AppendToBatch(b, item) ==
  LET with == WithItem(b, item)
  IN  IF Full(with) THEN NextBatch(with) ELSE with

\* The batches that appendToBatch adds to its caller's "ready" slice.
CutByAppend(b, item) ==
  LET with == WithItem(b, item)
  IN  (IF Overflows(b, SizeIn(item)) THEN <<b.buf>> ELSE << >>)
        \o (IF Full(with) THEN <<with.buf>> ELSE << >>)

StartTimer(b) ==
  IF ~limits.window \/ b.buf = << >> \/ b.timer # NoTimer THEN b
  ELSE [b EXCEPT !.timer = b.gen, !.armed = @ \cup {b.gen}]

-----------------------------------------------------------------------------
(* Callers.                                                                *)

Init ==
  /\ limits \in LimitChoices
  /\ batcher = NewBatcher
  /\ mu = Nobody
  /\ pc = [c \in Callers |-> "idle"]
  /\ todo = [c \in Callers |-> << >>]
  /\ ready = [c \in Callers |-> << >>]
  /\ fired = {} /\ admitted = {} /\ timedReady = {}
  /\ added = {} /\ dispatched = {}

\* AddChunk, and AddItem as the chunk of one item.
AddChunk(c, items) ==
  /\ pc[c] = "idle"
  /\ IsInjective(items)
  /\ Range(items) \cap added = {}
  /\ added' = added \cup Range(items)
  /\ IF Passthrough
     THEN /\ pc' = [pc EXCEPT ![c] = "dispatch"]
          /\ ready' = [ready EXCEPT ![c] = <<items>>]
          /\ UNCHANGED todo
     ELSE /\ pc' = [pc EXCEPT ![c] = "lock"]
          /\ todo' = [todo EXCEPT ![c] = items]
          /\ UNCHANGED ready
  /\ UNCHANGED <<limits, batcher, mu, fired, admitted, timedReady, dispatched>>

Lock(c) ==
  /\ pc[c] = "lock"
  /\ mu = Nobody
  /\ mu' = c
  /\ pc' = [pc EXCEPT ![c] = "append"]
  /\ UNCHANGED <<limits, batcher, todo, ready, fired, admitted, timedReady,
                 added, dispatched>>

AppendItem(c) ==
  /\ pc[c] = "append"
  /\ todo[c] # << >>
  /\ batcher' = AppendToBatch(batcher, Head(todo[c]))
  /\ ready' = [ready EXCEPT ![c] = @ \o CutByAppend(batcher, Head(todo[c]))]
  /\ todo' = [todo EXCEPT ![c] = Tail(@)]
  /\ UNCHANGED <<limits, mu, pc, fired, admitted, timedReady, added, dispatched>>

\* Mutant: startTimer is not called.
UnlockWithoutTimer(c) ==
  /\ pc[c] = "append"
  /\ todo[c] = << >>
  /\ mu' = Nobody
  /\ pc' = [pc EXCEPT ![c] = "dispatch"]
  /\ UNCHANGED <<limits, batcher, todo, ready, fired, admitted, timedReady,
                 added, dispatched>>

Unlock(c) ==
  /\ pc[c] = "append"
  /\ todo[c] = << >>
  /\ batcher' = StartTimer(batcher)
  /\ mu' = Nobody
  /\ pc' = [pc EXCEPT ![c] = "dispatch"]
  /\ UNCHANGED <<limits, todo, ready, fired, admitted, timedReady, added,
                 dispatched>>

DispatchBatches(c) ==
  /\ pc[c] = "dispatch"
  /\ IF ready[c] = << >>
     THEN /\ pc' = [pc EXCEPT ![c] = "idle"]
          /\ UNCHANGED <<ready, dispatched>>
     ELSE /\ dispatched' = dispatched \cup {Head(ready[c])}
          /\ ready' = [ready EXCEPT ![c] = Tail(@)]
          /\ UNCHANGED pc
  /\ UNCHANGED <<limits, batcher, mu, todo, fired, admitted, timedReady, added>>

Flush(c) ==
  /\ pc[c] = "idle"
  /\ mu = Nobody
  /\ batcher.gen < MaxGen
  /\ batcher' = NextBatch(batcher)
  /\ ready' = [ready EXCEPT ![c] = IF batcher.buf = << >> THEN << >>
                                   ELSE <<batcher.buf>>]
  /\ pc' = [pc EXCEPT ![c] = "dispatch"]
  /\ UNCHANGED <<limits, mu, todo, fired, admitted, timedReady, added, dispatched>>

-----------------------------------------------------------------------------
(* Timers: the runtime runs each callback in a goroutine of its own.       *)

Expire(g) ==
  /\ g \in batcher.armed
  /\ batcher' = [batcher EXCEPT !.armed = @ \ {g}]
  /\ fired' = fired \cup {g}
  /\ UNCHANGED <<limits, mu, pc, todo, ready, admitted, timedReady, added,
                 dispatched>>

\* Mutant: the batch is taken before the guard is asked (the code's comment on
\* guardedTimedFlush says why it must not be).
TimedFlushTakesFirst(g) ==
  /\ g \in fired
  /\ mu = Nobody
  /\ fired' = fired \ {g}
  /\ batcher' = IF g = batcher.gen THEN NextBatch(batcher) ELSE batcher
  /\ \/ timedReady' = timedReady \cup {batcher.buf : x \in {g} \cap {batcher.gen}}
     \/ limits.refuses /\ UNCHANGED timedReady
  /\ UNCHANGED <<limits, mu, pc, todo, ready, admitted, added, dispatched>>

\* The guard calls flush synchronously, or not at all.
TimedFlush(g) ==
  /\ g \in fired
  /\ fired' = fired \ {g}
  /\ \/ admitted' = admitted \cup {g}
     \/ limits.refuses /\ UNCHANGED admitted
  /\ UNCHANGED <<limits, batcher, mu, pc, todo, ready, timedReady, added,
                 dispatched>>

\* Mutant: the generation is not compared.
GuardedTimedFlushAnyGen(g) ==
  /\ g \in admitted
  /\ mu = Nobody
  /\ admitted' = admitted \ {g}
  /\ batcher' = NextBatch(batcher)
  /\ timedReady' = timedReady \cup
                     (IF batcher.buf = << >> THEN {} ELSE {batcher.buf})
  /\ UNCHANGED <<limits, mu, pc, todo, ready, fired, added, dispatched>>

GuardedTimedFlush(g) ==
  /\ g \in admitted
  /\ mu = Nobody
  /\ admitted' = admitted \ {g}
  /\ IF g = batcher.gen
     THEN /\ batcher' = NextBatch(batcher)
          /\ timedReady' = timedReady \cup
                             (IF batcher.buf = << >> THEN {} ELSE {batcher.buf})
     ELSE UNCHANGED <<batcher, timedReady>>
  /\ UNCHANGED <<limits, mu, pc, todo, ready, fired, added, dispatched>>

DispatchTimed(b) ==
  /\ b \in timedReady
  /\ timedReady' = timedReady \ {b}
  /\ dispatched' = dispatched \cup {b}
  /\ UNCHANGED <<limits, batcher, mu, pc, todo, ready, fired, admitted, added>>

-----------------------------------------------------------------------------
CallerNext(c) ==
  \/ \E items \in Chunks : AddChunk(c, items)
  \/ Lock(c) \/ AppendItem(c) \/ Unlock(c) \/ DispatchBatches(c) \/ Flush(c)

TimerNext ==
  \/ \E g \in batcher.armed : Expire(g)
  \/ \E g \in fired : TimedFlush(g)
  \/ \E g \in admitted : GuardedTimedFlush(g)
  \/ \E b \in timedReady : DispatchTimed(b)

Next == (\E c \in Callers : CallerNext(c)) \/ TimerNext

\* A caller that has started a call finishes it, and the runtime fires timers
\* and schedules their callbacks; nobody has to start a call.
Fairness ==
  /\ \A c \in Callers :
       WF_vars(Lock(c) \/ AppendItem(c) \/ Unlock(c) \/ DispatchBatches(c))
  /\ WF_vars(TimerNext)

Spec == Init /\ [][Next]_vars

FairSpec == Spec /\ Fairness

-----------------------------------------------------------------------------
(* Properties.                                                             *)

\* The type invariant.
TypeOK ==
  /\ limits \in LimitChoices
  /\ batcher \in [buf : Seq(Items), bytes : Nat, timer : Nat \cup {NoTimer},
                  gen : Nat, armed : SUBSET Nat]
  /\ mu \in Callers \cup {Nobody}
  /\ pc \in [Callers -> PCs]
  /\ todo \in [Callers -> Seq(Items)]
  /\ ready \in [Callers -> Seq(Seq(Items))]
  /\ fired \subseteq Nat /\ admitted \subseteq Nat
  /\ timedReady \subseteq Seq(Items)
  /\ added \subseteq Items
  /\ dispatched \subseteq Seq(Items)

\* How often the item is in the sequence.
Occurs(i, s) == Cardinality({k \in DOMAIN s : s[k] = i})

OccursIn(i, batches) ==
  SumFunction([k \in DOMAIN batches |-> Occurs(i, batches[k])])

\* Every copy of the item that exists anywhere in the batcher.
Copies(i) ==
  Occurs(i, batcher.buf)
    + SumFunction([c \in Callers |-> Occurs(i, todo[c]) + OccursIn(i, ready[c])])
    + SumFunction([b \in timedReady \cup dispatched |->
                     (IF b \in timedReady THEN Occurs(i, b) ELSE 0)
                       + (IF b \in dispatched THEN Occurs(i, b) ELSE 0)])

\* An item that was handed over is in exactly one place at any time: still to
\* be appended, pending, in a batch that somebody is about to dispatch, or
\* dispatched.  No interleaving of callers, flushes and stale or refused timer
\* callbacks loses or duplicates it.
ExactlyOneCopy == \A i \in Items : Copies(i) = IF i \in added THEN 1 ELSE 0

BatchBytes(b) == SumFunction([k \in DOMAIN b |-> SizeOf[b[k]]])

CutBatches ==
  timedReady \cup dispatched \cup UNION {Range(ready[c]) : c \in Callers}

\* No batch exceeds MaxItems, and only an item that exceeds MaxBytes on its
\* own, alone in its batch, exceeds MaxBytes.
BatchesWithinLimits ==
  ~Passthrough =>
    \A b \in CutBatches :
      /\ b # << >>
      /\ limits.maxItems > 0 => Len(b) <= limits.maxItems
      /\ limits.maxBytes > 0 => Len(b) = 1 \/ BatchBytes(b) <= limits.maxBytes

\* What stays pending is below both limits: a batch that reached a limit never
\* waits for the next item or for the timer, and a batcher that is disabled
\* holds nothing back.
PendingBelowLimits ==
  /\ limits.maxItems > 0 => Len(batcher.buf) < limits.maxItems
  /\ limits.maxBytes > 0 => batcher.bytes < limits.maxBytes
  /\ Passthrough => batcher.buf = << >>

\* With a window, a pending batch is never forgotten: outside the critical
\* section its own timer is armed or its callback is on the way, unless the
\* guard refused that callback (the owner then flushes it itself).
PendingBatchHasTimer ==
  limits.window /\ ~limits.refuses /\ mu = Nobody /\ batcher.buf # << >>
    => batcher.gen \in batcher.armed \cup fired \cup admitted

\* A timer that somebody stopped too late does no harm: a callback cuts a
\* batch only if the batcher still holds that very timer, so a younger batch
\* keeps its full window.
OnlyOwnTimerCuts ==
  [][\A g \in admitted \ admitted' :
       batcher'.gen # batcher.gen => batcher.timer = g /\ batcher.buf # << >>]_vars

\* Whatever is pending is dispatched within a window that always ends: with a
\* window, every item that was handed over is eventually dispatched, although
\* nobody has to add more or flush, unless the guard refuses the callbacks.
EventuallyDispatched ==
  \A i \in Items : limits.window /\ ~limits.refuses /\ i \in added
                     ~> \E b \in dispatched : i \in Range(b)

\* The promise: every item is held until it leaves in one batch, once.
Stream == INSTANCE BatchStream WITH
            held <- added \ UNION {Range(b) : b \in dispatched},
            emitted <- dispatched

ImplementsBatchStream == Stream!Spec
=============================================================================
