--------------------------- MODULE BatcherProofs ---------------------------
(***************************************************************************)
(* Theorems about Batcher, for any callers, items, sizes and limits: every *)
(* item that was added is in one batch, batches are within the limits, a   *)
(* pending batch has a live timer, which cuts no other, and the batcher    *)
(* implements BatchStream.                                                 *)
(***************************************************************************)
EXTENDS Batcher, Sums, SequenceTheorems, TLAPS

(***************************************************************************)
(* The strengthening.  A generation has at most one timer, which the       *)
(* batcher holds as long as that generation is pending, so a callback that *)
(* finds its generation current finds its own batch.                       *)
(***************************************************************************)
TimerInv ==
  /\ batcher.timer \in {NoTimer, batcher.gen}
  /\ batcher.timer = batcher.gen => batcher.buf # << >>
  /\ \A g \in batcher.armed \cup fired \cup admitted :
       g <= batcher.gen /\ (g = batcher.gen => batcher.timer = g)

\* [mu] is held exactly by the caller that appends, and only if batching is on.
LockInv ==
  /\ \A c \in Callers : pc[c] = "append" <=> mu = c
  /\ \A c \in Callers : pc[c] \in {"lock", "append"} => ~Passthrough

\* With a window, a batch that outlives a critical section has its timer, and
\* that timer is armed or its callback runs unless a guard dropped it.
WindowInv ==
  /\ limits.window /\ mu = Nobody /\ batcher.buf # << >>
       => batcher.timer = batcher.gen
  /\ ~limits.refuses /\ batcher.timer = batcher.gen
       => batcher.gen \in batcher.armed \cup fired \cup admitted

BatcherInv ==
  TypeOK /\ TimerInv /\ LockInv /\ WindowInv /\ PendingBelowLimits

BatcherType ==
  [buf : Seq(Items), bytes : Nat, timer : Nat \cup {NoTimer}, gen : Nat,
   armed : SUBSET Nat]

-----------------------------------------------------------------------------
(* What the operations on the protected fields do.                         *)

\* nextBatch leaves an empty batch of the next generation without a timer.
LEMMA NextBatchFacts ==
  ASSUME NEW b \in BatcherType
  PROVE  /\ NextBatch(b) \in BatcherType
         /\ NextBatch(b).buf = << >>
         /\ NextBatch(b).bytes = 0
         /\ NextBatch(b).timer = NoTimer
         /\ NextBatch(b).gen = b.gen + 1
         /\ NextBatch(b).armed = b.armed \ {b.timer}
  BY DEF NextBatch, BatcherType, NoTimer

\* appendToBatch keeps the generation and its timer, and then the batch is not
\* empty, or moves on to a later generation without a timer.
LEMMA AppendFacts ==
  ASSUME TypeOK, NEW item \in Items
  PROVE  LET b == AppendToBatch(batcher, item)
         IN  /\ b \in BatcherType
             /\ \/ /\ b.gen = batcher.gen
                   /\ b.timer = batcher.timer
                   /\ b.armed = batcher.armed
                   /\ b.buf # << >>
                \/ /\ b.gen > batcher.gen
                   /\ b.timer = NoTimer
                   /\ b.armed = batcher.armed \ {batcher.timer}
             /\ limits.maxItems > 0 => Len(b.buf) < limits.maxItems
             /\ limits.maxBytes > 0 => b.bytes < limits.maxBytes
  <1> DEFINE size == SizeIn(item)
             over == Overflows(batcher, size)
             base == IF over THEN NextBatch(batcher) ELSE batcher
             with == WithItem(batcher, item)
             b == AppendToBatch(batcher, item)
  <1>1. batcher \in BatcherType /\ limits \in LimitChoices
    BY DEF TypeOK, BatcherType
  <1>2. limits.maxItems \in Int /\ limits.maxBytes \in Int
    BY <1>1, BatcherAssumption DEF BatcherAssumption
  <1>3. size \in Nat
    BY BatcherAssumption DEF BatcherAssumption, SizeIn
  <1>4. base \in BatcherType
    BY <1>1, NextBatchFacts
  <1>5. with = [buf |-> Append(base.buf, item), bytes |-> base.bytes + size,
                timer |-> base.timer, gen |-> base.gen, armed |-> base.armed]
    BY DEF WithItem
  <1>6. b = IF Full(with) THEN NextBatch(with) ELSE with
    BY DEF AppendToBatch
  <1>7. over => /\ base.timer = NoTimer /\ base.gen = batcher.gen + 1
                /\ base.armed = batcher.armed \ {batcher.timer}
    BY <1>1, NextBatchFacts
  <1>8. ~over => base = batcher
    OBVIOUS
  <1> HIDE DEF size, over, base, with, b
  <1>9. /\ with \in BatcherType
        /\ with.gen = base.gen /\ with.timer = base.timer
        /\ with.armed = base.armed
        /\ with.buf # << >>
    BY <1>3, <1>4, <1>5, AppendProperties DEF BatcherType
  <1>10. NoTimer \notin batcher.armed
    BY <1>1 DEF NoTimer, BatcherType
  <1>11. CASE Full(with)
    <2>1. /\ b \in BatcherType /\ b.buf = << >> /\ b.bytes = 0
          /\ b.timer = NoTimer /\ b.gen = with.gen + 1
          /\ b.armed = with.armed \ {with.timer}
      BY <1>6, <1>9, <1>11, NextBatchFacts
    <2>2. b.gen > batcher.gen
      BY <1>1, <1>7, <1>8, <1>9, <2>1 DEF BatcherType
    <2>3. b.armed = batcher.armed \ {batcher.timer}
      BY <1>7, <1>8, <1>9, <1>10, <2>1
    <2> QED BY <2>1, <2>2, <2>3, <1>2 DEF b
  <1>12. CASE ~Full(with)
    <2>1. b = with
      BY <1>6, <1>12
    <2>2. /\ limits.maxItems > 0 => Len(b.buf) < limits.maxItems
          /\ limits.maxBytes > 0 => b.bytes < limits.maxBytes
      BY <2>1, <1>2, <1>9, <1>12 DEF Full, BatcherType
    <2>3. CASE over
      <3>1. b.gen > batcher.gen
        BY <2>1, <2>3, <1>1, <1>7, <1>9 DEF BatcherType
      <3> QED BY <2>1, <2>2, <2>3, <3>1, <1>7, <1>9 DEF b
    <2>4. CASE ~over
      BY <2>1, <2>2, <2>4, <1>8, <1>9 DEF b
    <2> QED BY <2>3, <2>4
  <1> QED BY <1>11, <1>12

\* The batches that appendToBatch reports are sequences of items.
LEMMA CutTyped ==
  ASSUME TypeOK, NEW item \in Items
  PROVE  CutByAppend(batcher, item) \in Seq(Seq(Items))
  <1>1. batcher \in BatcherType
    BY DEF TypeOK, BatcherType
  <1>2. WithItem(batcher, item).buf \in Seq(Items)
    <2>1. NextBatch(batcher).buf \in Seq(Items) /\ batcher.buf \in Seq(Items)
      BY <1>1, NextBatchFacts DEF BatcherType
    <2> QED BY <2>1, AppendProperties DEF WithItem
  <1>3. <<batcher.buf>> \in Seq(Seq(Items)) /\ << >> \in Seq(Seq(Items))
        /\ <<WithItem(batcher, item).buf>> \in Seq(Seq(Items))
    BY <1>1, <1>2 DEF BatcherType
  <1> QED BY <1>3, ConcatProperties DEF CutByAppend

\* startTimer leaves a batch with the timer of its generation, or changes nothing.
LEMMA StartTimerFacts ==
  ASSUME TypeOK
  PROVE  LET b == StartTimer(batcher)
         IN  /\ b \in BatcherType
             /\ b.buf = batcher.buf /\ b.bytes = batcher.bytes
             /\ b.gen = batcher.gen
             /\ \/ /\ b.timer = batcher.gen /\ b.buf # << >>
                   /\ b.armed = batcher.armed \cup {batcher.gen}
                \/ /\ b = batcher
                   /\ ~limits.window \/ batcher.buf = << >> \/ batcher.timer # NoTimer
  BY DEF StartTimer, TypeOK, BatcherType

-----------------------------------------------------------------------------
(* The invariant holds initially and is preserved by every action.         *)

\* A new batcher is empty, unlocked and has no timers.
LEMMA InitInv == Init => BatcherInv
  <1> SUFFICES ASSUME Init PROVE BatcherInv
    OBVIOUS
  <1>1. limits.maxItems \in Int /\ limits.maxBytes \in Int
    BY BatcherAssumption DEF Init, BatcherAssumption
  <1>2. batcher.buf = << >> /\ batcher.bytes = 0 /\ batcher.timer = NoTimer
        /\ batcher.gen = 0 /\ batcher.armed = {}
    BY DEF Init, NewBatcher
  <1>3. TypeOK
    BY DEF Init, TypeOK, NewBatcher, PCs, NoTimer
  <1>4. TimerInv /\ WindowInv
    BY <1>2 DEF Init, TimerInv, WindowInv, NoTimer
  <1>5. LockInv
    BY BatcherAssumption DEF Init, LockInv, BatcherAssumption
  <1>6. PendingBelowLimits
    BY <1>1, <1>2 DEF PendingBelowLimits
  <1> QED BY <1>3, <1>4, <1>5, <1>6 DEF BatcherInv

\* Steps of a caller that do not touch the protected fields.
LEMMA CallerStepOutsideLock ==
  ASSUME BatcherInv, NEW c \in Callers,
         \/ \E items \in Chunks : AddChunk(c, items)
         \/ Lock(c)
         \/ DispatchBatches(c)
  PROVE  BatcherInv'
  <1> USE DEF BatcherInv
  <1>1. CASE \E items \in Chunks : AddChunk(c, items)
    <2>1. PICK items \in Chunks : AddChunk(c, items)
      BY <1>1
    <2>2. items \in Seq(Items)
      BY DEF Chunks
    <2>3. Range(items) \subseteq Items
      BY <2>2 DEF Range
    <2>4. TypeOK'
      <3>1. <<items>> \in Seq(Seq(Items)) /\ added' \subseteq Items
        BY <2>1, <2>2, <2>3 DEF TypeOK, AddChunk
      <3>2. /\ pc' \in [Callers -> PCs]
            /\ todo' \in [Callers -> Seq(Items)]
            /\ ready' \in [Callers -> Seq(Seq(Items))]
        BY <2>1, <2>2, <3>1 DEF TypeOK, AddChunk, PCs
      <3> QED BY <2>1, <3>1, <3>2 DEF TypeOK, AddChunk
    <2>5. LockInv'
      BY <2>1, BatcherAssumption DEF TypeOK, AddChunk, LockInv, Passthrough, BatcherAssumption
    <2> QED BY <2>1, <2>4, <2>5
      DEF AddChunk, TimerInv, WindowInv, PendingBelowLimits, Passthrough
  <1>2. CASE Lock(c)
    <2>1. TypeOK'
      BY <1>2 DEF TypeOK, Lock, PCs
    <2>2. LockInv'
      BY <1>2, BatcherAssumption DEF TypeOK, Lock, LockInv, Passthrough, BatcherAssumption
    <2>3. mu' # Nobody
      BY <1>2, BatcherAssumption DEF Lock, BatcherAssumption
    <2> QED BY <1>2, <2>1, <2>2, <2>3
      DEF Lock, TimerInv, WindowInv, PendingBelowLimits, Passthrough
  <1>3. CASE DispatchBatches(c)
    <2>1. TypeOK'
      <3>1. ready[c] # << >> => /\ Head(ready[c]) \in Seq(Items)
                                /\ Tail(ready[c]) \in Seq(Seq(Items))
        BY DEF TypeOK
      <3> QED BY <1>3, <3>1 DEF TypeOK, DispatchBatches, PCs
    <2>2. LockInv'
      BY <1>3 DEF TypeOK, DispatchBatches, LockInv, Passthrough
    <2> QED BY <1>3, <2>1, <2>2
      DEF DispatchBatches, TimerInv, WindowInv, PendingBelowLimits, Passthrough
  <1> QED BY <1>1, <1>2, <1>3

\* Steps of a caller that holds [mu].
LEMMA CallerStepInsideLock ==
  ASSUME BatcherInv, NEW c \in Callers, AppendItem(c) \/ Unlock(c) \/ Flush(c)
  PROVE  BatcherInv'
  <1> USE DEF BatcherInv
  <1>0. /\ batcher \in BatcherType
        /\ limits.maxItems \in Int /\ limits.maxBytes \in Int
        /\ c # Nobody
    BY BatcherAssumption DEF TypeOK, BatcherType, BatcherAssumption
  <1>1. CASE AppendItem(c)
    <2> DEFINE item == Head(todo[c])
    <2>1. item \in Items /\ Tail(todo[c]) \in Seq(Items) /\ ~Passthrough /\ mu = c
      BY <1>1 DEF AppendItem, TypeOK, LockInv
    <2>2. batcher' = AppendToBatch(batcher, item)
      BY <1>1 DEF AppendItem
    <2> HIDE DEF item
    <2>3. /\ batcher' \in BatcherType
          /\ \/ /\ batcher'.gen = batcher.gen
                /\ batcher'.timer = batcher.timer
                /\ batcher'.armed = batcher.armed
                /\ batcher'.buf # << >>
             \/ /\ batcher'.gen > batcher.gen
                /\ batcher'.timer = NoTimer
                /\ batcher'.armed = batcher.armed \ {batcher.timer}
          /\ limits.maxItems > 0 => Len(batcher'.buf) < limits.maxItems
          /\ limits.maxBytes > 0 => batcher'.bytes < limits.maxBytes
      BY <2>1, <2>2, AppendFacts
    <2>4. TypeOK'
      <3>1. ready[c] \o CutByAppend(batcher, item) \in Seq(Seq(Items))
        BY <2>1, CutTyped, ConcatProperties DEF TypeOK
      <3>2. /\ ready' = [ready EXCEPT ![c] = @ \o CutByAppend(batcher, item)]
            /\ todo' = [todo EXCEPT ![c] = Tail(@)]
        BY <1>1 DEF AppendItem, item
      <3>3. /\ ready' \in [Callers -> Seq(Seq(Items))]
            /\ todo' \in [Callers -> Seq(Items)]
        BY <2>1, <3>1, <3>2 DEF TypeOK
      <3> QED BY <1>1, <2>3, <3>3 DEF AppendItem, TypeOK, BatcherType
    <2>5. UNCHANGED <<limits, mu, pc, fired, admitted>>
      BY <1>1 DEF AppendItem
    <2>6. TimerInv'
      BY <1>0, <2>3, <2>5 DEF TimerInv, TypeOK, BatcherType, NoTimer
    <2>7. LockInv'
      BY <2>5 DEF LockInv, Passthrough
    <2>8. WindowInv'
      BY <1>0, <2>1, <2>3, <2>5 DEF WindowInv, TypeOK, BatcherType, NoTimer
    <2>9. PendingBelowLimits'
      BY <2>1, <2>3, <2>5 DEF PendingBelowLimits, Passthrough
    <2> QED BY <2>4, <2>6, <2>7, <2>8, <2>9
  <1>2. CASE Unlock(c)
    <2>1. batcher' = StartTimer(batcher) /\ mu = c /\ ~Passthrough
      BY <1>2 DEF Unlock, LockInv
    <2>2. /\ batcher' \in BatcherType
          /\ batcher'.buf = batcher.buf /\ batcher'.bytes = batcher.bytes
          /\ batcher'.gen = batcher.gen
          /\ \/ /\ batcher'.timer = batcher.gen /\ batcher'.buf # << >>
                /\ batcher'.armed = batcher.armed \cup {batcher.gen}
             \/ /\ batcher' = batcher
                /\ ~limits.window \/ batcher.buf = << >> \/ batcher.timer # NoTimer
      BY <2>1, StartTimerFacts
    <2>3. UNCHANGED <<limits, fired, admitted, todo, ready, timedReady, added, dispatched>>
          /\ mu' = Nobody /\ pc' = [pc EXCEPT ![c] = "dispatch"]
      BY <1>2 DEF Unlock
    <2>4. TypeOK'
      BY <2>2, <2>3 DEF TypeOK, BatcherType, PCs
    <2>5. TimerInv'
      BY <1>0, <2>2, <2>3 DEF TimerInv, TypeOK, BatcherType, NoTimer
    <2>6. LockInv'
      BY <1>0, <2>1, <2>3, BatcherAssumption DEF LockInv, Passthrough, TypeOK, BatcherAssumption
    <2>7. WindowInv'
      BY <1>0, <2>2, <2>3 DEF WindowInv, TimerInv, TypeOK, BatcherType, NoTimer
    <2>8. PendingBelowLimits'
      BY <2>1, <2>2, <2>3 DEF PendingBelowLimits, Passthrough
    <2> QED BY <2>4, <2>5, <2>6, <2>7, <2>8
  <1>3. CASE Flush(c)
    <2>1. batcher' = NextBatch(batcher)
          /\ UNCHANGED <<limits, mu, todo, fired, admitted, timedReady, added, dispatched>>
          /\ pc[c] = "idle" /\ pc' = [pc EXCEPT ![c] = "dispatch"]
      BY <1>3 DEF Flush
    <2>2. /\ batcher' \in BatcherType /\ batcher'.buf = << >> /\ batcher'.bytes = 0
          /\ batcher'.timer = NoTimer /\ batcher'.gen = batcher.gen + 1
          /\ batcher'.armed = batcher.armed \ {batcher.timer}
      BY <1>0, <2>1, NextBatchFacts
    <2>3. TypeOK'
      <3>1. ready' \in [Callers -> Seq(Seq(Items))]
        BY <1>0, <1>3 DEF Flush, TypeOK, BatcherType
      <3> QED BY <2>1, <2>2, <3>1 DEF TypeOK, BatcherType, PCs
    <2>4. TimerInv'
      BY <1>0, <2>1, <2>2 DEF TimerInv, TypeOK, BatcherType, NoTimer
    <2>5. LockInv'
      BY <1>0, <2>1 DEF LockInv, Passthrough, TypeOK
    <2>6. WindowInv'
      BY <1>0, <2>1, <2>2 DEF WindowInv, TypeOK, BatcherType, NoTimer
    <2>7. PendingBelowLimits'
      BY <1>0, <2>1, <2>2 DEF PendingBelowLimits, Passthrough
    <2> QED BY <2>3, <2>4, <2>5, <2>6, <2>7
  <1> QED BY <1>1, <1>2, <1>3

\* Steps of the timers and their callbacks.
LEMMA TimerStep ==
  ASSUME BatcherInv, TimerNext
  PROVE  BatcherInv'
  <1> USE DEF BatcherInv
  <1>0. /\ batcher \in BatcherType
        /\ limits.maxItems \in Int /\ limits.maxBytes \in Int
    BY BatcherAssumption DEF TypeOK, BatcherType, BatcherAssumption
  <1>1. CASE \E g \in batcher.armed : Expire(g)
    <2>1. PICK g \in batcher.armed : Expire(g)
      BY <1>1
    <2>2. /\ batcher' \in BatcherType
          /\ batcher'.buf = batcher.buf /\ batcher'.bytes = batcher.bytes
          /\ batcher'.timer = batcher.timer /\ batcher'.gen = batcher.gen
          /\ batcher'.armed = batcher.armed \ {g}
      BY <1>0, <2>1 DEF Expire, BatcherType
    <2>3. /\ UNCHANGED <<limits, mu, pc, todo, ready, admitted, timedReady, added, dispatched>>
          /\ fired' = fired \cup {g} /\ g \in Nat
      BY <1>0, <2>1 DEF Expire, BatcherType
    <2>4. TypeOK'
      BY <2>2, <2>3 DEF TypeOK, BatcherType
    <2> QED BY <2>1, <2>2, <2>3, <2>4
      DEF TimerInv, LockInv, WindowInv, PendingBelowLimits, Passthrough
  <1>2. CASE \E g \in fired : TimedFlush(g)
    <2>1. PICK g \in fired : TimedFlush(g)
      BY <1>2
    <2>2. TypeOK'
      BY <2>1 DEF TimedFlush, TypeOK
    <2> QED BY <2>1, <2>2
      DEF TimedFlush, TimerInv, LockInv, WindowInv, PendingBelowLimits, Passthrough
  <1>3. CASE \E g \in admitted : GuardedTimedFlush(g)
    <2>1. PICK g \in admitted : GuardedTimedFlush(g)
      BY <1>3
    <2>2. /\ UNCHANGED <<limits, mu, pc, todo, ready, fired, added, dispatched>>
          /\ admitted' = admitted \ {g}
      BY <2>1 DEF GuardedTimedFlush
    <2>3. CASE g = batcher.gen
      <3>1. batcher' = NextBatch(batcher)
        BY <2>1, <2>3 DEF GuardedTimedFlush
      <3>2. /\ batcher' \in BatcherType /\ batcher'.buf = << >> /\ batcher'.bytes = 0
            /\ batcher'.timer = NoTimer /\ batcher'.gen = batcher.gen + 1
            /\ batcher'.armed = batcher.armed \ {batcher.timer}
        BY <1>0, <3>1, NextBatchFacts
      <3>3. TypeOK'
        <4>1. timedReady' \subseteq Seq(Items)
          BY <1>0, <2>1 DEF GuardedTimedFlush, TypeOK, BatcherType
        <4> QED BY <2>2, <3>2, <4>1 DEF TypeOK, BatcherType
      <3>4. TimerInv' /\ WindowInv'
        BY <1>0, <2>2, <3>2 DEF TimerInv, WindowInv, TypeOK, BatcherType, NoTimer
      <3>5. LockInv' /\ PendingBelowLimits'
        BY <1>0, <2>2, <3>2 DEF LockInv, PendingBelowLimits, Passthrough
      <3> QED BY <3>3, <3>4, <3>5
    <2>4. CASE g # batcher.gen
      <3>1. UNCHANGED <<batcher, timedReady>>
        BY <2>1, <2>4 DEF GuardedTimedFlush
      <3>2. TypeOK'
        BY <2>2, <3>1 DEF TypeOK
      <3> QED BY <2>2, <2>4, <3>1, <3>2
        DEF TimerInv, LockInv, WindowInv, PendingBelowLimits, Passthrough
    <2> QED BY <2>3, <2>4
  <1>4. CASE \E b \in timedReady : DispatchTimed(b)
    <2>1. PICK b \in timedReady : DispatchTimed(b)
      BY <1>4
    <2>2. TypeOK'
      BY <2>1 DEF DispatchTimed, TypeOK
    <2> QED BY <2>1, <2>2
      DEF DispatchTimed, TimerInv, LockInv, WindowInv, PendingBelowLimits, Passthrough
  <1> QED BY <1>1, <1>2, <1>3, <1>4 DEF TimerNext

\* Every step of a caller or of a timer keeps the invariant.
LEMMA StepInv == BatcherInv /\ [Next]_vars => BatcherInv'
  <1> SUFFICES ASSUME BatcherInv, [Next]_vars PROVE BatcherInv'
    OBVIOUS
  <1>1. ASSUME NEW c \in Callers, CallerNext(c) PROVE BatcherInv'
    BY <1>1, CallerStepOutsideLock, CallerStepInsideLock DEF CallerNext
  <1>2. CASE TimerNext
    BY <1>2, TimerStep
  <1>3. CASE UNCHANGED vars
    BY <1>3 DEF vars, BatcherInv, TypeOK, TimerInv, LockInv, WindowInv,
                PendingBelowLimits, Passthrough
  <1> QED BY <1>1, <1>2, <1>3 DEF Next

\* The inductive invariant holds in every state of the batcher.
THEOREM Invariance == Spec => []BatcherInv
  BY InitInv, StepInv, PTL DEF Spec

-----------------------------------------------------------------------------
(* Counting: how often an item is in a batch and in a sequence of batches, *)
(* as sums over their indices.                                             *)

Hits(i, s) == [k \in 1..Len(s) |-> IF s[k] = i THEN 1 ELSE 0]

HitsIn(i, bs) == [k \in 1..Len(bs) |-> Occurs(i, bs[k])]

\* An item occurs as often as an index hits it.
LEMMA OccursSum ==
  ASSUME NEW i, NEW s \in Seq(Items)
  PROVE  /\ Len(s) \in Nat
         /\ Hits(i, s) \in [1..Len(s) -> Nat] /\ Hits(i, s) \in [1..Len(s) -> Int]
         /\ Occurs(i, s) = SumFunction(Hits(i, s))
         /\ Occurs(i, s) \in Nat
  <1> DEFINE n == Len(s)
             I == 1..n
             h == Hits(i, s)
  <1>1. n \in Nat /\ DOMAIN s = I
    OBVIOUS
  <1>2. h \in [I -> Nat] /\ h \in [I -> Int] /\ \A k \in I : h[k] = IF s[k] = i THEN 1 ELSE 0
    BY DEF Hits
  <1>3. {k \in DOMAIN s : s[k] = i} = {k \in I : h[k] = 1}
    BY <1>1, <1>2
  <1>4. IsFiniteSet(I)
    BY <1>1, FS_Interval
  <1>5. \A k \in I : h[k] \in {0, 1}
    BY <1>2
  <1> HIDE DEF h
  <1>6. SumFunction(h) = SumFunctionOnSet(h, I) /\ SumFunction(h) \in Nat
    BY <1>1, <1>2, SeqSumType
  <1>7. SumFunctionOnSet(h, I) = Cardinality({k \in I : h[k] = 1})
    <2> HIDE DEF I
    <2> QED BY <1>4, <1>5, SumCounts
  <1> QED BY <1>1, <1>2, <1>3, <1>6, <1>7 DEF Occurs, h

\* Nothing occurs in the empty batch.
LEMMA OccursEmpty == ASSUME NEW i PROVE Occurs(i, << >>) = 0
  <1>1. {k \in DOMAIN << >> : << >>[k] = i} = {}
    OBVIOUS
  <1> QED BY <1>1, FS_EmptySet DEF Occurs

\* Appending an item adds one occurrence of it.
LEMMA OccursAppend ==
  ASSUME NEW i, NEW s \in Seq(Items), NEW x \in Items
  PROVE  Occurs(i, Append(s, x)) = Occurs(i, s) + (IF x = i THEN 1 ELSE 0)
  <1> DEFINE t == Append(s, x)
             n == Len(s)
             u == Hits(i, s)
             v == Hits(i, t)
  <1>1. t \in Seq(Items) /\ Len(t) = n + 1 /\ t[n + 1] = x /\ \A k \in 1..n : t[k] = s[k]
    BY AppendProperties
  <1>2. n \in Nat /\ u \in [1..n -> Int] /\ Occurs(i, s) = SumFunction(u)
    BY OccursSum
  <1>3. v \in [1..Len(t) -> Int] /\ Occurs(i, t) = SumFunction(v)
    BY <1>1, OccursSum
  <1>4. (\A k \in 1..n : v[k] = u[k]) /\ v[n + 1] = IF x = i THEN 1 ELSE 0
    BY <1>1, <1>2 DEF Hits
  <1>5. v \in [1..(n + 1) -> Int]
    BY <1>1, <1>3
  <1> HIDE DEF t, n, u, v
  <1>6. SumFunction(v) = SumFunction(u) + v[n + 1]
    BY <1>2, <1>4, <1>5, SeqSumAppend
  <1> QED BY <1>2, <1>3, <1>4, <1>6 DEF t

\* The head and the tail of a batch hold what the batch holds.
LEMMA OccursTail ==
  ASSUME NEW i, NEW s \in Seq(Items), s # << >>
  PROVE  Occurs(i, s) = (IF Head(s) = i THEN 1 ELSE 0) + Occurs(i, Tail(s))
  <1> DEFINE t == Tail(s)
             n == Len(t)
             w == Hits(i, s)
             v == Hits(i, t)
  <1>1. t \in Seq(Items) /\ Len(s) = n + 1 /\ s[1] = Head(s) /\ \A k \in 1..n : t[k] = s[k + 1]
    BY HeadTailProperties
  <1>2. n \in Nat /\ v \in [1..n -> Int] /\ Occurs(i, t) = SumFunction(v)
    BY <1>1, OccursSum
  <1>3. w \in [1..(n + 1) -> Int] /\ Occurs(i, s) = SumFunction(w)
    BY <1>1, OccursSum
  <1>4. (\A k \in 1..n : v[k] = w[k + 1]) /\ w[1] = IF Head(s) = i THEN 1 ELSE 0
    BY <1>1, <1>2 DEF Hits
  <1> HIDE DEF t, n, w, v
  <1>5. SumFunction(w) = w[1] + SumFunction(v)
    BY <1>2, <1>3, <1>4, SeqSumTail
  <1> QED BY <1>2, <1>3, <1>4, <1>5 DEF t

\* An item occurs in a batch if and only if it is one of its elements, and at
\* most once if the batch has no two equal ones.
LEMMA OccursRange ==
  ASSUME NEW i, NEW s \in Seq(Items)
  PROVE  /\ i \in Range(s) <=> Occurs(i, s) >= 1
         /\ IsInjective(s) => Occurs(i, s) = IF i \in Range(s) THEN 1 ELSE 0
  <1> DEFINE O == {k \in DOMAIN s : s[k] = i}
  <1>1. IsFiniteSet(O) /\ Occurs(i, s) = Cardinality(O) /\ Occurs(i, s) \in Nat
    <2>1. DOMAIN s = 1..Len(s) /\ Len(s) \in Nat
      OBVIOUS
    <2>2. IsFiniteSet(1..Len(s))
      BY <2>1, FS_Interval
    <2> QED BY <2>1, <2>2, OccursSum, FS_Subset DEF Occurs
  <1>2. i \in Range(s) <=> O # {}
    BY DEF Range
  <1>3. IsInjective(s) => \A j, k \in O : j = k
    BY DEF IsInjective
  <1> HIDE DEF O
  <1>4. O = {} <=> Cardinality(O) = 0
    BY <1>1, FS_EmptySet
  <1>5. ASSUME \A j, k \in O : j = k, O # {} PROVE Cardinality(O) = 1
    <2>1. PICK j : j \in O
      BY <1>5
    <2>2. O = {j}
      BY <1>5, <2>1
    <2> QED BY <2>2, FS_Singleton
  <1> DEFINE n == Occurs(i, s)
  <1>6. n \in Nat /\ (i \in Range(s) <=> n # 0)
    BY <1>1, <1>2, <1>4
  <1>7. IsInjective(s) /\ i \in Range(s) => n = 1
    BY <1>1, <1>2, <1>3, <1>5
  <1> HIDE DEF n
  <1>8. /\ i \in Range(s) <=> n >= 1
        /\ IsInjective(s) => n = IF i \in Range(s) THEN 1 ELSE 0
    BY <1>6, <1>7
  <1> QED BY <1>8 DEF n

\* A batch in which no item occurs twice has no two equal elements.
LEMMA OnceInjective ==
  ASSUME NEW s \in Seq(Items), \A i \in Items : Occurs(i, s) <= 1
  PROVE  IsInjective(s)
  <1> SUFFICES ASSUME NEW j \in DOMAIN s, NEW k \in DOMAIN s, s[j] = s[k], j # k
               PROVE  FALSE
    BY DEF IsInjective
  <1> DEFINE i == s[j]
             O == {m \in DOMAIN s : s[m] = i}
  <1>1. DOMAIN s = 1..Len(s) /\ Len(s) \in Nat /\ i \in Items
    OBVIOUS
  <1>2. IsFiniteSet(DOMAIN s)
    BY <1>1, FS_Interval
  <1>3. IsFiniteSet(O) /\ j \in O /\ k \in O /\ O \subseteq DOMAIN s
    BY <1>2, FS_Subset
  <1>4. Cardinality(O) <= 1 /\ Cardinality(O) \in Nat
    BY <1>1, <1>3, FS_CardinalityType DEF Occurs
  <1> HIDE DEF O
  <1>5. Cardinality(O) = 1
    BY <1>3, <1>4, FS_EmptySet
  <1>6. \E x : O = {x}
    BY <1>3, <1>5, FS_Singleton
  <1> QED BY <1>3, <1>6

\* What occurs in a sequence of batches is the sum over its batches.
LEMMA OccursInSum ==
  ASSUME NEW i, NEW bs \in Seq(Seq(Items))
  PROVE  /\ Len(bs) \in Nat
         /\ HitsIn(i, bs) \in [1..Len(bs) -> Nat] /\ HitsIn(i, bs) \in [1..Len(bs) -> Int]
         /\ OccursIn(i, bs) = SumFunction(HitsIn(i, bs))
         /\ OccursIn(i, bs) \in Nat
  <1> DEFINE n == Len(bs)
             h == HitsIn(i, bs)
  <1>1. n \in Nat /\ DOMAIN bs = 1..n /\ \A k \in 1..n : bs[k] \in Seq(Items)
    OBVIOUS
  <1>2. \A k \in 1..n : Occurs(i, bs[k]) \in Nat
    BY <1>1, OccursSum
  <1>3. h \in [1..n -> Nat] /\ h \in [1..n -> Int]
    BY <1>2 DEF HitsIn
  <1>4. OccursIn(i, bs) = SumFunction(h)
    BY <1>1 DEF OccursIn, HitsIn
  <1> HIDE DEF h
  <1>5. SumFunction(h) \in Nat
    BY <1>1, <1>3, SeqSumType
  <1> QED BY <1>1, <1>3, <1>4, <1>5 DEF h

\* Nothing occurs in no batches.
LEMMA OccursInEmpty == ASSUME NEW i PROVE OccursIn(i, << >>) = 0
  <1>1. << >> \in Seq(Seq(Items)) /\ Len(<< >>) = 0 /\ 0 \in Nat
    OBVIOUS
  <1>2. OccursIn(i, << >>) = SumFunction(HitsIn(i, << >>)) /\ HitsIn(i, << >>) \in [1..0 -> Nat]
    BY <1>1, OccursInSum
  <1>3. SumFunction(HitsIn(i, << >>)) = 0
    BY <1>1, <1>2, SeqSumType
  <1> QED BY <1>2, <1>3

\* The occurrences in the first batch and in the others add up.
LEMMA OccursInTail ==
  ASSUME NEW i, NEW bs \in Seq(Seq(Items)), bs # << >>
  PROVE  OccursIn(i, bs) = Occurs(i, Head(bs)) + OccursIn(i, Tail(bs))
  <1> DEFINE t == Tail(bs)
             n == Len(t)
             w == HitsIn(i, bs)
             v == HitsIn(i, t)
  <1>1. /\ t \in Seq(Seq(Items)) /\ Len(bs) = n + 1
        /\ bs[1] = Head(bs) /\ \A k \in 1..n : t[k] = bs[k + 1]
    BY HeadTailProperties
  <1>2. n \in Nat /\ v \in [1..n -> Int] /\ OccursIn(i, t) = SumFunction(v)
    BY <1>1, OccursInSum
  <1>3. w \in [1..(n + 1) -> Int] /\ OccursIn(i, bs) = SumFunction(w)
    BY <1>1, OccursInSum
  <1>4. (\A k \in 1..n : v[k] = w[k + 1]) /\ w[1] = Occurs(i, Head(bs))
    BY <1>1, <1>2 DEF HitsIn
  <1> HIDE DEF t, n, w, v
  <1>5. SumFunction(w) = w[1] + SumFunction(v)
    BY <1>2, <1>3, <1>4, SeqSumTail
  <1> QED BY <1>2, <1>3, <1>4, <1>5 DEF t

\* What occurs in a single batch.
LEMMA OccursInSingle ==
  ASSUME NEW i, NEW b \in Seq(Items)
  PROVE  OccursIn(i, <<b>>) = Occurs(i, b)
  <1>1. <<b>> \in Seq(Seq(Items)) /\ <<b>> # << >> /\ Head(<<b>>) = b /\ Tail(<<b>>) = << >>
    OBVIOUS
  <1>2. OccursIn(i, <<b>>) = Occurs(i, b) + OccursIn(i, << >>)
    BY <1>1, OccursInTail
  <1> QED BY <1>2, OccursInEmpty, OccursSum

\* Batches that are added to others add their occurrences.
LEMMA OccursInConcat ==
  ASSUME NEW i, NEW bs \in Seq(Seq(Items)), NEW cs \in Seq(Seq(Items))
  PROVE  OccursIn(i, bs \o cs) = OccursIn(i, bs) + OccursIn(i, cs)
  <1> DEFINE ds == bs \o cs
             m == Len(bs)
             n == Len(cs)
             u == HitsIn(i, bs)
             v == HitsIn(i, cs)
             w == HitsIn(i, ds)
  <1>1. /\ ds \in Seq(Seq(Items)) /\ Len(ds) = m + n
        /\ \A k \in 1..m : ds[k] = bs[k]
        /\ \A k \in 1..n : ds[m + k] = cs[k]
    BY ConcatProperties
  <1>2. m \in Nat /\ u \in [1..m -> Int] /\ OccursIn(i, bs) = SumFunction(u)
    BY OccursInSum
  <1>3. n \in Nat /\ v \in [1..n -> Int] /\ OccursIn(i, cs) = SumFunction(v)
    BY OccursInSum
  <1>4. w \in [1..(m + n) -> Int] /\ OccursIn(i, ds) = SumFunction(w)
    BY <1>1, OccursInSum
  <1>5. (\A k \in 1..m : w[k] = u[k]) /\ (\A k \in 1..n : w[m + k] = v[k])
    BY <1>1, <1>2, <1>3 DEF HitsIn
  <1> HIDE DEF ds, m, n, u, v, w
  <1>6. SumFunction(w) = SumFunction(u) + SumFunction(v)
    BY <1>2, <1>3, <1>4, <1>5, SeqSumConcat
  <1> QED BY <1>2, <1>3, <1>4, <1>6 DEF ds

\* The bytes of a batch.
LEMMA BatchBytesFacts ==
  ASSUME NEW s \in Seq(Items)
  PROVE  /\ BatchBytes(s) \in Nat
         /\ s = << >> => BatchBytes(s) = 0
         /\ \A x \in Items : BatchBytes(Append(s, x)) = BatchBytes(s) + SizeOf[x]
  <1> DEFINE Sizes(t) == [k \in 1..Len(t) |-> SizeOf[t[k]]]
             n == Len(s)
  <1>1. ASSUME NEW t \in Seq(Items)
        PROVE  /\ Len(t) \in Nat /\ Sizes(t) \in [1..Len(t) -> Nat]
               /\ Sizes(t) \in [1..Len(t) -> Int] /\ BatchBytes(t) = SumFunction(Sizes(t))
    <2>1. Len(t) \in Nat /\ DOMAIN t = 1..Len(t) /\ \A k \in 1..Len(t) : t[k] \in Items
      OBVIOUS
    <2>2. \A k \in 1..Len(t) : SizeOf[t[k]] \in Nat
      BY <2>1, BatcherAssumption DEF BatcherAssumption
    <2> QED BY <2>1, <2>2 DEF BatchBytes
  <1>2. n \in Nat /\ Sizes(s) \in [1..n -> Nat] /\ Sizes(s) \in [1..n -> Int]
        /\ BatchBytes(s) = SumFunction(Sizes(s))
    BY <1>1
  <1>3. s = << >> => n = 0
    OBVIOUS
  <1>4. ASSUME NEW x \in Items PROVE BatchBytes(Append(s, x)) = BatchBytes(s) + SizeOf[x]
    <2> DEFINE t == Append(s, x)
               u == Sizes(s)
               v == Sizes(t)
    <2>1. t \in Seq(Items) /\ Len(t) = n + 1 /\ t[n + 1] = x /\ \A k \in 1..n : t[k] = s[k]
      BY AppendProperties
    <2>2. v \in [1..(n + 1) -> Int] /\ BatchBytes(t) = SumFunction(v)
      BY <1>1, <2>1
    <2>3. (\A k \in 1..n : v[k] = u[k]) /\ v[n + 1] = SizeOf[x]
      BY <1>2, <2>1
    <2>4. u \in [1..n -> Int] /\ BatchBytes(s) = SumFunction(u)
      BY <1>2
    <2> HIDE DEF t, u, v, n
    <2>5. SumFunction(v) = SumFunction(u) + v[n + 1]
      BY <1>2, <2>2, <2>3, <2>4, SeqSumAppend
    <2> QED BY <2>2, <2>3, <2>4, <2>5 DEF t
  <1> HIDE DEF Sizes, n
  <1>5. SumFunction(Sizes(s)) \in Nat /\ (n = 0 => SumFunction(Sizes(s)) = 0)
    BY <1>2, SeqSumType
  <1> QED BY <1>2, <1>3, <1>4, <1>5

-----------------------------------------------------------------------------
(* Where the copies of an item are: besides the pending batch, in the      *)
(* hands of the callers, and in the batches that left them.                *)

HandCount(i, td, rd) ==
  SumFunction([c \in Callers |-> Occurs(i, td[c]) + OccursIn(i, rd[c])])

OutCount(i, T, D) ==
  SumFunction([b \in T \cup D |-> (IF b \in T THEN Occurs(i, b) ELSE 0)
                                    + (IF b \in D THEN Occurs(i, b) ELSE 0)])

\* The callers hold at least what one of them holds.
LEMMA HandFacts ==
  ASSUME NEW i, NEW td \in [Callers -> Seq(Items)], NEW rd \in [Callers -> Seq(Seq(Items))]
  PROVE  /\ HandCount(i, td, rd) \in Nat
         /\ \A c \in Callers : HandCount(i, td, rd) >= Occurs(i, td[c]) + OccursIn(i, rd[c])
  <1> DEFINE f == [c \in Callers |-> Occurs(i, td[c]) + OccursIn(i, rd[c])]
  <1>1. \A c \in Callers : Occurs(i, td[c]) \in Nat /\ OccursIn(i, rd[c]) \in Nat
    BY OccursSum, OccursInSum
  <1>2. /\ \A c \in Callers : f[c] \in Nat /\ f[c] = Occurs(i, td[c]) + OccursIn(i, rd[c])
        /\ DOMAIN f = Callers
    BY <1>1
  <1>3. IsFiniteSet(Callers)
    BY BatcherAssumption DEF BatcherAssumption
  <1>4. HandCount(i, td, rd) = SumFunctionOnSet(f, Callers)
    BY DEF HandCount, SumFunction
  <1> HIDE DEF f
  <1>5. SumFunctionOnSet(f, Callers) \in Nat
    BY <1>2, <1>3, SumType
  <1>6. \A c \in Callers : SumFunctionOnSet(f, Callers) >= f[c]
    BY <1>2, <1>3, SumAtLeast
  <1> QED BY <1>2, <1>4, <1>5, <1>6

\* When one caller's number changes, the sum changes by as much.
LEMMA CallerSumChange ==
  ASSUME NEW c \in Callers, NEW f \in [Callers -> Nat], NEW e \in [Callers -> Nat],
         \A d \in Callers : d # c => e[d] = f[d]
  PROVE  SumFunction(e) = SumFunction(f) - f[c] + e[c]
  <1>1. IsFiniteSet(Callers)
    BY BatcherAssumption DEF BatcherAssumption
  <1>2. /\ \A x \in Callers : f[x] \in Int
        /\ \A x \in Callers \ {c} : e[x] = f[x]
        /\ e[c] \in Int
    OBVIOUS
  <1>3. SumFunctionOnSet(e, Callers) = SumFunctionOnSet(f, Callers) - f[c] + e[c]
    BY <1>1, <1>2, SumChange
  <1> QED BY <1>3 DEF SumFunction

\* When one caller's hands change, the count changes by as much.
LEMMA HandChange ==
  ASSUME NEW i,
         NEW td \in [Callers -> Seq(Items)], NEW rd \in [Callers -> Seq(Seq(Items))],
         NEW tn \in [Callers -> Seq(Items)], NEW rn \in [Callers -> Seq(Seq(Items))],
         NEW c \in Callers, \A d \in Callers : d # c => tn[d] = td[d] /\ rn[d] = rd[d]
  PROVE  HandCount(i, tn, rn) = HandCount(i, td, rd)
           - (Occurs(i, td[c]) + OccursIn(i, rd[c])) + (Occurs(i, tn[c]) + OccursIn(i, rn[c]))
  <1> DEFINE f == [d \in Callers |-> Occurs(i, td[d]) + OccursIn(i, rd[d])]
             e == [d \in Callers |-> Occurs(i, tn[d]) + OccursIn(i, rn[d])]
  <1>1. \A d \in Callers : /\ Occurs(i, td[d]) \in Nat /\ OccursIn(i, rd[d]) \in Nat
                           /\ Occurs(i, tn[d]) \in Nat /\ OccursIn(i, rn[d]) \in Nat
    BY OccursSum, OccursInSum
  <1>2. f \in [Callers -> Nat] /\ e \in [Callers -> Nat]
    <2>1. \A d \in Callers : Occurs(i, td[d]) + OccursIn(i, rd[d]) \in Nat
      BY <1>1
    <2>2. \A d \in Callers : Occurs(i, tn[d]) + OccursIn(i, rn[d]) \in Nat
      BY <1>1
    <2>3. f \in [Callers -> Nat]
      BY <2>1, Zenon
    <2>4. e \in [Callers -> Nat]
      BY <2>2, Zenon
    <2> QED BY <2>3, <2>4
  <1>3. \A d \in Callers : d # c => e[d] = f[d]
    OBVIOUS
  <1>4. /\ f[c] = Occurs(i, td[c]) + OccursIn(i, rd[c])
        /\ e[c] = Occurs(i, tn[c]) + OccursIn(i, rn[c])
    OBVIOUS
  <1>5. HandCount(i, td, rd) = SumFunction(f) /\ HandCount(i, tn, rn) = SumFunction(e)
    BY DEF HandCount
  <1> HIDE DEF f, e
  <1>6. SumFunction(e) = SumFunction(f) - f[c] + e[c]
    BY <1>2, <1>3, CallerSumChange
  <1> QED BY <1>4, <1>5, <1>6

\* The batches that left hold at least what two of them hold, and what a batch
\* that both waits and was dispatched holds counts twice.
LEMMA OutFacts ==
  ASSUME NEW i, NEW T \in SUBSET Seq(Items), NEW D \in SUBSET Seq(Items),
         IsFiniteSet(T), IsFiniteSet(D)
  PROVE  /\ OutCount(i, T, D) \in Nat
         /\ \A b \in T \cup D : OutCount(i, T, D) >= Occurs(i, b)
         /\ \A b \in T, d \in D : OutCount(i, T, D) >= Occurs(i, b) + Occurs(i, d)
  <1> DEFINE U == T \cup D
             f == [b \in U |-> (IF b \in T THEN Occurs(i, b) ELSE 0)
                                 + (IF b \in D THEN Occurs(i, b) ELSE 0)]
             total == SumFunctionOnSet(f, U)
  <1>1. \A b \in U : Occurs(i, b) \in Nat
    BY OccursSum
  <1>2. /\ \A b \in U : f[b] \in Nat /\ f[b] >= Occurs(i, b)
        /\ \A b \in T \cap D : f[b] = Occurs(i, b) + Occurs(i, b)
        /\ DOMAIN f = U
    BY <1>1
  <1>3. IsFiniteSet(U)
    BY FS_Union
  <1>4. OutCount(i, T, D) = total
    BY DEF OutCount, SumFunction
  <1>5. T \subseteq U /\ D \subseteq U
    OBVIOUS
  <1> HIDE DEF f, U
  <1>6. total \in Nat /\ \A b \in U : total >= f[b]
    <2>1. total \in Nat
      BY <1>2, <1>3, SumType
    <2>2. \A b \in U : total >= f[b]
      BY <1>2, <1>3, SumAtLeast
    <2> QED BY <2>1, <2>2
  <1>7. ASSUME NEW b \in T, NEW d \in D PROVE total >= Occurs(i, b) + Occurs(i, d)
    <2>1. CASE b = d
      <3>1. f[b] = Occurs(i, b) + Occurs(i, d) /\ f[b] \in Nat /\ total >= f[b]
        BY <1>2, <1>5, <1>6, <2>1
      <3> QED BY <3>1
    <2>2. CASE b # d
      <3> DEFINE R == U \ {b}
                 rest == SumFunctionOnSet(f, R)
      <3>1. IsFiniteSet(R) /\ d \in R /\ \A x \in R : f[x] \in Nat
        BY <1>2, <1>3, <1>5, <2>2, FS_RemoveElement
      <3>2. total = f[b] + rest
        <4>1. b \in U /\ \A x \in U : f[x] \in Int
          BY <1>2, <1>5
        <4> QED BY <4>1, <1>3, SumRemove
      <3> HIDE DEF R
      <3>3. rest \in Nat /\ rest >= f[d]
        <4>1. rest \in Nat
          BY <3>1, SumType
        <4>2. rest >= f[d]
          BY <3>1, SumAtLeast
        <4> QED BY <4>1, <4>2
      <3>4. /\ f[b] \in Nat /\ f[d] \in Nat /\ f[b] >= Occurs(i, b) /\ f[d] >= Occurs(i, d)
            /\ Occurs(i, b) \in Nat /\ Occurs(i, d) \in Nat
        BY <1>1, <1>2, <1>5
      <3> HIDE DEF rest, total
      <3> QED BY <3>2, <3>3, <3>4
    <2> QED BY <2>1, <2>2
  <1>8. \A b \in U : total >= Occurs(i, b)
    <2> SUFFICES ASSUME NEW b \in U PROVE total >= Occurs(i, b)
      OBVIOUS
    <2>1. total \in Nat /\ f[b] \in Nat /\ Occurs(i, b) \in Nat /\ total >= f[b] /\ f[b] >= Occurs(i, b)
      BY <1>1, <1>2, <1>6
    <2> HIDE DEF total
    <2> QED BY <2>1
  <1> HIDE DEF total
  <1> QED BY <1>4, <1>6, <1>7, <1>8 DEF U

\* A new batch adds what it holds, wherever it goes.
LEMMA OutAdd ==
  ASSUME NEW i, NEW T \in SUBSET Seq(Items), NEW D \in SUBSET Seq(Items),
         IsFiniteSet(T), IsFiniteSet(D), NEW b \in Seq(Items), b \notin T \cup D
  PROVE  /\ OutCount(i, T \cup {b}, D) = OutCount(i, T, D) + Occurs(i, b)
         /\ OutCount(i, T, D \cup {b}) = OutCount(i, T, D) + Occurs(i, b)
  <1> DEFINE U == T \cup D
             V == U \cup {b}
             f == [x \in U |-> (IF x \in T THEN Occurs(i, x) ELSE 0)
                                 + (IF x \in D THEN Occurs(i, x) ELSE 0)]
             g == [x \in V |-> IF x = b THEN Occurs(i, b) ELSE f[x]]
  <1>1. Occurs(i, b) \in Nat /\ \A x \in U : Occurs(i, x) \in Nat
    BY OccursSum
  <1>2. /\ \A x \in U : f[x] \in Int /\ g[x] = f[x] /\ g[x] \in Int
        /\ g[b] = Occurs(i, b) /\ g[b] \in Int
        /\ DOMAIN g = V
    BY <1>1
  <1>3. IsFiniteSet(U) /\ b \notin U
    BY FS_Union
  <1>4. OutCount(i, T, D) = SumFunctionOnSet(f, U)
    BY DEF OutCount, SumFunction
  <1>5. [x \in (T \cup {b}) \cup D |-> (IF x \in T \cup {b} THEN Occurs(i, x) ELSE 0)
                                         + (IF x \in D THEN Occurs(i, x) ELSE 0)] = g
    BY <1>1
  <1>6. [x \in T \cup (D \cup {b}) |-> (IF x \in T THEN Occurs(i, x) ELSE 0)
                                         + (IF x \in D \cup {b} THEN Occurs(i, x) ELSE 0)] = g
    BY <1>1
  <1>7. OutCount(i, T \cup {b}, D) = SumFunction(g) /\ OutCount(i, T, D \cup {b}) = SumFunction(g)
    BY <1>5, <1>6 DEF OutCount
  <1> HIDE DEF f, g, U
  <1>8. SumFunction(g) = SumFunctionOnSet(g, U \cup {b})
    BY <1>2 DEF SumFunction
  <1>9. SumFunctionOnSet(g, U \cup {b}) = SumFunctionOnSet(g, U) + g[b]
    <2>1. \A x \in U : g[x] \in Int
      BY <1>2
    <2>2. g[b] \in Int
      BY <1>2
    <2> QED BY <2>1, <2>2, <1>3, SumAdd
  <1>10. SumFunctionOnSet(g, U) = SumFunctionOnSet(f, U)
    BY <1>2, <1>3, SumSame
  <1> QED BY <1>2, <1>4, <1>7, <1>8, <1>9, <1>10

\* A batch that is dispatched moves; nothing is added or lost.
LEMMA OutMove ==
  ASSUME NEW i, NEW T \in SUBSET Seq(Items), NEW D \in SUBSET Seq(Items),
         NEW b \in T, b \notin D
  PROVE  OutCount(i, T \ {b}, D \cup {b}) = OutCount(i, T, D)
  <1>1. \A x \in T \cup D : Occurs(i, x) \in Nat
    BY OccursSum
  <1>2. [x \in (T \ {b}) \cup (D \cup {b}) |->
           (IF x \in T \ {b} THEN Occurs(i, x) ELSE 0)
             + (IF x \in D \cup {b} THEN Occurs(i, x) ELSE 0)]
          = [x \in T \cup D |-> (IF x \in T THEN Occurs(i, x) ELSE 0)
                                  + (IF x \in D THEN Occurs(i, x) ELSE 0)]
    BY <1>1
  <1> QED BY <1>2 DEF OutCount

-----------------------------------------------------------------------------
(* The invariant of the items: nothing but the counts of the copies, plus  *)
(* what makes a batch that moves a new one wherever it arrives: it is not  *)
(* empty, so if it were there already some item would be counted twice.    *)

\* A batch that may be dispatched.
GoodBatch(b) ==
  /\ b # << >>
  /\ limits.maxItems > 0 => Len(b) <= limits.maxItems
  /\ limits.maxBytes > 0 => Len(b) = 1 \/ BatchBytes(b) <= limits.maxBytes

\* A caller has appended its whole chunk before it dispatches, and dispatched
\* everything before it returns.
HandsInv ==
  \A c \in Callers : /\ pc[c] \in {"idle", "dispatch"} => todo[c] = << >>
                     /\ pc[c] = "idle" => ready[c] = << >>

BytesInv == limits.maxBytes > 0 => batcher.bytes = BatchBytes(batcher.buf)

CutInv ==
  /\ IsFiniteSet(timedReady) /\ IsFiniteSet(dispatched)
  /\ \A b \in timedReady \cup dispatched : GoodBatch(b)
  /\ \A c \in Callers : \A k \in 1..Len(ready[c]) : GoodBatch(ready[c][k])

CopyInv == HandsInv /\ BytesInv /\ CutInv /\ ExactlyOneCopy

\* A pending batch that is not empty may be dispatched as it is.
LEMMA PendingGood ==
  ASSUME TypeOK, BytesInv, PendingBelowLimits, batcher.buf # << >>
  PROVE  GoodBatch(batcher.buf)
  <1>1. batcher.buf \in Seq(Items) /\ Len(batcher.buf) \in Nat /\ batcher.bytes \in Nat
    BY DEF TypeOK
  <1>2. limits.maxItems \in Int /\ limits.maxBytes \in Int
    BY BatcherAssumption DEF TypeOK, BatcherAssumption
  <1> QED BY <1>1, <1>2 DEF GoodBatch, BytesInv, PendingBelowLimits

\* appendToBatch accounts for the item and for everything that was pending, and
\* the batches it cuts may be dispatched.
LEMMA AppendCounts ==
  ASSUME TypeOK, BytesInv, PendingBelowLimits, NEW item \in Items
  PROVE  LET b == AppendToBatch(batcher, item)
             cut == CutByAppend(batcher, item)
         IN  /\ \A i : Occurs(i, b.buf) + OccursIn(i, cut)
                         = Occurs(i, batcher.buf) + (IF item = i THEN 1 ELSE 0)
             /\ limits.maxBytes > 0 => b.bytes = BatchBytes(b.buf)
             /\ \A k \in 1..Len(cut) : GoodBatch(cut[k])
  <1> DEFINE size == SizeIn(item)
             over == Overflows(batcher, size)
             base == IF over THEN NextBatch(batcher) ELSE batcher
             with == WithItem(batcher, item)
             full == Full(with)
             b == AppendToBatch(batcher, item)
             c1 == IF over THEN <<batcher.buf>> ELSE << >>
             c2 == IF full THEN <<with.buf>> ELSE << >>
             cut == CutByAppend(batcher, item)
             hit(i) == IF item = i THEN 1 ELSE 0
  <1>1. batcher \in BatcherType /\ batcher.buf \in Seq(Items) /\ batcher.bytes \in Nat
    BY DEF TypeOK, BatcherType
  <1>2. limits.maxItems \in Int /\ limits.maxBytes \in Int
    BY BatcherAssumption DEF TypeOK, BatcherAssumption
  <1>3. size \in Nat /\ (limits.maxBytes > 0 => size = SizeOf[item])
    BY BatcherAssumption DEF BatcherAssumption, SizeIn
  <1>4. /\ NextBatch(batcher).buf = << >> /\ NextBatch(batcher).bytes = 0
        /\ NextBatch(with).buf = << >> /\ NextBatch(with).bytes = 0
    BY DEF NextBatch
  <1>5. /\ over => base.buf = << >> /\ base.bytes = 0
        /\ ~over => base.buf = batcher.buf /\ base.bytes = batcher.bytes
    BY <1>4
  <1>6. over => batcher.buf # << >>
    BY DEF Overflows
  <1>7. ~over /\ limits.maxBytes > 0 /\ batcher.buf # << >>
          => batcher.bytes + size <= limits.maxBytes
    BY <1>1, <1>2, <1>3 DEF Overflows
  <1>8. with.buf = Append(base.buf, item) /\ with.bytes = base.bytes + size
    BY DEF WithItem
  <1>9. /\ full => b.buf = << >> /\ b.bytes = 0
        /\ ~full => b.buf = with.buf /\ b.bytes = with.bytes
    BY <1>4 DEF AppendToBatch
  <1>10. cut = c1 \o c2
    BY DEF CutByAppend
  <1>11. base.buf \in Seq(Items) /\ base.bytes \in Nat
    <2>1. base \in BatcherType
      BY <1>1, NextBatchFacts
    <2> QED BY <2>1 DEF BatcherType
  <1>12. /\ c1 = IF over THEN <<batcher.buf>> ELSE << >>
         /\ c2 = IF full THEN <<with.buf>> ELSE << >>
    OBVIOUS
  <1> HIDE DEF size, over, base, with, full, b, c1, c2, cut
  <1>13. with.buf \in Seq(Items) /\ Len(with.buf) = Len(base.buf) + 1 /\ with.buf # << >>
    BY <1>8, <1>11, AppendProperties
  <1>14. c1 \in Seq(Seq(Items)) /\ c2 \in Seq(Seq(Items))
    BY <1>1, <1>12, <1>13
  <1>15. ASSUME NEW i
         PROVE  Occurs(i, b.buf) + OccursIn(i, cut) = Occurs(i, batcher.buf) + hit(i)
    <2>1. OccursIn(i, cut) = OccursIn(i, c1) + OccursIn(i, c2)
      BY <1>10, <1>14, OccursInConcat
    <2>2. OccursIn(i, c1) = IF over THEN Occurs(i, batcher.buf) ELSE 0
      BY <1>1, <1>12, OccursInSingle, OccursInEmpty
    <2>3. OccursIn(i, c2) = IF full THEN Occurs(i, with.buf) ELSE 0
      BY <1>12, <1>13, OccursInSingle, OccursInEmpty
    <2>4. Occurs(i, b.buf) = IF full THEN 0 ELSE Occurs(i, with.buf)
      BY <1>9, OccursEmpty
    <2>5. Occurs(i, with.buf) = Occurs(i, base.buf) + hit(i)
      BY <1>8, <1>11, OccursAppend
    <2>6. Occurs(i, base.buf) = IF over THEN 0 ELSE Occurs(i, batcher.buf)
      BY <1>5, OccursEmpty
    <2>7. Occurs(i, batcher.buf) \in Nat /\ Occurs(i, base.buf) \in Nat /\ Occurs(i, with.buf) \in Nat
      BY <1>1, <1>11, <1>13, OccursSum
    <2>8. hit(i) \in Nat
      OBVIOUS
    <2> HIDE DEF hit
    <2> QED BY <2>1, <2>2, <2>3, <2>4, <2>5, <2>6, <2>7, <2>8
  <1>16. BatchBytes(<< >>) = 0
    <2>1. << >> \in Seq(Items)
      OBVIOUS
    <2> QED BY <2>1, BatchBytesFacts
  <1>17. limits.maxBytes > 0 => /\ base.bytes = BatchBytes(base.buf)
                                /\ with.bytes = BatchBytes(with.buf)
                                /\ b.bytes = BatchBytes(b.buf)
    <2> SUFFICES ASSUME limits.maxBytes > 0
                 PROVE  /\ base.bytes = BatchBytes(base.buf)
                        /\ with.bytes = BatchBytes(with.buf)
                        /\ b.bytes = BatchBytes(b.buf)
      OBVIOUS
    <2>1. base.bytes = BatchBytes(base.buf)
      BY <1>5, <1>16 DEF BytesInv
    <2>2. BatchBytes(with.buf) = BatchBytes(base.buf) + SizeOf[item]
      BY <1>8, <1>11, BatchBytesFacts
    <2>3. with.bytes = BatchBytes(with.buf)
      BY <1>3, <1>8, <2>1, <2>2
    <2> QED BY <1>9, <1>16, <2>1, <2>3
  <1>18. GoodBatch(with.buf)
    <2>1. Len(base.buf) \in Nat /\ (base.buf = << >> <=> Len(base.buf) = 0)
      BY <1>11
    <2>2. limits.maxItems > 0 => Len(with.buf) <= limits.maxItems
      <3>1. limits.maxItems > 0 => Len(base.buf) < limits.maxItems
        BY <1>2, <1>5, <2>1 DEF PendingBelowLimits
      <3> QED BY <1>2, <1>13, <2>1, <3>1
    <2>3. limits.maxBytes > 0 => Len(with.buf) = 1 \/ BatchBytes(with.buf) <= limits.maxBytes
      <3>1. CASE base.buf = << >>
        BY <1>13, <2>1, <3>1
      <3>2. CASE base.buf # << >>
        BY <1>5, <1>7, <1>8, <1>17, <3>2
      <3> QED BY <3>1, <3>2
    <2> QED BY <1>13, <2>2, <2>3 DEF GoodBatch
  <1>19. over => GoodBatch(batcher.buf)
    BY <1>6, PendingGood
  <1>20. ASSUME NEW k \in 1..Len(cut) PROVE GoodBatch(cut[k])
    <2>1. cut[k] \in {batcher.buf, with.buf} /\ (cut[k] # with.buf => over)
      BY <1>10, <1>12, <1>1, <1>13
    <2> QED BY <1>18, <1>19, <2>1
  <1> QED BY <1>15, <1>17, <1>20 DEF b, cut

\* The copies of an item, before and after a step.
LEMMA CopiesParts ==
  /\ \A i : Copies(i) = Occurs(i, batcher.buf) + HandCount(i, todo, ready)
                          + OutCount(i, timedReady, dispatched)
  /\ \A i : Copies(i)' = Occurs(i, batcher'.buf) + HandCount(i, todo', ready')
                           + OutCount(i, timedReady', dispatched')
  BY DEF Copies, HandCount, OutCount

\* The parts are natural numbers.
LEMMA PartsTyped ==
  ASSUME TypeOK, CutInv
  PROVE  \A i : /\ Occurs(i, batcher.buf) \in Nat
                /\ HandCount(i, todo, ready) \in Nat
                /\ OutCount(i, timedReady, dispatched) \in Nat
  <1>1. /\ batcher.buf \in Seq(Items)
        /\ todo \in [Callers -> Seq(Items)] /\ ready \in [Callers -> Seq(Seq(Items))]
        /\ timedReady \in SUBSET Seq(Items) /\ dispatched \in SUBSET Seq(Items)
        /\ IsFiniteSet(timedReady) /\ IsFiniteSet(dispatched)
    BY DEF TypeOK, CutInv
  <1>2. \A i : Occurs(i, batcher.buf) \in Nat
    BY <1>1, OccursSum
  <1>3. \A i : HandCount(i, todo, ready) \in Nat
    BY <1>1, HandFacts
  <1>4. \A i : OutCount(i, timedReady, dispatched) \in Nat
    BY <1>1, OutFacts
  <1> QED BY <1>2, <1>3, <1>4

\* A batch that may be dispatched has an item, and it is counted.
LEMMA SomeItem ==
  ASSUME NEW b \in Seq(Items), b # << >>
  PROVE  \E i \in Items : Occurs(i, b) >= 1
  <1>1. b[1] \in Items /\ b[1] \in Range(b)
    BY DEF Range
  <1> QED BY <1>1, OccursRange

\* Where no two copies exist, a batch in hand is in no other place, and none of
\* its items has left.
LEMMA InHandIsNew ==
  ASSUME TypeOK, CopyInv, NEW b \in Seq(Items), b # << >>,
         \A i \in Items : Occurs(i, b) <= Occurs(i, batcher.buf) + HandCount(i, todo, ready)
  PROVE  /\ b \notin timedReady \cup dispatched
         /\ \A i \in Range(b) : i \in added /\ \A d \in dispatched : i \notin Range(d)
         /\ IsInjective(b)
  <1> DEFINE T == timedReady
             D == dispatched
  <1>1. /\ T \in SUBSET Seq(Items) /\ D \in SUBSET Seq(Items)
        /\ IsFiniteSet(T) /\ IsFiniteSet(D)
    BY DEF TypeOK, CopyInv, CutInv
  <1>2. ASSUME NEW i \in Items
        PROVE  /\ Occurs(i, b) \in Nat /\ OutCount(i, T, D) \in Nat
               /\ Occurs(i, b) + OutCount(i, T, D) <= IF i \in added THEN 1 ELSE 0
               /\ Occurs(i, b) + OutCount(i, T, D) <= 1
    <2>1. Copies(i) = (IF i \in added THEN 1 ELSE 0) /\ Occurs(i, b) \in Nat
      BY OccursSum DEF CopyInv, ExactlyOneCopy
    <2>2. Copies(i) = Occurs(i, batcher.buf) + HandCount(i, todo, ready) + OutCount(i, T, D)
      BY CopiesParts
    <2>3. /\ Occurs(i, batcher.buf) \in Nat /\ HandCount(i, todo, ready) \in Nat
          /\ OutCount(i, T, D) \in Nat
      BY PartsTyped DEF CopyInv
    <2> QED BY <2>1, <2>2, <2>3
  <1> HIDE DEF T, D
  <1>3. b \notin T \cup D
    <2> SUFFICES ASSUME b \in T \cup D PROVE FALSE
      OBVIOUS
    <2>1. PICK i \in Items : Occurs(i, b) >= 1
      BY SomeItem
    <2>2. OutCount(i, T, D) >= Occurs(i, b)
      BY <1>1, OutFacts
    <2>3. /\ Occurs(i, b) \in Nat /\ OutCount(i, T, D) \in Nat
          /\ Occurs(i, b) + OutCount(i, T, D) <= 1
      BY <1>2
    <2> QED BY <2>1, <2>2, <2>3
  <1>4. ASSUME NEW i \in Range(b), NEW d \in D
        PROVE  i \in Items /\ i \in added /\ i \notin Range(d)
    <2>1. i \in Items /\ Occurs(i, b) >= 1
      BY OccursRange DEF Range
    <2>2. i \in added
      BY <1>2, <2>1
    <2>3. d \in Seq(Items) /\ OutCount(i, T, D) >= Occurs(i, d)
      BY <1>1, OutFacts
    <2>4. Occurs(i, d) \in Nat /\ ~(Occurs(i, d) >= 1)
      <3>1. /\ Occurs(i, b) \in Nat /\ OutCount(i, T, D) \in Nat
            /\ Occurs(i, b) + OutCount(i, T, D) <= 1
        BY <1>2, <2>1
      <3>2. Occurs(i, d) \in Nat
        BY <2>3, OccursSum
      <3> QED BY <2>1, <2>3, <3>1, <3>2
    <2> QED BY <2>1, <2>2, <2>3, <2>4, OccursRange
  <1>5. ASSUME NEW i \in Range(b) PROVE i \in added
    <2>1. i \in Items /\ Occurs(i, b) >= 1
      BY OccursRange DEF Range
    <2> QED BY <1>2, <2>1
  <1>6. \A i \in Items : Occurs(i, b) <= 1
    BY <1>2
  <1> QED BY <1>3, <1>4, <1>5, <1>6, OnceInjective DEF T, D

\* A batch that waits for its callback is not dispatched yet, and neither is
\* any of its items.
LEMMA TimedIsNew ==
  ASSUME TypeOK, CopyInv, NEW b \in timedReady
  PROVE  /\ b \notin dispatched
         /\ \A i \in Range(b) : i \in added /\ \A d \in dispatched : i \notin Range(d)
         /\ IsInjective(b)
  <1> DEFINE T == timedReady
             D == dispatched
  <1>1. /\ T \in SUBSET Seq(Items) /\ D \in SUBSET Seq(Items)
        /\ IsFiniteSet(T) /\ IsFiniteSet(D) /\ b \in T /\ b \in Seq(Items) /\ b # << >>
    BY DEF TypeOK, CopyInv, CutInv, GoodBatch
  <1>2. ASSUME NEW i \in Items
        PROVE  /\ OutCount(i, T, D) <= IF i \in added THEN 1 ELSE 0
               /\ OutCount(i, T, D) \in Nat
    <2>1. Copies(i) = (IF i \in added THEN 1 ELSE 0)
      BY DEF CopyInv, ExactlyOneCopy
    <2>2. Copies(i) = Occurs(i, batcher.buf) + HandCount(i, todo, ready) + OutCount(i, T, D)
      BY CopiesParts
    <2>3. /\ Occurs(i, batcher.buf) \in Nat /\ HandCount(i, todo, ready) \in Nat
          /\ OutCount(i, T, D) \in Nat
      BY PartsTyped DEF CopyInv
    <2> QED BY <2>1, <2>2, <2>3
  <1> HIDE DEF T, D
  <1>3. ASSUME NEW i \in Items
        PROVE  /\ Occurs(i, b) \in Nat /\ Occurs(i, b) <= IF i \in added THEN 1 ELSE 0
               /\ \A d \in D : /\ Occurs(i, d) \in Nat
                               /\ Occurs(i, b) + Occurs(i, d) <= 1
    <2>1. Occurs(i, b) \in Nat /\ \A d \in D : Occurs(i, d) \in Nat
      BY <1>1, OccursSum
    <2>2. OutCount(i, T, D) >= Occurs(i, b)
      BY <1>1, OutFacts
    <2>3. \A d \in D : OutCount(i, T, D) >= Occurs(i, b) + Occurs(i, d)
      BY <1>1, OutFacts
    <2> QED BY <1>2, <2>1, <2>2, <2>3
  <1>4. b \notin D
    <2> SUFFICES ASSUME b \in D PROVE FALSE
      OBVIOUS
    <2>1. PICK i \in Items : Occurs(i, b) >= 1
      BY <1>1, SomeItem
    <2> QED BY <1>3, <2>1
  <1>5. ASSUME NEW i \in Range(b) PROVE i \in added /\ \A d \in D : i \notin Range(d)
    <2>1. i \in Items /\ Occurs(i, b) >= 1
      BY <1>1, OccursRange DEF Range
    <2>2. i \in added
      BY <1>3, <2>1
    <2>3. ASSUME NEW d \in D PROVE i \notin Range(d)
      <3>1. d \in Seq(Items) /\ ~(Occurs(i, d) >= 1)
        BY <1>1, <1>3, <2>1
      <3> QED BY <3>1, OccursRange
    <2> QED BY <2>2, <2>3
  <1>6. \A i \in Items : Occurs(i, b) <= 1
    BY <1>3
  <1> QED BY <1>1, <1>4, <1>5, <1>6, OnceInjective DEF D

\* A step of one caller changes the count of the hands by what it changes its own.
LEMMA HandStep ==
  ASSUME TypeOK, TypeOK', NEW c \in Callers,
         \A d \in Callers : d # c => todo'[d] = todo[d] /\ ready'[d] = ready[d]
  PROVE  \A i : HandCount(i, todo', ready')
                  = HandCount(i, todo, ready) - (Occurs(i, todo[c]) + OccursIn(i, ready[c]))
                      + (Occurs(i, todo'[c]) + OccursIn(i, ready'[c]))
  <1> DEFINE td == todo
             rd == ready
             tn == todo'
             rn == ready'
  <1>1. td \in [Callers -> Seq(Items)] /\ rd \in [Callers -> Seq(Seq(Items))]
    BY DEF TypeOK
  <1>2. tn \in [Callers -> Seq(Items)] /\ rn \in [Callers -> Seq(Seq(Items))]
    BY DEF TypeOK
  <1>3. \A d \in Callers : d # c => tn[d] = td[d] /\ rn[d] = rd[d]
    OBVIOUS
  <1> HIDE DEF td, rd, tn, rn
  <1>4. ASSUME NEW i
        PROVE  HandCount(i, tn, rn) = HandCount(i, td, rd)
                 - (Occurs(i, td[c]) + OccursIn(i, rd[c])) + (Occurs(i, tn[c]) + OccursIn(i, rn[c]))
    BY <1>1, <1>2, <1>3, HandChange
  <1> QED BY <1>4 DEF td, rd, tn, rn

\* A step that moves no item keeps the invariant of the items.
LEMMA CopyQuiet ==
  ASSUME CopyInv, HandsInv',
         UNCHANGED <<limits, todo, ready, timedReady, added, dispatched>>,
         batcher'.buf = batcher.buf, batcher'.bytes = batcher.bytes
  PROVE  CopyInv'
  <1>1. BytesInv' /\ CutInv'
    BY DEF CopyInv, BytesInv, CutInv, GoodBatch
  <1>2. \A i : Copies(i)' = Copies(i)
    BY CopiesParts
  <1>3. ExactlyOneCopy'
    BY <1>2 DEF CopyInv, ExactlyOneCopy
  <1> QED BY <1>1, <1>3 DEF CopyInv

\* The items of a new chunk, and only they, get their first copy.
LEMMA CopyAddChunk ==
  ASSUME BatcherInv, BatcherInv', CopyInv, NEW c \in Callers, NEW items \in Chunks,
         AddChunk(c, items)
  PROVE  CopyInv'
  <1>1. items \in Seq(Items) /\ items # << >> /\ IsInjective(items)
    BY DEF Chunks, AddChunk
  <1>2. /\ todo \in [Callers -> Seq(Items)] /\ ready \in [Callers -> Seq(Seq(Items))]
        /\ todo' \in [Callers -> Seq(Items)] /\ ready' \in [Callers -> Seq(Seq(Items))]
        /\ pc \in [Callers -> PCs]
    BY DEF BatcherInv, TypeOK
  <1>3. /\ UNCHANGED <<limits, batcher, timedReady, dispatched>>
        /\ added' = added \cup Range(items) /\ Range(items) \cap added = {}
        /\ \A d \in Callers : d # c => todo'[d] = todo[d] /\ ready'[d] = ready[d]
        /\ todo[c] = << >> /\ ready[c] = << >>
    BY <1>2 DEF AddChunk, CopyInv, HandsInv
  <1>4. \/ Passthrough /\ todo'[c] = << >> /\ ready'[c] = <<items>>
        \/ todo'[c] = items /\ ready'[c] = << >>
    BY <1>2, <1>3 DEF AddChunk
  <1>5. HandsInv'
    BY <1>2, <1>3 DEF AddChunk, CopyInv, HandsInv
  <1>6. BytesInv'
    BY <1>3 DEF CopyInv, BytesInv
  <1>7. CutInv'
    <2>1. \A b : GoodBatch(b)' <=> GoodBatch(b)
      BY <1>3 DEF GoodBatch
    <2>2. Passthrough => GoodBatch(items)
      <3>1. limits.maxItems \in Int /\ limits.maxBytes \in Int
        BY BatcherAssumption DEF BatcherInv, TypeOK, BatcherAssumption
      <3> QED BY <1>1, <3>1 DEF GoodBatch, Passthrough
    <2>3. ASSUME NEW d \in Callers, NEW k \in 1..Len(ready'[d]) PROVE GoodBatch(ready'[d][k])
      <3>1. CASE d # c
        BY <1>3, <3>1 DEF CopyInv, CutInv
      <3>2. CASE d = c
        BY <1>4, <2>2, <3>2
      <3> QED BY <3>1, <3>2
    <2> QED BY <1>3, <2>1, <2>3 DEF CopyInv, CutInv
  <1>8. ASSUME NEW i \in Items PROVE Copies(i)' = IF i \in added' THEN 1 ELSE 0
    <2> DEFINE new == IF i \in Range(items) THEN 1 ELSE 0
    <2>1. Occurs(i, todo[c]) + OccursIn(i, ready[c]) = 0
      BY <1>3, OccursEmpty, OccursInEmpty
    <2>2. Occurs(i, items) = new /\ new \in Nat
      BY <1>1, OccursRange
    <2>3. Occurs(i, todo'[c]) + OccursIn(i, ready'[c]) = new
      <3>1. OccursIn(i, <<items>>) = Occurs(i, items)
        BY <1>1, OccursInSingle
      <3>2. Occurs(i, << >>) = 0 /\ OccursIn(i, << >>) = 0
        BY OccursEmpty, OccursInEmpty
      <3> HIDE DEF new
      <3>3. CASE todo'[c] = << >> /\ ready'[c] = <<items>>
        BY <2>2, <3>1, <3>2, <3>3
      <3>4. CASE todo'[c] = items /\ ready'[c] = << >>
        BY <2>2, <3>2, <3>4
      <3> QED BY <1>4, <3>3, <3>4
    <2>4. HandCount(i, todo', ready')
            = HandCount(i, todo, ready) - (Occurs(i, todo[c]) + OccursIn(i, ready[c]))
                + (Occurs(i, todo'[c]) + OccursIn(i, ready'[c]))
      BY <1>2, <1>3, HandStep DEF BatcherInv
    <2>5. HandCount(i, todo, ready) \in Nat /\ Occurs(i, batcher.buf) \in Nat
          /\ OutCount(i, timedReady, dispatched) \in Nat
      BY PartsTyped DEF BatcherInv, CopyInv
    <2>6. HandCount(i, todo', ready') = HandCount(i, todo, ready) + new
      BY <2>1, <2>2, <2>3, <2>4, <2>5
    <2>7. Copies(i)' = Copies(i) + new
      <3>1. Copies(i) = Occurs(i, batcher.buf) + HandCount(i, todo, ready)
                          + OutCount(i, timedReady, dispatched)
        BY CopiesParts
      <3>2. Copies(i)' = Occurs(i, batcher.buf) + HandCount(i, todo', ready')
                           + OutCount(i, timedReady, dispatched)
        BY <1>3, CopiesParts
      <3> HIDE DEF new
      <3> QED BY <2>2, <2>5, <2>6, <3>1, <3>2
    <2>8. Copies(i) = IF i \in added THEN 1 ELSE 0
      BY DEF CopyInv, ExactlyOneCopy
    <2>9. i \in added' <=> (i \in added \/ i \in Range(items))
      BY <1>3
    <2>10. i \in Range(items) => i \notin added
      BY <1>3
    <2> QED BY <2>7, <2>8, <2>9, <2>10
  <1> QED BY <1>5, <1>6, <1>7, <1>8 DEF CopyInv, ExactlyOneCopy

\* An item that is appended moves from the chunk to the pending batch, which
\* moves to the caller's hands if it is cut.
LEMMA CopyAppendItem ==
  ASSUME BatcherInv, BatcherInv', CopyInv, NEW c \in Callers, AppendItem(c)
  PROVE  CopyInv'
  <1> DEFINE item == Head(todo[c])
             cut == CutByAppend(batcher, item)
  <1>1. TypeOK /\ BytesInv /\ PendingBelowLimits
    BY DEF BatcherInv, CopyInv
  <1>2. /\ todo \in [Callers -> Seq(Items)] /\ ready \in [Callers -> Seq(Seq(Items))]
        /\ todo' \in [Callers -> Seq(Items)] /\ ready' \in [Callers -> Seq(Seq(Items))]
        /\ pc \in [Callers -> PCs]
    BY DEF BatcherInv, TypeOK
  <1>3. todo[c] # << >> /\ pc[c] = "append" /\ item \in Items
    BY <1>2 DEF AppendItem
  <1>4. cut \in Seq(Seq(Items))
    BY <1>1, <1>3, CutTyped
  <1>5. /\ \A i : Occurs(i, batcher'.buf) + OccursIn(i, cut)
                    = Occurs(i, batcher.buf) + (IF item = i THEN 1 ELSE 0)
        /\ limits.maxBytes > 0 => batcher'.bytes = BatchBytes(batcher'.buf)
        /\ \A k \in 1..Len(cut) : GoodBatch(cut[k])
    <2>1. batcher' = AppendToBatch(batcher, item)
      BY DEF AppendItem
    <2> HIDE DEF item
    <2> QED BY <1>1, <1>3, <2>1, AppendCounts DEF cut
  <1>6. /\ UNCHANGED <<limits, pc, timedReady, added, dispatched>>
        /\ \A d \in Callers : d # c => todo'[d] = todo[d] /\ ready'[d] = ready[d]
        /\ todo'[c] = Tail(todo[c]) /\ ready'[c] = ready[c] \o cut
    BY <1>2 DEF AppendItem
  <1> HIDE DEF item, cut
  <1>7. HandsInv'
    BY <1>3, <1>6 DEF CopyInv, HandsInv
  <1>8. BytesInv'
    BY <1>5, <1>6 DEF BytesInv
  <1>9. CutInv'
    <2>1. \A b : GoodBatch(b)' <=> GoodBatch(b)
      BY <1>6 DEF GoodBatch
    <2>2. ASSUME NEW d \in Callers, NEW k \in 1..Len(ready'[d]) PROVE GoodBatch(ready'[d][k])
      <3>1. CASE d # c
        BY <1>6, <3>1 DEF CopyInv, CutInv
      <3>2. CASE d = c
        <4> DEFINE r == ready[c]
        <4>1. r \in Seq(Seq(Items)) /\ \A j \in 1..Len(r) : GoodBatch(r[j])
          BY <1>2 DEF CopyInv, CutInv
        <4>2. k \in 1..Len(r \o cut) /\ ready'[d][k] = (r \o cut)[k]
          BY <1>6, <3>2
        <4> HIDE DEF r
        <4>3. /\ Len(r \o cut) = Len(r) + Len(cut) /\ Len(r) \in Nat /\ Len(cut) \in Nat
              /\ (r \o cut)[k] = IF k <= Len(r) THEN r[k] ELSE cut[k - Len(r)]
          BY <1>4, <4>1, <4>2, ConcatProperties
        <4>4. CASE k <= Len(r)
          BY <4>1, <4>2, <4>3, <4>4
        <4>5. CASE ~(k <= Len(r))
          <5>1. k - Len(r) \in 1..Len(cut)
            BY <4>2, <4>3, <4>5
          <5> QED BY <1>5, <4>2, <4>3, <4>5, <5>1
        <4> QED BY <4>4, <4>5
      <3> QED BY <3>1, <3>2
    <2> QED BY <1>6, <2>1, <2>2 DEF CopyInv, CutInv
  <1>10. ASSUME NEW i \in Items PROVE Copies(i)' = Copies(i)
    <2> DEFINE hit == IF item = i THEN 1 ELSE 0
    <2>1. Occurs(i, todo[c]) = hit + Occurs(i, Tail(todo[c]))
      BY <1>2, <1>3, OccursTail DEF item
    <2>2. OccursIn(i, ready'[c]) = OccursIn(i, ready[c]) + OccursIn(i, cut)
      BY <1>2, <1>4, <1>6, OccursInConcat
    <2>3. HandCount(i, todo', ready')
            = HandCount(i, todo, ready) - (Occurs(i, todo[c]) + OccursIn(i, ready[c]))
                + (Occurs(i, todo'[c]) + OccursIn(i, ready'[c]))
      BY <1>2, <1>6, HandStep DEF BatcherInv
    <2>4. /\ Occurs(i, todo'[c]) \in Nat /\ OccursIn(i, ready[c]) \in Nat
          /\ OccursIn(i, cut) \in Nat /\ hit \in Nat
      BY <1>2, <1>4, OccursSum, OccursInSum
    <2>5. HandCount(i, todo, ready) \in Nat /\ Occurs(i, batcher.buf) \in Nat
          /\ OutCount(i, timedReady, dispatched) \in Nat
      BY PartsTyped DEF BatcherInv, CopyInv
    <2>6. Occurs(i, batcher'.buf) \in Nat
      BY OccursSum DEF BatcherInv, TypeOK
    <2>7. Occurs(i, batcher'.buf) + OccursIn(i, cut) = Occurs(i, batcher.buf) + hit
      BY <1>5
    <2>8. Copies(i) = Occurs(i, batcher.buf) + HandCount(i, todo, ready)
                        + OutCount(i, timedReady, dispatched)
      BY CopiesParts
    <2>9. Copies(i)' = Occurs(i, batcher'.buf) + HandCount(i, todo', ready')
                         + OutCount(i, timedReady, dispatched)
      BY <1>6, CopiesParts
    <2> HIDE DEF hit
    <2>10. todo'[c] = Tail(todo[c])
      BY <1>6
    <2> QED BY <2>1, <2>2, <2>3, <2>4, <2>5, <2>6, <2>7, <2>8, <2>9, <2>10
  <1>11. ExactlyOneCopy'
    BY <1>6, <1>10 DEF CopyInv, ExactlyOneCopy
  <1> QED BY <1>7, <1>8, <1>9, <1>11 DEF CopyInv

\* Flush moves the pending batch, if there is one, to the caller's hands.
LEMMA CopyFlush ==
  ASSUME BatcherInv, BatcherInv', CopyInv, NEW c \in Callers, Flush(c)
  PROVE  CopyInv'
  <1> DEFINE buf == batcher.buf
  <1>1. TypeOK /\ TypeOK' /\ BytesInv /\ PendingBelowLimits /\ buf \in Seq(Items)
    BY DEF BatcherInv, CopyInv, TypeOK
  <1>2. ready \in [Callers -> Seq(Seq(Items))] /\ pc \in [Callers -> PCs]
    BY DEF BatcherInv, TypeOK
  <1>3. batcher'.buf = << >> /\ batcher'.bytes = 0
    BY DEF Flush, NextBatch
  <1>4. /\ UNCHANGED <<limits, todo, timedReady, added, dispatched>>
        /\ \A d \in Callers : d # c => todo'[d] = todo[d] /\ ready'[d] = ready[d]
        /\ todo[c] = << >> /\ ready[c] = << >> /\ todo'[c] = << >>
        /\ ready'[c] = IF buf = << >> THEN << >> ELSE <<buf>>
    BY <1>2 DEF Flush, CopyInv, HandsInv
  <1>5. HandsInv'
    BY <1>2, <1>4 DEF Flush, CopyInv, HandsInv
  <1>6. BytesInv'
    <2>1. << >> \in Seq(Items)
      OBVIOUS
    <2>2. BatchBytes(<< >>) = 0
      BY <2>1, BatchBytesFacts
    <2> QED BY <1>3, <2>2 DEF BytesInv
  <1>7. CutInv'
    <2>1. \A b : GoodBatch(b)' <=> GoodBatch(b)
      BY <1>4 DEF GoodBatch
    <2>2. buf # << >> => GoodBatch(buf)
      BY <1>1, PendingGood
    <2>3. ASSUME NEW d \in Callers, NEW k \in 1..Len(ready'[d]) PROVE GoodBatch(ready'[d][k])
      <3>1. CASE d # c
        BY <1>4, <3>1 DEF CopyInv, CutInv
      <3>2. CASE d = c
        BY <1>4, <2>2, <3>2
      <3> QED BY <3>1, <3>2
    <2> QED BY <1>4, <2>1, <2>3 DEF CopyInv, CutInv
  <1> HIDE DEF buf
  <1>8. ASSUME NEW i \in Items PROVE Copies(i)' = Copies(i)
    <2>1. HandCount(i, todo', ready')
            = HandCount(i, todo, ready) - (Occurs(i, todo[c]) + OccursIn(i, ready[c]))
                + (Occurs(i, todo'[c]) + OccursIn(i, ready'[c]))
      BY <1>1, <1>4, HandStep
    <2>2. Occurs(i, << >>) = 0 /\ OccursIn(i, << >>) = 0 /\ OccursIn(i, <<buf>>) = Occurs(i, buf)
      BY <1>1, OccursEmpty, OccursInEmpty, OccursInSingle
    <2>3. OccursIn(i, ready'[c]) = Occurs(i, buf) /\ OccursIn(i, ready[c]) = 0
      BY <1>4, <2>2
    <2>4. HandCount(i, todo, ready) \in Nat /\ Occurs(i, buf) \in Nat
          /\ OutCount(i, timedReady, dispatched) \in Nat
      BY PartsTyped DEF BatcherInv, CopyInv, buf
    <2>5. HandCount(i, todo', ready') = HandCount(i, todo, ready) + Occurs(i, buf)
      BY <1>4, <2>1, <2>2, <2>3, <2>4
    <2>6. Copies(i) = Occurs(i, buf) + HandCount(i, todo, ready)
                        + OutCount(i, timedReady, dispatched)
      BY CopiesParts DEF buf
    <2>7. Copies(i)' = 0 + HandCount(i, todo', ready') + OutCount(i, timedReady, dispatched)
      BY <1>3, <1>4, <2>2, CopiesParts
    <2> QED BY <2>4, <2>5, <2>6, <2>7
  <1>9. ExactlyOneCopy'
    BY <1>4, <1>8 DEF CopyInv, ExactlyOneCopy
  <1> QED BY <1>5, <1>6, <1>7, <1>9 DEF CopyInv

\* The batch that a caller dispatches next is counted in its hands.
LEMMA HeadInHand ==
  ASSUME TypeOK, NEW c \in Callers, ready[c] # << >>
  PROVE  /\ Head(ready[c]) \in Seq(Items)
         /\ \A i : Occurs(i, Head(ready[c])) <= HandCount(i, todo, ready)
  <1> DEFINE b == Head(ready[c])
  <1>1. /\ todo \in [Callers -> Seq(Items)] /\ ready \in [Callers -> Seq(Seq(Items))]
        /\ todo[c] \in Seq(Items) /\ ready[c] \in Seq(Seq(Items))
    BY DEF TypeOK
  <1>2. b \in Seq(Items) /\ Tail(ready[c]) \in Seq(Seq(Items))
    BY <1>1, HeadTailProperties
  <1>3. ASSUME NEW i PROVE Occurs(i, b) <= HandCount(i, todo, ready)
    <2>1. /\ HandCount(i, todo, ready) \in Nat
          /\ HandCount(i, todo, ready) >= Occurs(i, todo[c]) + OccursIn(i, ready[c])
      BY <1>1, HandFacts
    <2>2. OccursIn(i, ready[c]) = Occurs(i, b) + OccursIn(i, Tail(ready[c]))
      BY <1>1, OccursInTail
    <2>3. Occurs(i, b) \in Nat /\ Occurs(i, todo[c]) \in Nat /\ OccursIn(i, Tail(ready[c])) \in Nat
      BY <1>1, <1>2, OccursSum, OccursInSum
    <2> HIDE DEF b
    <2> QED BY <2>1, <2>2, <2>3
  <1> QED BY <1>2, <1>3

\* A batch that a caller dispatches leaves its hands.
LEMMA CopyDispatchBatches ==
  ASSUME BatcherInv, BatcherInv', CopyInv, NEW c \in Callers, DispatchBatches(c),
         ready[c] # << >>
  PROVE  CopyInv'
  <1> DEFINE b == Head(ready[c])
             T == timedReady
             D == dispatched
  <1>1. TypeOK /\ TypeOK' /\ todo[c] \in Seq(Items) /\ ready[c] \in Seq(Seq(Items))
    BY DEF BatcherInv, TypeOK
  <1>2. ready \in [Callers -> Seq(Seq(Items))] /\ pc \in [Callers -> PCs]
    BY DEF BatcherInv, TypeOK
  <1>3. /\ UNCHANGED <<limits, batcher, pc, todo, timedReady, added>>
        /\ dispatched' = D \cup {b}
        /\ \A d \in Callers : d # c => todo'[d] = todo[d] /\ ready'[d] = ready[d]
        /\ todo'[c] = todo[c] /\ ready'[c] = Tail(ready[c]) /\ pc[c] = "dispatch"
    BY <1>2 DEF DispatchBatches
  <1>4. b \in Seq(Items) /\ GoodBatch(b)
    BY <1>1 DEF CopyInv, CutInv
  <1>5. /\ T \in SUBSET Seq(Items) /\ D \in SUBSET Seq(Items)
        /\ IsFiniteSet(T) /\ IsFiniteSet(D)
    BY DEF BatcherInv, TypeOK, CopyInv, CutInv
  <1>6. b \notin T \cup D
    <2>1. \A i \in Items : Occurs(i, b) <= Occurs(i, batcher.buf) + HandCount(i, todo, ready)
      <3> SUFFICES ASSUME NEW i \in Items
                   PROVE  Occurs(i, b) <= Occurs(i, batcher.buf) + HandCount(i, todo, ready)
        OBVIOUS
      <3>1. Occurs(i, b) <= HandCount(i, todo, ready)
        BY <1>1, HeadInHand
      <3>2. Occurs(i, b) \in Nat /\ Occurs(i, batcher.buf) \in Nat
            /\ HandCount(i, todo, ready) \in Nat
        BY <1>4, OccursSum, PartsTyped DEF BatcherInv, CopyInv
      <3> HIDE DEF b
      <3> QED BY <3>1, <3>2
    <2>2. b # << >>
      BY <1>4 DEF GoodBatch
    <2> HIDE DEF b
    <2> QED BY <1>1, <1>4, <2>1, <2>2, InHandIsNew
  <1>7. HandsInv' /\ BytesInv'
    BY <1>3 DEF CopyInv, HandsInv, BytesInv
  <1>8. CutInv'
    <2>1. \A x : GoodBatch(x)' <=> GoodBatch(x)
      BY <1>3 DEF GoodBatch
    <2>2. ASSUME NEW d \in Callers, NEW k \in 1..Len(ready'[d]) PROVE GoodBatch(ready'[d][k])
      <3>1. CASE d # c
        BY <1>3, <3>1 DEF CopyInv, CutInv
      <3>2. CASE d = c
        <4>1. k + 1 \in 1..Len(ready[c]) /\ ready'[c][k] = ready[c][k + 1]
          <5> DEFINE r == ready[c]
          <5>1. r \in Seq(Seq(Items)) /\ r # << >> /\ k \in 1..Len(Tail(r)) /\ ready'[c] = Tail(r)
            BY <1>1, <1>3, <3>2
          <5> HIDE DEF r
          <5>2. k + 1 \in 1..Len(r) /\ Tail(r)[k] = r[k + 1]
            BY <5>1
          <5> QED BY <5>1, <5>2 DEF r
        <4> QED BY <3>2, <4>1 DEF CopyInv, CutInv
      <3> QED BY <3>1, <3>2
    <2>3. IsFiniteSet(dispatched')
      BY <1>3, <1>5, FS_AddElement
    <2> QED BY <1>3, <1>4, <2>1, <2>2, <2>3 DEF CopyInv, CutInv
  <1> HIDE DEF b, T, D
  <1>9. ASSUME NEW i \in Items PROVE Copies(i)' = Copies(i)
    <2>1. HandCount(i, todo', ready')
            = HandCount(i, todo, ready) - (Occurs(i, todo[c]) + OccursIn(i, ready[c]))
                + (Occurs(i, todo'[c]) + OccursIn(i, ready'[c]))
      BY <1>1, <1>3, HandStep
    <2>2. OccursIn(i, ready[c]) = Occurs(i, b) + OccursIn(i, ready'[c])
      BY <1>1, <1>3, OccursInTail DEF b
    <2>3. OutCount(i, T, D \cup {b}) = OutCount(i, T, D) + Occurs(i, b)
      BY <1>4, <1>5, <1>6, OutAdd
    <2>4. /\ Occurs(i, b) \in Nat /\ OccursIn(i, ready'[c]) \in Nat /\ Occurs(i, todo[c]) \in Nat
      <3>1. ready'[c] \in Seq(Seq(Items))
        BY <1>1 DEF TypeOK
      <3> QED BY <1>1, <1>4, <3>1, OccursSum, OccursInSum
    <2>5. HandCount(i, todo, ready) \in Nat /\ Occurs(i, batcher.buf) \in Nat
          /\ OutCount(i, T, D) \in Nat
      BY PartsTyped DEF BatcherInv, CopyInv, T, D
    <2>6. HandCount(i, todo', ready') = HandCount(i, todo, ready) - Occurs(i, b)
      BY <1>3, <2>1, <2>2, <2>4, <2>5
    <2>7. Copies(i) = Occurs(i, batcher.buf) + HandCount(i, todo, ready) + OutCount(i, T, D)
      BY CopiesParts DEF T, D
    <2>8. Copies(i)' = Occurs(i, batcher.buf) + HandCount(i, todo', ready')
                         + OutCount(i, T, D \cup {b})
      BY <1>3, CopiesParts DEF T
    <2> QED BY <2>3, <2>4, <2>5, <2>6, <2>7, <2>8
  <1>10. ExactlyOneCopy'
    BY <1>3, <1>9 DEF CopyInv, ExactlyOneCopy
  <1> QED BY <1>7, <1>8, <1>10 DEF CopyInv

\* A callback that finds its generation current moves the pending batch to the
\* batches it is about to dispatch.
LEMMA CopyTimedCut ==
  ASSUME BatcherInv, BatcherInv', CopyInv, NEW g \in admitted, GuardedTimedFlush(g),
         g = batcher.gen, batcher.buf # << >>
  PROVE  CopyInv'
  <1> DEFINE buf == batcher.buf
             T == timedReady
             D == dispatched
  <1>1. TypeOK /\ BytesInv /\ PendingBelowLimits /\ buf \in Seq(Items)
    BY DEF BatcherInv, CopyInv, TypeOK
  <1>2. batcher'.buf = << >> /\ batcher'.bytes = 0
    BY DEF GuardedTimedFlush, NextBatch
  <1>3. /\ UNCHANGED <<limits, pc, todo, ready, added, dispatched>>
        /\ timedReady' = T \cup {buf}
    BY DEF GuardedTimedFlush
  <1>4. GoodBatch(buf) /\ buf # << >>
    BY <1>1, PendingGood
  <1>5. /\ T \in SUBSET Seq(Items) /\ D \in SUBSET Seq(Items)
        /\ IsFiniteSet(T) /\ IsFiniteSet(D)
    BY DEF BatcherInv, TypeOK, CopyInv, CutInv
  <1>6. buf \notin T \cup D
    <2>1. \A i \in Items : Occurs(i, buf) <= Occurs(i, batcher.buf) + HandCount(i, todo, ready)
      <3> SUFFICES ASSUME NEW i \in Items
                   PROVE  Occurs(i, buf) <= Occurs(i, batcher.buf) + HandCount(i, todo, ready)
        OBVIOUS
      <3>1. Occurs(i, batcher.buf) \in Nat /\ HandCount(i, todo, ready) \in Nat
        BY PartsTyped DEF BatcherInv, CopyInv
      <3> QED BY <3>1
    <2> QED BY <1>1, <1>4, <2>1, InHandIsNew
  <1>7. HandsInv'
    BY <1>3 DEF CopyInv, HandsInv
  <1>8. BytesInv'
    <2>1. << >> \in Seq(Items)
      OBVIOUS
    <2>2. BatchBytes(<< >>) = 0
      BY <2>1, BatchBytesFacts
    <2> QED BY <1>2, <2>2 DEF BytesInv
  <1>9. CutInv'
    <2>1. \A x : GoodBatch(x)' <=> GoodBatch(x)
      BY <1>3 DEF GoodBatch
    <2>2. IsFiniteSet(timedReady')
      BY <1>3, <1>5, FS_AddElement
    <2> QED BY <1>3, <1>4, <2>1, <2>2 DEF CopyInv, CutInv
  <1> HIDE DEF buf, T, D
  <1>10. ASSUME NEW i \in Items PROVE Copies(i)' = Copies(i)
    <2>1. OutCount(i, T \cup {buf}, D) = OutCount(i, T, D) + Occurs(i, buf)
      BY <1>1, <1>5, <1>6, OutAdd
    <2>2. HandCount(i, todo, ready) \in Nat /\ Occurs(i, buf) \in Nat
          /\ OutCount(i, T, D) \in Nat
      BY PartsTyped DEF BatcherInv, CopyInv, T, D, buf
    <2>3. Copies(i) = Occurs(i, buf) + HandCount(i, todo, ready) + OutCount(i, T, D)
      BY CopiesParts DEF T, D, buf
    <2>4. Copies(i)' = 0 + HandCount(i, todo, ready) + OutCount(i, T \cup {buf}, D)
      BY <1>2, <1>3, OccursEmpty, CopiesParts DEF D
    <2> QED BY <2>1, <2>2, <2>3, <2>4
  <1>11. ExactlyOneCopy'
    BY <1>3, <1>10 DEF CopyInv, ExactlyOneCopy
  <1> QED BY <1>7, <1>8, <1>9, <1>11 DEF CopyInv

\* A callback that dispatches its batch keeps no copy of it.
LEMMA CopyDispatchTimed ==
  ASSUME BatcherInv, CopyInv, NEW b \in timedReady, DispatchTimed(b)
  PROVE  CopyInv'
  <1> DEFINE T == timedReady
             D == dispatched
  <1>1. /\ T \in SUBSET Seq(Items) /\ D \in SUBSET Seq(Items)
        /\ IsFiniteSet(T) /\ IsFiniteSet(D) /\ b \in T
    BY DEF BatcherInv, TypeOK, CopyInv, CutInv
  <1>2. b \notin D
    BY TimedIsNew DEF BatcherInv
  <1>3. /\ UNCHANGED <<limits, batcher, pc, todo, ready, added>>
        /\ timedReady' = T \ {b} /\ dispatched' = D \cup {b}
    BY DEF DispatchTimed
  <1>4. HandsInv' /\ BytesInv'
    BY <1>3 DEF CopyInv, HandsInv, BytesInv
  <1>5. CutInv'
    <2>1. \A x : GoodBatch(x)' <=> GoodBatch(x)
      BY <1>3 DEF GoodBatch
    <2>2. IsFiniteSet(timedReady') /\ IsFiniteSet(dispatched')
      BY <1>1, <1>3, FS_AddElement, FS_RemoveElement
    <2> QED BY <1>3, <2>1, <2>2 DEF CopyInv, CutInv
  <1> HIDE DEF T, D
  <1>6. ASSUME NEW i PROVE Copies(i)' = Copies(i)
    <2>1. OutCount(i, T \ {b}, D \cup {b}) = OutCount(i, T, D)
      BY <1>1, <1>2, OutMove
    <2> QED BY <1>3, <2>1, CopiesParts DEF T, D
  <1>7. ExactlyOneCopy'
    BY <1>3, <1>6 DEF CopyInv, ExactlyOneCopy
  <1> QED BY <1>4, <1>5, <1>7 DEF CopyInv

\* Nothing has a copy in a new batcher.
LEMMA CopyInit == Init => CopyInv
  <1> SUFFICES ASSUME Init PROVE CopyInv
    OBVIOUS
  <1>1. /\ batcher.buf = << >> /\ batcher.bytes = 0
        /\ todo = [c \in Callers |-> << >>] /\ ready = [c \in Callers |-> << >>]
        /\ timedReady = {} /\ dispatched = {} /\ added = {}
    BY DEF Init, NewBatcher
  <1>2. HandsInv
    BY <1>1 DEF HandsInv
  <1>3. BytesInv
    <2>1. << >> \in Seq(Items)
      OBVIOUS
    <2>2. BatchBytes(<< >>) = 0
      BY <2>1, BatchBytesFacts
    <2> QED BY <1>1, <2>2 DEF BytesInv
  <1>4. CutInv
    BY <1>1, FS_EmptySet DEF CutInv
  <1>5. ASSUME NEW i \in Items PROVE Copies(i) = 0
    <2> DEFINE f == [c \in Callers |-> Occurs(i, todo[c]) + OccursIn(i, ready[c])]
               e == [b \in timedReady \cup dispatched |->
                       (IF b \in timedReady THEN Occurs(i, b) ELSE 0)
                         + (IF b \in dispatched THEN Occurs(i, b) ELSE 0)]
    <2>1. Occurs(i, << >>) = 0 /\ OccursIn(i, << >>) = 0
      BY OccursEmpty, OccursInEmpty
    <2>2. (\A c \in Callers : f[c] = 0) /\ DOMAIN f = Callers
      BY <1>1, <2>1
    <2>3. DOMAIN e = {}
      BY <1>1
    <2>4. HandCount(i, todo, ready) = SumFunctionOnSet(f, Callers)
          /\ OutCount(i, timedReady, dispatched) = SumFunctionOnSet(e, {})
      BY <2>2, <2>3 DEF HandCount, OutCount, SumFunction
    <2>5. IsFiniteSet(Callers) /\ {} \in SUBSET Callers
      BY BatcherAssumption DEF BatcherAssumption
    <2> HIDE DEF f, e
    <2>6. /\ \A c \in Callers : f[c] \in Int
          /\ \A c \in Callers \ {} : f[c] = 0
      BY <2>2
    <2>7. SumFunctionOnSet(f, Callers) = SumFunctionOnSet(f, {})
      BY <2>5, <2>6, SumSupport
    <2>8. SumFunctionOnSet(f, {}) = 0 /\ SumFunctionOnSet(e, {}) = 0
      BY SumEmpty
    <2> QED BY <1>1, <2>1, <2>4, <2>7, <2>8, CopiesParts
  <1>6. ExactlyOneCopy
    BY <1>1, <1>5 DEF ExactlyOneCopy
  <1> QED BY <1>2, <1>3, <1>4, <1>6 DEF CopyInv

\* Every step keeps the invariant of the items.
LEMMA CopyStep == BatcherInv /\ BatcherInv' /\ CopyInv /\ [Next]_vars => CopyInv'
  <1> SUFFICES ASSUME BatcherInv, BatcherInv', CopyInv, [Next]_vars PROVE CopyInv'
    OBVIOUS
  <1>1. pc \in [Callers -> PCs]
    BY DEF BatcherInv, TypeOK
  <1>2. ASSUME NEW c \in Callers, CallerNext(c) PROVE CopyInv'
    <2>1. CASE \E items \in Chunks : AddChunk(c, items)
      BY <2>1, CopyAddChunk
    <2>2. CASE Lock(c)
      <3>1. HandsInv'
        BY <1>1, <2>2 DEF Lock, CopyInv, HandsInv
      <3> QED BY <2>2, <3>1, CopyQuiet DEF Lock
    <2>3. CASE AppendItem(c)
      BY <2>3, CopyAppendItem
    <2>4. CASE Unlock(c)
      <3>1. HandsInv'
        BY <1>1, <2>4 DEF Unlock, CopyInv, HandsInv
      <3>2. batcher'.buf = batcher.buf /\ batcher'.bytes = batcher.bytes
        BY <2>4, StartTimerFacts DEF Unlock, BatcherInv
      <3> QED BY <2>4, <3>1, <3>2, CopyQuiet DEF Unlock
    <2>5. CASE DispatchBatches(c)
      <3>1. CASE ready[c] # << >>
        BY <2>5, <3>1, CopyDispatchBatches
      <3>2. CASE ready[c] = << >>
        <4>1. HandsInv'
          BY <1>1, <2>5, <3>2 DEF DispatchBatches, CopyInv, HandsInv
        <4> QED BY <2>5, <3>2, <4>1, CopyQuiet DEF DispatchBatches
      <3> QED BY <3>1, <3>2
    <2>6. CASE Flush(c)
      BY <2>6, CopyFlush
    <2> QED BY <1>2, <2>1, <2>2, <2>3, <2>4, <2>5, <2>6 DEF CallerNext
  <1>3. ASSUME NEW g \in batcher.armed, Expire(g) PROVE CopyInv'
    <2>1. HandsInv'
      BY <1>3 DEF Expire, CopyInv, HandsInv
    <2>2. batcher'.buf = batcher.buf /\ batcher'.bytes = batcher.bytes
      BY <1>3 DEF Expire, BatcherInv, TypeOK
    <2> QED BY <1>3, <2>1, <2>2, CopyQuiet DEF Expire
  <1>4. ASSUME NEW g \in fired, TimedFlush(g) PROVE CopyInv'
    <2>1. HandsInv'
      BY <1>4 DEF TimedFlush, CopyInv, HandsInv
    <2> QED BY <1>4, <2>1, CopyQuiet DEF TimedFlush
  <1>5. ASSUME NEW g \in admitted, GuardedTimedFlush(g) PROVE CopyInv'
    <2>1. HandsInv'
      BY <1>5 DEF GuardedTimedFlush, CopyInv, HandsInv
    <2>2. CASE g = batcher.gen /\ batcher.buf # << >>
      BY <1>5, <2>2, CopyTimedCut
    <2>3. CASE g = batcher.gen /\ batcher.buf = << >>
      \* A current generation with a callback has its timer, so its batch is not empty.
      BY <2>3 DEF BatcherInv, TimerInv
    <2>4. CASE g # batcher.gen
      BY <1>5, <2>1, <2>4, CopyQuiet DEF GuardedTimedFlush
    <2> QED BY <2>2, <2>3, <2>4
  <1>6. ASSUME NEW b \in timedReady, DispatchTimed(b) PROVE CopyInv'
    BY <1>6, CopyDispatchTimed
  <1>7. CASE UNCHANGED vars
    <2>1. HandsInv'
      BY <1>7 DEF vars, CopyInv, HandsInv
    <2> QED BY <1>7, <2>1, CopyQuiet DEF vars
  <1> QED BY <1>2, <1>3, <1>4, <1>5, <1>6, <1>7 DEF Next, TimerNext

\* The invariant of the items holds in every state of the batcher.
THEOREM CopyInvariance == Spec => []CopyInv
  BY CopyInit, CopyStep, Invariance, PTL DEF Spec

-----------------------------------------------------------------------------
(* The properties of the runs, for every instance.                         *)

\* The batcher's fields, the callers' hands and the timers keep their types.
THEOREM TypeCorrect == Spec => []TypeOK
  BY Invariance, PTL DEF BatcherInv

\* What appendToBatch leaves pending is below both limits.
THEOREM PendingStaysBelowLimits == Spec => []PendingBelowLimits
  BY Invariance, PTL DEF BatcherInv

\* Outside the critical section a pending batch with a window has its timer.
THEOREM PendingIsTimed == Spec => []PendingBatchHasTimer
  <1>1. BatcherInv => PendingBatchHasTimer
    BY DEF BatcherInv, WindowInv, PendingBatchHasTimer
  <1> QED BY <1>1, Invariance, PTL

\* A callback that was stopped too late never cuts a younger batch.
THEOREM StaleTimersAreHarmless == Spec => OnlyOwnTimerCuts
  <1> DEFINE Harmless ==
        \A g \in admitted \ admitted' :
          batcher'.gen # batcher.gen => batcher.timer = g /\ batcher.buf # << >>
  <1>1. BatcherInv /\ [Next]_vars => [Harmless]_vars
    <2> SUFFICES ASSUME BatcherInv, Next, NEW g \in admitted \ admitted',
                        batcher'.gen # batcher.gen
                 PROVE  batcher.timer = g /\ batcher.buf # << >>
      OBVIOUS
    <2>1. GuardedTimedFlush(g)
      BY DEF Next, CallerNext, TimerNext, AddChunk, Lock, AppendItem, Unlock,
             DispatchBatches, Flush, Expire, TimedFlush, GuardedTimedFlush, DispatchTimed
    <2>2. g = batcher.gen
      BY <2>1 DEF GuardedTimedFlush
    <2> QED BY <2>2 DEF BatcherInv, TimerInv
  <1> QED BY <1>1, Invariance, PTL DEF Spec, OnlyOwnTimerCuts

\* An item that was handed over is in exactly one place at any time, whatever
\* callers, flushes and callbacks do between the batcher's critical sections.
THEOREM EveryItemHasOneCopy == Spec => []ExactlyOneCopy
  BY CopyInvariance, PTL DEF CopyInv

\* Every batch that appendToBatch, Flush or a callback cuts is within the limits.
THEOREM CutBatchesAreWithinLimits == Spec => []BatchesWithinLimits
  <1>1. CopyInv /\ TypeOK => BatchesWithinLimits
    <2> SUFFICES ASSUME CopyInv, TypeOK, NEW b \in CutBatches PROVE GoodBatch(b)
      BY DEF BatchesWithinLimits, GoodBatch
    <2>1. CASE b \in timedReady \cup dispatched
      BY <2>1 DEF CopyInv, CutInv
    <2>2. CASE \E c \in Callers : b \in Range(ready[c])
      <3>1. PICK c \in Callers : b \in Range(ready[c])
        BY <2>2
      <3>2. ready[c] \in Seq(Seq(Items))
        BY DEF TypeOK
      <3>3. DOMAIN ready[c] = 1..Len(ready[c])
        BY <3>2
      <3>4. PICK k \in DOMAIN ready[c] : b = ready[c][k]
        BY <3>1 DEF Range
      <3> QED BY <3>3, <3>4 DEF CopyInv, CutInv
    <2> QED BY <2>1, <2>2 DEF CutBatches
  <1> QED BY <1>1, CopyInvariance, TypeCorrect, PTL

\* What was emitted, in the terms of the abstract specification.
LEMMA EmittedIsAdded ==
  ASSUME TypeOK, CopyInv, NEW d \in dispatched
  PROVE  Range(d) \subseteq added
  <1> SUFFICES ASSUME NEW i \in Range(d) PROVE i \in added
    OBVIOUS
  <1>1. /\ timedReady \in SUBSET Seq(Items) /\ dispatched \in SUBSET Seq(Items)
        /\ IsFiniteSet(timedReady) /\ IsFiniteSet(dispatched) /\ d \in Seq(Items)
    BY DEF TypeOK, CopyInv, CutInv
  <1>2. i \in Items /\ Occurs(i, d) >= 1 /\ Occurs(i, d) \in Nat
    BY <1>1, OccursRange, OccursSum DEF Range
  <1>3. OutCount(i, timedReady, dispatched) >= Occurs(i, d)
    BY <1>1, OutFacts
  <1>4. /\ Occurs(i, batcher.buf) \in Nat /\ HandCount(i, todo, ready) \in Nat
        /\ OutCount(i, timedReady, dispatched) \in Nat
    BY PartsTyped DEF CopyInv
  <1>5. Copies(i) = Occurs(i, batcher.buf) + HandCount(i, todo, ready)
                      + OutCount(i, timedReady, dispatched)
    BY CopiesParts
  <1>6. Copies(i) = IF i \in added THEN 1 ELSE 0
    BY <1>2 DEF CopyInv, ExactlyOneCopy
  <1> QED BY <1>2, <1>3, <1>4, <1>5, <1>6

Emitted == UNION {Range(d) : d \in dispatched}

\* A step that dispatches a batch whose items are all held emits it.
LEMMA EmitStep ==
  ASSUME NEW b, dispatched' = dispatched \cup {b}, UNCHANGED added, b # << >>,
         \A i \in Range(b) : i \in added /\ \A d \in dispatched : i \notin Range(d),
         IsInjective(b)
  PROVE  Stream!Next
  <1> DEFINE held == added \ Emitted
             held2 == added' \ Emitted'
  <1>1. Emitted' = Emitted \cup Range(b)
    BY DEF Emitted
  <1>2. Range(b) \subseteq held
    BY DEF Emitted
  <1>3. held2 = held \ Range(b)
    BY <1>1
  <1>4. Stream!Emit(b)
    <2>1. Stream!Range(b) = Range(b) /\ Stream!IsInjective(b)
      BY DEF Stream!Range, Range, Stream!IsInjective, IsInjective
    <2> QED BY <1>2, <1>3, <2>1 DEF Stream!Emit, Emitted
  <1> QED BY <1>4 DEF Stream!Next

\* The batcher keeps the promise of BatchStream: AddChunk accepts its items and
\* every dispatch emits one batch of held items; all other steps are silent.
THEOREM BatcherImplementsStream == Spec => ImplementsBatchStream
  <1>1. Init => Stream!Init
    BY DEF Init, Stream!Init
  <1>2. BatcherInv /\ CopyInv /\ [Next]_vars => [Stream!Next]_(Stream!streamVars)
    <2> SUFFICES ASSUME BatcherInv, CopyInv, [Next]_vars
                 PROVE  Stream!Next \/ UNCHANGED Stream!streamVars
      OBVIOUS
    <2>0. TypeOK
      BY DEF BatcherInv
    <2>1. UNCHANGED <<added, dispatched>> => UNCHANGED Stream!streamVars
      BY DEF Stream!streamVars
    <2>2. ASSUME NEW c \in Callers, NEW items \in Chunks, AddChunk(c, items)
          PROVE  Stream!Next
      <3> DEFINE S == Range(items)
      <3>1. S \subseteq Items /\ S # {}
        BY DEF Chunks, Range
      <3>2. /\ added' = added \cup S /\ S \cap added = {} /\ dispatched' = dispatched
        BY <2>2 DEF AddChunk
      <3> HIDE DEF S
      <3>3. Emitted \subseteq added /\ Emitted' = Emitted
        BY <2>0, <3>2, EmittedIsAdded DEF Emitted
      <3>4. Stream!Accept(S)
        <4> DEFINE E == Emitted
        <4>1. /\ S \cap ((added \ E) \cup E) = {}
              /\ added' \ Emitted' = (added \ E) \cup S
          BY <3>2, <3>3
        <4>2. Stream!EmittedItems = E
          BY DEF Stream!EmittedItems, Emitted, Stream!Range, Range
        <4> HIDE DEF E
        <4> QED BY <3>1, <3>2, <4>1, <4>2 DEF Stream!Accept, Emitted, E
      <3> QED BY <3>1, <3>4 DEF Stream!Next
    <2>3. ASSUME NEW c \in Callers, DispatchBatches(c), ready[c] # << >> PROVE Stream!Next
      <3> DEFINE b == Head(ready[c])
      <3>1. dispatched' = dispatched \cup {b} /\ UNCHANGED added
        BY <2>3 DEF DispatchBatches
      <3>2. ready[c] \in Seq(Seq(Items))
        BY DEF BatcherInv, TypeOK
      <3>3. b \in Seq(Items) /\ b # << >>
        <4>1. 1 \in 1..Len(ready[c]) /\ b = ready[c][1] /\ b \in Seq(Items)
          BY <2>3, <3>2
        <4> QED BY <4>1 DEF CopyInv, CutInv, GoodBatch
      <3>4. \A i \in Items : Occurs(i, b) <= Occurs(i, batcher.buf) + HandCount(i, todo, ready)
        <4> SUFFICES ASSUME NEW i \in Items
                     PROVE  Occurs(i, b) <= Occurs(i, batcher.buf) + HandCount(i, todo, ready)
          OBVIOUS
        <4>1. Occurs(i, b) <= HandCount(i, todo, ready)
          BY <2>0, <2>3, HeadInHand
        <4>2. Occurs(i, b) \in Nat /\ Occurs(i, batcher.buf) \in Nat
              /\ HandCount(i, todo, ready) \in Nat
          BY <2>0, <3>3, OccursSum, PartsTyped DEF CopyInv
        <4> HIDE DEF b
        <4> QED BY <4>1, <4>2
      <3> HIDE DEF b
      <3>5. /\ \A i \in Range(b) : i \in added /\ \A d \in dispatched : i \notin Range(d)
            /\ IsInjective(b)
        BY <2>0, <3>3, <3>4, InHandIsNew
      <3> QED BY <3>1, <3>3, <3>5, EmitStep
    <2>4. ASSUME NEW b \in timedReady, DispatchTimed(b) PROVE Stream!Next
      <3>1. dispatched' = dispatched \cup {b} /\ UNCHANGED added
        BY <2>4 DEF DispatchTimed
      <3>2. b # << >>
        BY DEF CopyInv, CutInv, GoodBatch
      <3>3. /\ \A i \in Range(b) : i \in added /\ \A d \in dispatched : i \notin Range(d)
            /\ IsInjective(b)
        BY <2>0, TimedIsNew
      <3> QED BY <3>1, <3>2, <3>3, EmitStep
    <2>5. ASSUME NEW c \in Callers, DispatchBatches(c), ready[c] = << >>
          PROVE  UNCHANGED <<added, dispatched>>
      BY <2>5 DEF DispatchBatches
    <2>6. ASSUME NEW c \in Callers, Lock(c) \/ AppendItem(c) \/ Unlock(c) \/ Flush(c)
          PROVE  UNCHANGED <<added, dispatched>>
      BY <2>6 DEF Lock, AppendItem, Unlock, Flush
    <2>7. ASSUME NEW g, Expire(g) \/ TimedFlush(g) \/ GuardedTimedFlush(g)
          PROVE  UNCHANGED <<added, dispatched>>
      BY <2>7 DEF Expire, TimedFlush, GuardedTimedFlush
    <2>8. CASE UNCHANGED vars
      BY <2>1, <2>8 DEF vars
    <2> QED BY <2>1, <2>2, <2>3, <2>4, <2>5, <2>6, <2>7, <2>8
      DEF Next, CallerNext, TimerNext
  <1> QED BY <1>1, <1>2, Invariance, CopyInvariance, PTL
    DEF Spec, ImplementsBatchStream, Stream!Spec
=============================================================================
