---------------------------- MODULE SenderProofs ----------------------------
(***************************************************************************)
(* For any clients, items, formats, slots, retries and batch limits:       *)
(* Close's wait is sound (once Sender.Close has seen its work in progress  *)
(* end, nothing is left in the sender and nothing can enter it), every     *)
(* concurrency slot is accounted for, requests that waited for a slot when *)
(* Close began are not sent, and the sender implements Handoff.            *)
(***************************************************************************)
EXTENDS Sender, Sums, SequenceTheorems, TLAPS

(***************************************************************************)
(* The strengthening.  A Send or a window callback touches the batchers    *)
(* and registers requests only while it holds a read lock, BeginClose sets *)
(* the closing state only when nobody does, and nobody gets one after; so  *)
(* a batcher that Close has flushed stays empty.                           *)
(***************************************************************************)
LockInv ==
  /\ closing => readers = {}
  /\ \A c \in Clients : client[c] # "idle" => c \in readers
  /\ timed \subseteq readers
  /\ readers \cap Items \subseteq timed
  /\ timed \subseteq Items

FlushInv ==
  /\ \A c \in Clients : client[c] = "idle" => left[c] = << >>
  /\ drainer # "off" => closing
  /\ closing => closer \notin {"open", "locking"}
  /\ drainer \in {"wait", "done"} => toFlush = {}
  /\ drainer # "off" => \A f \in Formats \ toFlush : pending[f] = << >>
  /\ drainer = "done" => requests = {}

ShapeInv ==
  /\ closing \in BOOLEAN
  /\ client = [c \in Clients |-> client[c]]
  /\ left = [c \in Clients |-> left[c]]
  /\ pending = [f \in Formats |-> pending[f]]

SenderInv == ShapeInv /\ LockInv /\ FlushInv

\* A new sender is open and holds nothing.
LEMMA InitInv == Init => SenderInv
  BY DEF Init, StateInit, SenderInv, ShapeInv, LockInv, FlushInv

\* Send works on the batchers only before Close begins, because it has a read lock.
LEMMA ClientStep ==
  ASSUME SenderInv, NEW c \in Clients, ClientNext(c)
  PROVE  SenderInv'
  <1> USE DEF SenderInv, ShapeInv, stateVars
  <1>1. CASE \E chunk \in Chunks : SendRefused(c, chunk)
    BY <1>1 DEF SendRefused, LockInv, FlushInv
  <1>2. CASE \E chunk \in Chunks : SendAccepted(c, chunk)
    <2>1. PICK chunk \in Chunks : SendAccepted(c, chunk)
      BY <1>2
    <2>2. ~closing /\ drainer = "off"
      BY <2>1 DEF SendAccepted, Granted, FlushInv
    <2>3. c \notin Items
      BY SenderAssumption DEF SenderAssumption
    <2>4. LockInv'
      BY <2>1, <2>2, <2>3 DEF SendAccepted, Granted, LockInv
    <2>5. FlushInv'
      BY <2>1, <2>2 DEF SendAccepted, Granted, FlushInv
    <2> QED BY <2>1, <2>4, <2>5 DEF SendAccepted, Granted
  <1>3. CASE SendStructured(c)
    <2>1. ~closing /\ drainer = "off"
      BY <1>3 DEF SendStructured, LockInv, FlushInv
    <2>2. LockInv'
      BY <1>3 DEF SendStructured, LockInv
    <2>3. FlushInv'
      BY <1>3, <2>1 DEF SendStructured, FlushInv
    <2> QED BY <1>3, <2>2, <2>3 DEF SendStructured
  <1>4. CASE SendDirect(c)
    <2>1. ~closing /\ drainer = "off"
      BY <1>4 DEF SendDirect, LockInv, FlushInv
    <2>2. LockInv'
      BY <1>4 DEF SendDirect, LockInv
    <2>3. FlushInv'
      BY <1>4, <2>1 DEF SendDirect, FlushInv
    <2> QED BY <1>4, <2>2, <2>3 DEF SendDirect
  <1>5. CASE SendReturns(c)
    <2>1. c \notin Items
      BY SenderAssumption DEF SenderAssumption
    <2>2. LockInv'
      BY <1>5, <2>1 DEF SendReturns, RUnlock, LockInv
    <2>3. FlushInv'
      BY <1>5 DEF SendReturns, RUnlock, FlushInv
    <2> QED BY <1>5, <2>2, <2>3 DEF SendReturns, RUnlock
  <1> QED BY <1>1, <1>2, <1>3, <1>4, <1>5 DEF ClientNext

\* So does a callback of a batching window.
LEMMA WindowStep ==
  ASSUME SenderInv, NEW f \in Formats, NEW i \in Items,
         WindowExpires(f, i) \/ TimedFlush(f, i)
  PROVE  SenderInv'
  <1> USE DEF SenderInv, ShapeInv, stateVars
  <1>0. i \notin Clients
    BY SenderAssumption DEF SenderAssumption
  <1>1. CASE WindowExpires(f, i)
    <2>1. ~closing /\ drainer = "off"
      BY <1>1 DEF WindowExpires, Granted, FlushInv
    <2>2. LockInv'
      BY <1>0, <1>1, <2>1 DEF WindowExpires, Granted, LockInv
    <2>3. FlushInv'
      BY <1>1, <2>1 DEF WindowExpires, Granted, FlushInv
    <2> QED BY <1>1, <2>2, <2>3 DEF WindowExpires, Granted
  <1>2. CASE TimedFlush(f, i)
    <2>1. ~closing /\ drainer = "off"
      BY <1>2 DEF TimedFlush, LockInv, FlushInv
    <2>2. LockInv'
      BY <1>0, <1>2 DEF TimedFlush, RUnlock, LockInv
    <2>3. FlushInv'
      BY <1>2, <2>1 DEF TimedFlush, RUnlock, FlushInv
    <2>4. ShapeInv'
      BY <1>2 DEF TimedFlush, RUnlock
    <2> QED BY <2>2, <2>3, <2>4
  <1> QED BY <1>1, <1>2

\* A request only ends or goes on; it starts nothing and touches no batcher.
LEMMA RequestTouches ==
  ASSUME NEW r \in requests, RequestNext(r)
  PROVE  UNCHANGED untouched
  BY DEF RequestNext, RequestStep, GetSlot, StopWaiting, Recheck, Encode, TryAgain,
         PauseEnds, Aborted, Succeeds, FailsForGood, FailsForNow

\* Every step of an HTTP request keeps the invariant.
LEMMA RequestStepInv ==
  ASSUME SenderInv, NEW r \in requests, RequestNext(r)
  PROVE  SenderInv'
  <1>1. UNCHANGED untouched
    BY RequestTouches
  <1>2. drainer # "done"
    BY DEF SenderInv, FlushInv
  <1> QED BY <1>1, <1>2
    DEF SenderInv, ShapeInv, LockInv, FlushInv, untouched, stateVars

\* Close flushes the batchers one by one, and then waits for the requests.
LEMMA CloseStep ==
  ASSUME SenderInv, CloseNext
  PROVE  SenderInv'
  <1> USE DEF SenderInv, ShapeInv, stateVars, senderVars
  <1>1. CASE CloseCalled
    BY <1>1 DEF CloseCalled, AwaitCloseLock, LockInv, FlushInv
  <1>2. CASE CloseBegins
    <2>1. ~closing /\ drainer = "off"
      BY <1>2 DEF CloseBegins, BeginClose, FlushInv
    <2> QED BY <1>2, <2>1 DEF CloseBegins, BeginClose, LockInv, FlushInv
  <1>3. CASE \E f \in Formats : FlushOne(f)
    <2>1. PICK f \in Formats : FlushOne(f)
      BY <1>3
    <2>2. LockInv'
      BY <2>1 DEF FlushOne, LockInv
    <2>3. FlushInv'
      BY <2>1 DEF FlushOne, FlushInv
    <2> QED BY <2>1, <2>2, <2>3 DEF FlushOne
  <1>4. CASE FlushedAll
    BY <1>4 DEF FlushedAll, LockInv, FlushInv
  <1>5. CASE Drained
    BY <1>5 DEF Drained, LockInv, FlushInv
  <1>6. CASE GraceEnds
    BY <1>6 DEF GraceEnds, FinishClose, LockInv, FlushInv
  <1>7. CASE CloseReturns
    BY <1>7 DEF CloseReturns, LockInv, FlushInv
  <1> QED BY <1>1, <1>2, <1>3, <1>4, <1>5, <1>6, <1>7 DEF CloseNext

\* Every step keeps the invariant.
LEMMA StepInv == SenderInv /\ [Next]_vars => SenderInv'
  <1> SUFFICES ASSUME SenderInv, [Next]_vars PROVE SenderInv'
    OBVIOUS
  <1>1. CASE UNCHANGED vars
    BY <1>1 DEF vars, stateVars, senderVars, SenderInv, ShapeInv, LockInv, FlushInv
  <1>2. CASE Next
    BY <1>2, ClientStep, WindowStep, RequestStepInv, CloseStep DEF Next
  <1> QED BY <1>1, <1>2

\* The inductive invariant holds in every state of the sender.
THEOREM Invariance == Spec => []SenderInv
  BY InitInv, StepInv, PTL DEF Spec

\* When Close's goroutine has seen InProgress reach zero, no request runs, no
\* batcher holds anything and no Send is under way inside the lock.
THEOREM DrainedMeansEmpty == Spec => []DrainedIsEmpty
  <1>1. SenderInv => DrainedIsEmpty
    <2> SUFFICES ASSUME SenderInv, drainer = "done"
                 PROVE  /\ requests = {}
                        /\ \A f \in Formats : pending[f] = << >>
                        /\ \A c \in Clients : left[c] = << >>
      BY DEF DrainedIsEmpty
    <2>1. closing /\ readers = {} /\ toFlush = {}
      BY DEF SenderInv, LockInv, FlushInv
    <2> QED BY <2>1 DEF SenderInv, LockInv, FlushInv
  <1> QED BY <1>1, Invariance, PTL

-----------------------------------------------------------------------------
(* AddChunk's loop: what is pending afterwards and the batches it cut hold *)
(* exactly what was pending before and the chunk, each item once.          *)

Loop(g, batch, items, n) ==
  g = [k \in 0..n |-> IF k = 0 THEN [batch |-> batch, ready |-> << >>]
                      ELSE AppendToBatch(g[k - 1], items[k])]

\* The loop can be run for any number of iterations.
LEMMA LoopExists ==
  ASSUME NEW batch, NEW items, NEW n \in Nat
  PROVE  \E g : Loop(g, batch, items, n)
  <1> DEFINE base == [batch |-> batch, ready |-> << >>]
             Bad == {m \in Nat : ~\E g : Loop(g, batch, items, m)}
  <1> SUFFICES ASSUME Bad # {} PROVE FALSE
    OBVIOUS
  <1>1. PICK m \in Bad : \A k \in Bad : m <= k
    BY LeastNatural, Bad \subseteq Nat
  <1>2. m \in Nat /\ ~\E g : Loop(g, batch, items, m)
    BY <1>1
  <1> HIDE DEF base
  <1>3. CASE m = 0
    <2> DEFINE h == [k \in 0..0 |-> base]
    <2>1. h = [k \in 0..0 |-> IF k = 0 THEN base ELSE AppendToBatch(h[k - 1], items[k])]
      OBVIOUS
    <2> HIDE DEF h
    <2>2. Loop(h, batch, items, 0)
      BY <2>1 DEF Loop, base
    <2> QED BY <1>2, <1>3, <2>2
  <1>4. CASE m # 0
    <2>1. m - 1 \in Nat /\ m - 1 \notin Bad
      BY <1>1, <1>2, <1>4
    <2>2. PICK g : Loop(g, batch, items, m - 1)
      BY <2>1
    <2> DEFINE h == [k \in 0..m |-> IF k = 0 THEN base ELSE AppendToBatch(g[k - 1], items[k])]
    <2>3. \A k \in 0..(m - 1) : g[k] = IF k = 0 THEN base ELSE AppendToBatch(g[k - 1], items[k])
      BY <2>2, Zenon DEF Loop, base
    <2>4. \A k \in 0..(m - 1) : k \in 0..m
      BY <1>2
    <2>5. \A k \in 0..(m - 1) : h[k] = g[k]
      BY <2>3, <2>4
    <2>6. \A k \in 0..m : k # 0 => k - 1 \in 0..(m - 1)
      BY <1>2
    <2>7. h = [k \in 0..m |-> IF k = 0 THEN base ELSE AppendToBatch(g[k - 1], items[k])]
      OBVIOUS
    <2> HIDE DEF h
    <2>8. h = [k \in 0..m |-> IF k = 0 THEN base ELSE AppendToBatch(h[k - 1], items[k])]
      BY <2>5, <2>6, <2>7
    <2>9. Loop(h, batch, items, m)
      BY <2>8 DEF Loop, base
    <2> QED BY <1>2, <2>9
  <1> QED BY <1>3, <1>4

\* What the loop has so far.
Accs == [batch : Seq(Items), ready : Seq(SUBSET Items)]

Held(acc) == ToSet(acc.batch) \cup UNION ToSet(acc.ready)

GoodAcc(acc) ==
  /\ acc \in Accs
  /\ IsInjective(acc.batch)
  /\ \A k \in DOMAIN acc.ready : acc.ready[k] # {} /\ acc.ready[k] \cap ToSet(acc.batch) = {}
  /\ \A j, k \in DOMAIN acc.ready : j # k => acc.ready[j] \cap acc.ready[k] = {}

\* appendToBatch with an item that is not there yet.
LEMMA AppendGood ==
  ASSUME NEW acc, GoodAcc(acc), NEW i \in Items, i \notin Held(acc)
  PROVE  /\ GoodAcc(AppendToBatch(acc, i))
         /\ Held(AppendToBatch(acc, i)) = Held(acc) \cup {i}
  <1> DEFINE s == acc.batch
             b == Append(s, i)
             rd == acc.ready
             cut == Append(rd, ToSet(b))
  <1>1. s \in Seq(Items) /\ rd \in Seq(SUBSET Items) /\ i \notin ToSet(s) /\ IsInjective(s)
    BY DEF GoodAcc, Accs, Held
  <1>2. /\ b \in Seq(Items) /\ DOMAIN b = 1..(Len(s) + 1) /\ DOMAIN s = 1..Len(s) /\ Len(s) \in Nat
        /\ \A k \in 1..Len(s) : b[k] = s[k]
        /\ b[Len(s) + 1] = i
    BY <1>1, AppendProperties
  <1>3. ToSet(b) = ToSet(s) \cup {i} /\ ToSet(b) # {} /\ ToSet(b) \in SUBSET Items
    <2>1. \A k \in DOMAIN b : k \in DOMAIN s \/ k = Len(s) + 1
      BY <1>2
    <2>2. \A k \in DOMAIN s : k \in DOMAIN b /\ b[k] = s[k]
      BY <1>2
    <2>3. Len(s) + 1 \in DOMAIN b
      BY <1>2
    <2>4. ToSet(b) = ToSet(s) \cup {i}
      BY <1>2, <2>1, <2>2, <2>3 DEF ToSet
    <2>5. ToSet(s) \in SUBSET Items
      BY <1>1 DEF ToSet
    <2> QED BY <2>4, <2>5
  <1>4. IsInjective(b)
    <2> SUFFICES ASSUME NEW j \in DOMAIN b, NEW k \in DOMAIN b, b[j] = b[k] PROVE j = k
      BY DEF IsInjective
    <2>1. \A x \in DOMAIN s : b[x] = s[x] /\ b[x] # i
      BY <1>1, <1>2 DEF ToSet
    <2>2. \A x \in DOMAIN b : x \in DOMAIN s \/ x = Len(s) + 1
      BY <1>2
    <2> QED BY <1>1, <1>2, <2>1, <2>2 DEF IsInjective
  <1>5. /\ \A k \in DOMAIN rd : rd[k] # {} /\ rd[k] \cap ToSet(s) = {} /\ i \notin rd[k]
        /\ \A j, k \in DOMAIN rd : j # k => rd[j] \cap rd[k] = {}
    BY DEF GoodAcc, Held, ToSet
  <1> HIDE DEF s, b
  <1>6. CASE MaxItems > 0 /\ Len(b) >= MaxItems
    <2> DEFINE new == [batch |-> << >>, ready |-> cut]
    <2>1. AppendToBatch(acc, i) = new
      BY <1>6 DEF AppendToBatch, b, s
    <2>2. /\ cut \in Seq(SUBSET Items) /\ DOMAIN cut = 1..(Len(rd) + 1)
          /\ DOMAIN rd = 1..Len(rd) /\ Len(rd) \in Nat
          /\ \A k \in 1..Len(rd) : cut[k] = rd[k]
          /\ cut[Len(rd) + 1] = ToSet(b)
      BY <1>1, <1>3, AppendProperties
    <2>3. ToSet(<< >>) = {} /\ IsInjective(<< >>) /\ << >> \in Seq(Items)
      BY DEF ToSet, IsInjective
    <2>4. \A k \in DOMAIN cut : k \in DOMAIN rd \/ k = Len(rd) + 1
      BY <2>2
    <2>5. \A k \in DOMAIN rd : k \in DOMAIN cut /\ cut[k] = rd[k]
      BY <2>2
    <2>6. Len(rd) + 1 \in DOMAIN cut /\ cut[Len(rd) + 1] = ToSet(b)
      BY <2>2
    <2> DEFINE n == Len(rd) + 1
    <2> HIDE DEF cut, rd, n
    <2>7. \A k \in DOMAIN cut : cut[k] # {}
      BY <1>3, <1>5, <2>4, <2>5, <2>6 DEF n
    <2>8. \A k \in DOMAIN rd : rd[k] \cap ToSet(b) = {}
      BY <1>3, <1>5
    <2>9. \A j, k \in DOMAIN cut : j # k => cut[j] \cap cut[k] = {}
      <3> SUFFICES ASSUME NEW j \in DOMAIN cut, NEW k \in DOMAIN cut, j # k
                   PROVE  cut[j] \cap cut[k] = {}
        OBVIOUS
      <3>1. CASE j \in DOMAIN rd /\ k \in DOMAIN rd
        BY <1>5, <2>5, <3>1
      <3>2. CASE j \in DOMAIN rd /\ k = n
        BY <2>5, <2>6, <2>8, <3>2 DEF n
      <3>3. CASE j = n /\ k \in DOMAIN rd
        BY <2>5, <2>6, <2>8, <3>3 DEF n
      <3> QED BY <2>4, <3>1, <3>2, <3>3 DEF n
    <2>10. GoodAcc(new)
      BY <2>2, <2>3, <2>7, <2>9 DEF GoodAcc, Accs
    <2>11. UNION ToSet(cut) = (UNION ToSet(rd)) \cup ToSet(b)
      <3>1. ToSet(cut) = ToSet(rd) \cup {ToSet(b)}
        BY <2>4, <2>5, <2>6 DEF ToSet
      <3> QED BY <3>1
    <2>12. Held(new) = Held(acc) \cup {i}
      BY <1>3, <2>3, <2>11 DEF Held, rd, s
    <2> QED BY <2>1, <2>10, <2>12
  <1>7. CASE ~(MaxItems > 0 /\ Len(b) >= MaxItems)
    <2> DEFINE new == [batch |-> b, ready |-> rd]
    <2>1. AppendToBatch(acc, i) = new
      BY <1>7 DEF AppendToBatch, b, s
    <2> HIDE DEF rd
    <2>2. GoodAcc(new)
      <3>1. \A k \in DOMAIN rd : rd[k] # {} /\ rd[k] \cap ToSet(b) = {}
        BY <1>3, <1>5
      <3> QED BY <1>1, <1>2, <1>4, <1>5, <3>1 DEF GoodAcc, Accs
    <2>3. Held(new) = Held(acc) \cup {i}
      BY <1>3 DEF Held, rd, s
    <2> QED BY <2>1, <2>2, <2>3
  <1> QED BY <1>6, <1>7

\* The loop, and the passthrough of a disabled batcher, as a whole.
LEMMA BatchedGood ==
  ASSUME NEW batch \in Seq(Items), NEW items \in Seq(Items), items # << >>,
         IsInjective(batch), IsInjective(items), ToSet(batch) \cap ToSet(items) = {}
  PROVE  /\ GoodAcc(Batched(batch, items))
         /\ Held(Batched(batch, items)) = ToSet(batch) \cup ToSet(items)
  <1> DEFINE n == Len(items)
             base == [batch |-> batch, ready |-> << >>]
             Upto(k) == {items[j] : j \in 1..k}
  <1>1. n \in Nat /\ DOMAIN items = 1..n
    OBVIOUS
  <1>2. ToSet(<< >>) = {}
    BY DEF ToSet
  <1>3. GoodAcc(base) /\ Held(base) = ToSet(batch)
    BY <1>2 DEF GoodAcc, Held, Accs
  <1>4. CASE MaxItems > 0
    <2> DEFINE g == CHOOSE h : Loop(h, batch, items, n)
    <2>1. Loop(g, batch, items, n)
      BY <1>1, LoopExists
    <2>2. Batched(batch, items) = g[n]
      BY <1>4 DEF Batched, AddChunk, Loop
    <2> HIDE DEF g
    <2>3. \A k \in 0..n : g[k] = IF k = 0 THEN base ELSE AppendToBatch(g[k - 1], items[k])
      BY <2>1, Zenon DEF Loop
    <2> DEFINE Good(k) == GoodAcc(g[k]) /\ Held(g[k]) = ToSet(batch) \cup Upto(k)
               Bad == {k \in 0..n : ~Good(k)}
    <2>4. Bad = {}
      <3> SUFFICES ASSUME Bad # {} PROVE FALSE
        OBVIOUS
      <3>1. PICK m \in Bad : \A k \in Bad : m <= k
        <4>1. Bad \subseteq Nat
          BY <1>1
        <4> QED BY <4>1, LeastNatural
      <3>2. m \in 0..n /\ ~Good(m) /\ m \in Nat
        BY <1>1, <3>1
      <3>3. Upto(0) = {}
        OBVIOUS
      <3>4. Good(0)
        BY <1>1, <1>3, <2>3, <3>3
      <3>5. m # 0
        BY <3>2, <3>4
      <3>6. m - 1 \in 0..n /\ m \in 1..n
        BY <1>1, <3>2, <3>5
      <3>7. Good(m - 1)
        <4>1. ~(m <= m - 1)
          BY <3>2
        <4>2. m - 1 \notin Bad
          BY <3>1, <4>1
        <4> HIDE DEF Good
        <4> QED BY <3>6, <4>2
      <3> DEFINE i == items[m]
      <3>8. i \in Items /\ i \in ToSet(items)
        BY <1>1, <3>6 DEF ToSet
      <3>9. i \notin Upto(m - 1)
        <4>1. \A j \in 1..(m - 1) : j \in DOMAIN items /\ m \in DOMAIN items /\ j # m
          BY <1>1, <3>2, <3>6
        <4> QED BY <4>1 DEF IsInjective
      <3>10. i \notin ToSet(batch)
        BY <3>8
      <3>11. Upto(m) = Upto(m - 1) \cup {i}
        <4>1. 1..m = (1..(m - 1)) \cup {m}
          BY <3>2, <3>6
        <4> QED BY <4>1
      <3>12. g[m] = AppendToBatch(g[m - 1], i)
        BY <2>3, <3>2, <3>5
      <3> HIDE DEF i, Upto
      <3>13. GoodAcc(g[m]) /\ Held(g[m]) = Held(g[m - 1]) \cup {i}
        BY <3>7, <3>8, <3>9, <3>10, <3>12, AppendGood
      <3> QED BY <3>2, <3>7, <3>11, <3>13
    <2>5. Good(n)
      <3>1. n \in 0..n
        BY <1>1
      <3> HIDE DEF Good
      <3> QED BY <2>4, <3>1
    <2>6. Upto(n) = ToSet(items)
      BY <1>1 DEF ToSet
    <2> QED BY <2>2, <2>5, <2>6
  <1>5. CASE ~(MaxItems > 0)
    <2> DEFINE all == ToSet(items)
               new == [batch |-> batch, ready |-> <<all>>]
    <2>1. Batched(batch, items) = new
      BY <1>5 DEF Batched
    <2>2. all # {} /\ all \in SUBSET Items
      BY <1>1 DEF ToSet
    <2>3. DOMAIN <<all>> = {1} /\ <<all>>[1] = all
      OBVIOUS
    <2> HIDE DEF all
    <2>4. <<all>> \in Seq(SUBSET Items)
      BY <2>2
    <2>5. ToSet(<<all>>) = {all}
      BY <2>3 DEF ToSet
    <2>6. all \cap ToSet(batch) = {}
      BY DEF all
    <2>7. GoodAcc(new)
      BY <2>2, <2>3, <2>4, <2>6 DEF GoodAcc, Accs
    <2>8. Held(new) = ToSet(batch) \cup all
      BY <2>5 DEF Held
    <2> QED BY <2>1, <2>7, <2>8 DEF all
  <1> QED BY <1>4, <1>5

-----------------------------------------------------------------------------
(* The invariant of the items and the slots.  An item that a Send was      *)
(* granted is in one place: in that Send's hands, in one batcher, or in    *)
(* one request; so no two requests are the same, and the slots that the    *)
(* code counts up and down are the requests that have one.                 *)

Stages == {"wait", "recheck", "encode", "try", "flight", "pause"}

RequestType ==
  [items : SUBSET Items, structured : BOOLEAN, slot : BOOLEAN, attempt : Nat,
   stage : Stages]

TypeInv ==
  /\ left \in [Clients -> Seq(Items)]
  /\ pending \in [Formats -> Seq(Items)]
  /\ requests \subseteq RequestType /\ IsFiniteSet(requests)
  /\ slots \in Nat

LeftOf == [c \in Clients |-> ToSet(left[c])]

PendingOf == [f \in Formats |-> ToSet(pending[f])]

Apart(R, L, P) ==
  /\ \A r \in R : r.items # {}
  /\ \A r, q \in R : r # q => r.items \cap q.items = {}
  /\ \A r \in R, c \in Clients : r.items \cap L[c] = {}
  /\ \A r \in R, f \in Formats : r.items \cap P[f] = {}
  /\ \A c, d \in Clients : c # d => L[c] \cap L[d] = {}
  /\ \A f, g \in Formats : f # g => P[f] \cap P[g] = {}
  /\ \A c \in Clients, f \in Formats : L[c] \cap P[f] = {}

PlaceInv ==
  /\ Apart(requests, LeftOf, PendingOf)
  /\ \A c \in Clients : IsInjective(left[c])
  /\ \A f \in Formats : IsInjective(pending[f])

\* A request without a slot waits for one, or has stopped to because of Close.
StageInv ==
  \A r \in requests : /\ r.stage \notin {"wait", "recheck"} => r.slot
                      /\ r.stage = "wait" => ~r.slot
                      /\ r.stage = "recheck" /\ ~r.slot => closing

SlotInv ==
  /\ slots = Cardinality({r \in requests : r.slot})
  /\ slots <= Slots
  /\ StageInv

ItemInv == TypeInv /\ PlaceInv /\ SlotInv

\* Payloads that may be sent: not empty, with nothing in common, and with nothing
\* that is in a request already.
Payloads(ps, R) ==
  /\ ps \in Seq(SUBSET Items)
  /\ \A k \in DOMAIN ps : ps[k] # {} /\ \A r \in R : r.items \cap ps[k] = {}
  /\ \A j, k \in DOMAIN ps : j # k => ps[j] \cap ps[k] = {}

\* A new request has its payload and, unless it waits, its slot.
LEMMA NewRequestFacts ==
  ASSUME NEW items \in SUBSET Items, NEW st \in BOOLEAN, NEW has \in BOOLEAN
  PROVE  LET r == NewRequest(items, st, has)
         IN  /\ r \in RequestType /\ r.items = items /\ r.slot = has
             /\ r.stage \notin {"wait", "recheck"} => r.slot
             /\ r.stage = "wait" => ~r.slot
             /\ r.stage # "recheck"
  <1> DEFINE stage == IF ~has THEN "wait" ELSE IF st THEN "encode" ELSE "try"
             r == NewRequest(items, st, has)
  <1>1. r = [items |-> items, structured |-> st, slot |-> has, attempt |-> 0, stage |-> stage]
    BY DEF NewRequest
  <1>2. /\ stage \in Stages /\ stage # "recheck"
        /\ stage \notin {"wait", "recheck"} => has
        /\ stage = "wait" => ~has
    BY DEF Stages
  <1> HIDE DEF stage, r
  <1>3. r.items = items /\ r.slot = has /\ r.stage = stage
    BY <1>1
  <1>4. r \in RequestType
    BY <1>1, <1>2 DEF RequestType
  <1> QED BY <1>2, <1>3, <1>4 DEF r

\* sendWithConcurrencyLimit starts one new request per payload, and takes as many
\* slots as there are free ones and payloads for them.
LEMMA StartFacts ==
  ASSUME TypeInv, SlotInv, UNCHANGED closing,
         NEW ps, NEW st \in BOOLEAN, Payloads(ps, requests), Start(ps, st)
  PROVE  /\ requests' \subseteq RequestType /\ IsFiniteSet(requests') /\ slots' \in Nat
         /\ SlotInv'
         /\ requests \subseteq requests'
         /\ \A q \in requests' \ requests : \E k \in DOMAIN ps : q.items = ps[k]
         /\ \A k \in DOMAIN ps : \E q \in requests' \ requests : q.items = ps[k]
         /\ \A q, s \in requests' \ requests : q.items = s.items => q = s
  <1> DEFINE I == DOMAIN ps
             free == Slots - slots
             nr == [k \in I |-> NewRequest(ps[k], st, k <= free)]
             new == {NewRequest(ps[k], st, k <= free) : k \in I}
             W == {r \in new : r.slot}
             H == {r \in requests : r.slot}
             K == {k \in I : k <= free}
  <1>1. requests' = requests \cup new /\ slots' = slots + Cardinality(W)
    BY DEF Start
  <1>2. I = 1..Len(ps) /\ Len(ps) \in Nat /\ \A k \in I : ps[k] \in SUBSET Items
    BY DEF Payloads
  <1>3. slots \in Nat /\ Slots \in Nat /\ slots <= Slots /\ free \in Nat
    BY SenderAssumption DEF TypeInv, SlotInv, SenderAssumption
  <1>4. \A k \in I : /\ nr[k] \in RequestType /\ nr[k].items = ps[k]
                     /\ nr[k].slot = (k <= free)
                     /\ nr[k].stage \notin {"wait", "recheck"} => nr[k].slot
                     /\ nr[k].stage = "wait" => ~nr[k].slot
                     /\ nr[k].stage # "recheck"
    <2> SUFFICES ASSUME NEW k \in I
                 PROVE  /\ nr[k] \in RequestType /\ nr[k].items = ps[k]
                        /\ nr[k].slot = (k <= free)
                        /\ nr[k].stage \notin {"wait", "recheck"} => nr[k].slot
                        /\ nr[k].stage = "wait" => ~nr[k].slot
                        /\ nr[k].stage # "recheck"
      OBVIOUS
    <2> DEFINE has == k <= free
               r == NewRequest(ps[k], st, has)
    <2>1. nr[k] = r /\ has \in BOOLEAN
      OBVIOUS
    <2>2. ps[k] \in SUBSET Items
      BY <1>2
    <2> HIDE DEF nr, I, has
    <2>3. /\ r \in RequestType /\ r.items = ps[k] /\ r.slot = has
          /\ r.stage \notin {"wait", "recheck"} => r.slot
          /\ r.stage = "wait" => ~r.slot
          /\ r.stage # "recheck"
      BY <2>1, <2>2, NewRequestFacts
    <2> HIDE DEF r
    <2> QED BY <2>1, <2>3 DEF has
  <1>5. new = {nr[k] : k \in I}
    OBVIOUS
  <1>6. IsFiniteSet(I)
    BY <1>2, FS_Interval
  <1>7. \A k \in I : ps[k] # {} /\ \A r \in requests : r.items \cap ps[k] = {}
    BY DEF Payloads
  <1>8. \A j, k \in I : j # k => ps[j] \cap ps[k] = {}
    BY DEF Payloads
  <1>9. /\ requests \subseteq RequestType /\ IsFiniteSet(requests)
        /\ slots = Cardinality(H) /\ StageInv
    BY DEF TypeInv, SlotInv
  <1>10. K \subseteq I /\ \A k \in K : k \in 1..free
    BY <1>2, <1>3
  <1>11. \A r \in new : r.slot => \E k \in K : r = nr[k]
    BY <1>4, <1>5
  <1>12. \A k \in K : nr[k] \in W
    BY <1>4, <1>5
  <1>13. K = {k \in I : k <= free} /\ W = {r \in new : r.slot} /\ W \subseteq new
    OBVIOUS
  <1> HIDE DEF nr, new, I, K, free
  <1>14. IsFiniteSet(new)
    <2> DEFINE e == [k \in I |-> nr[k]]
    <2>1. e \in Surjection(I, new)
      BY <1>5 DEF Surjection
    <2> QED BY <1>6, <2>1, FS_Surjection
  <1>15. IsFiniteSet(K) /\ Cardinality(K) <= free /\ Cardinality(K) \in Nat
    <2>1. IsFiniteSet(1..free) /\ Cardinality(1..free) = free
      <3>1. IsFiniteSet(1..free) /\ Cardinality(1..free) = IF 1 > free THEN 0 ELSE free - 1 + 1
        BY <1>3, FS_Interval
      <3> QED BY <1>3, <3>1
    <2>2. K \in SUBSET (1..free)
      BY <1>10
    <2> QED BY <2>1, <2>2, FS_Subset, FS_CardinalityType
  <1>16. IsFiniteSet(W) /\ Cardinality(W) <= Cardinality(K) /\ Cardinality(W) \in Nat
    <2> DEFINE e == [k \in K |-> nr[k]]
    <2>1. e \in Surjection(K, W)
      BY <1>11, <1>12 DEF Surjection
    <2> QED BY <1>15, <2>1, FS_Surjection, FS_CardinalityType
  <1>17. new \cap requests = {}
    <2> SUFFICES ASSUME NEW r \in new, r \in requests PROVE FALSE
      OBVIOUS
    <2>1. PICK k \in I : r = nr[k]
      BY <1>5
    <2> QED BY <1>4, <1>7, <2>1
  <1>18. IsFiniteSet(H)
    BY <1>9, FS_Subset
  <1> DEFINE HW == {r \in requests' : r.slot}
  <1>19. HW = H \cup W /\ H \cap W = {}
    BY <1>1, <1>13, <1>17
  <1> HIDE DEF W, H
  <1>20. Cardinality(H \cup W) = Cardinality(H) + Cardinality(W)
    <2>1. Cardinality(H \cup W) = Cardinality(H) + Cardinality(W) - Cardinality(H \cap W)
      BY <1>16, <1>18, FS_Union
    <2>2. Cardinality(H \cap W) = 0
      BY <1>19, FS_EmptySet
    <2> QED BY <1>3, <1>9, <1>16, <2>1, <2>2
  <1>21. slots' = Cardinality(HW) /\ slots' \in Nat /\ slots' <= Slots
    <2>1. slots' = slots + Cardinality(W)
      BY <1>1
    <2>2. Cardinality(W) <= Slots - slots
      BY <1>3, <1>15, <1>16 DEF free
    <2>3. Cardinality(HW) = slots + Cardinality(W)
      BY <1>9, <1>19, <1>20
    <2>4. Cardinality(W) \in Nat
      BY <1>16
    <2> HIDE DEF HW
    <2> QED BY <1>3, <2>1, <2>2, <2>3, <2>4
  <1>22. IsFiniteSet(requests')
    BY <1>1, <1>9, <1>14, FS_Union
  <1>23. requests' \subseteq RequestType /\ StageInv'
    <2>1. \A r \in new : /\ r \in RequestType
                         /\ r.stage \notin {"wait", "recheck"} => r.slot
                         /\ r.stage = "wait" => ~r.slot
                         /\ r.stage # "recheck"
      BY <1>4, <1>5
    <2> QED BY <1>1, <1>9, <2>1 DEF StageInv
  <1>24. requests' \ requests = new
    BY <1>1, <1>17
  <1>25. \A q \in new : \E k \in I : q.items = ps[k]
    BY <1>4, <1>5
  <1>26. \A k \in I : \E q \in new : q.items = ps[k]
    BY <1>4, <1>5
  <1>27. ASSUME NEW q \in new, NEW s \in new, q.items = s.items PROVE q = s
    <2>1. PICK j \in I : q = nr[j]
      BY <1>5
    <2>2. PICK k \in I : s = nr[k]
      BY <1>5
    <2>3. ps[j] = ps[k] /\ ps[j] # {}
      BY <1>4, <1>7, <1>27, <2>1, <2>2
    <2> QED BY <1>8, <2>1, <2>2, <2>3
  <1>28. SlotInv'
    BY <1>21, <1>23 DEF SlotInv
  <1> QED BY <1>1, <1>21, <1>22, <1>23, <1>24, <1>25, <1>26, <1>27, <1>28 DEF I

\* New requests for payloads that are nowhere else are apart from everything.
LEMMA StartApart ==
  ASSUME NEW R, NEW Q, NEW L, NEW P, NEW ps, Apart(R, L, P), Payloads(ps, R), R \subseteq Q,
         \A q \in Q \ R : \E k \in DOMAIN ps : q.items = ps[k],
         \A q, s \in Q \ R : q.items = s.items => q = s,
         \A k \in DOMAIN ps, c \in Clients : ps[k] \cap L[c] = {},
         \A k \in DOMAIN ps, f \in Formats : ps[k] \cap P[f] = {}
  PROVE  Apart(Q, L, P)
  <1> DEFINE N == Q \ R
  <1>1. /\ \A r \in R : r.items # {}
        /\ \A r, q \in R : r # q => r.items \cap q.items = {}
        /\ \A r \in R, c \in Clients : r.items \cap L[c] = {}
        /\ \A r \in R, f \in Formats : r.items \cap P[f] = {}
    BY DEF Apart
  <1>2. /\ \A k \in DOMAIN ps : ps[k] # {} /\ \A r \in R : r.items \cap ps[k] = {}
        /\ \A j, k \in DOMAIN ps : j # k => ps[j] \cap ps[k] = {}
    BY DEF Payloads
  <1>3. Q = R \cup N
    OBVIOUS
  <1>4. \A q \in N : \E k \in DOMAIN ps : q.items = ps[k]
    OBVIOUS
  <1>5. \A q, s \in N : q.items = s.items => q = s
    OBVIOUS
  <1> HIDE DEF N
  <1>6. \A q \in N : /\ q.items # {}
                     /\ \A r \in R : r.items \cap q.items = {}
                     /\ \A c \in Clients : q.items \cap L[c] = {}
                     /\ \A f \in Formats : q.items \cap P[f] = {}
    BY <1>2, <1>4
  <1>7. \A q, s \in N : q # s => q.items \cap s.items = {}
    BY <1>2, <1>4, <1>5
  <1>8. \A r \in Q : r.items # {}
    BY <1>1, <1>3, <1>6
  <1>9. \A r, q \in Q : r # q => r.items \cap q.items = {}
    BY <1>1, <1>3, <1>6, <1>7
  <1>10. /\ \A r \in Q, c \in Clients : r.items \cap L[c] = {}
         /\ \A r \in Q, f \in Formats : r.items \cap P[f] = {}
    BY <1>1, <1>3, <1>6
  <1> QED BY <1>8, <1>9, <1>10 DEF Apart

\* Who holds an item, before and after a step.
LEMMA InsideOf ==
  /\ \A x : x \in Inside <=> \/ \E r \in requests : x \in r.items
                             \/ \E c \in Clients : x \in LeftOf[c]
                             \/ \E f \in Formats : x \in PendingOf[f]
  /\ \A x : x \in Inside' <=> \/ \E r \in requests' : x \in r.items
                              \/ \E c \in Clients : x \in LeftOf'[c]
                              \/ \E f \in Formats : x \in PendingOf'[f]
  <1>1. /\ \A c \in Clients : LeftOf[c] = ToSet(left[c]) /\ LeftOf'[c] = ToSet(left'[c])
        /\ \A f \in Formats : PendingOf[f] = ToSet(pending[f]) /\ PendingOf'[f] = ToSet(pending'[f])
    BY DEF LeftOf, PendingOf
  <1>2. \A x : x \in Inside <=> \/ \E r \in requests : x \in r.items
                                \/ \E c \in Clients : x \in ToSet(left[c])
                                \/ \E f \in Formats : x \in ToSet(pending[f])
    BY DEF Inside
  <1>3. \A x : x \in Inside' <=> \/ \E r \in requests' : x \in r.items
                                 \/ \E c \in Clients : x \in ToSet(left'[c])
                                 \/ \E f \in Formats : x \in ToSet(pending'[f])
    BY DEF Inside
  <1> QED BY <1>1, <1>2, <1>3

-----------------------------------------------------------------------------
(* The steps of a request.                                                 *)

\* Putting one element in the place of another keeps the count.
LEMMA SwapCount ==
  ASSUME NEW S, IsFiniteSet(S), NEW r \in S, NEW x, x \notin S \ {r}
  PROVE  /\ IsFiniteSet((S \ {r}) \cup {x})
         /\ Cardinality((S \ {r}) \cup {x}) = Cardinality(S)
  <1> DEFINE T == S \ {r}
  <1>1. IsFiniteSet(T) /\ Cardinality(T) = Cardinality(S) - 1
    BY FS_RemoveElement
  <1>2. x \notin T
    OBVIOUS
  <1> HIDE DEF T
  <1>3. IsFiniteSet(T \cup {x}) /\ Cardinality(T \cup {x}) = Cardinality(T) + 1
    BY <1>1, <1>2, FS_AddElement
  <1>4. Cardinality(S) \in Nat
    BY FS_CardinalityType
  <1>5. Cardinality(T \cup {x}) = Cardinality(S)
    BY <1>1, <1>3, <1>4
  <1> QED BY <1>3, <1>5 DEF T

\* A request in a new stage has the place of the one it was.
LEMMA SwapApart ==
  ASSUME NEW R, NEW L, NEW P, Apart(R, L, P), NEW r \in R, NEW x, x.items = r.items
  PROVE  Apart((R \ {r}) \cup {x}, L, P) /\ x \notin R \ {r}
  <1>1. /\ \A q \in R : q.items # {}
        /\ \A q, s \in R : q # s => q.items \cap s.items = {}
        /\ \A q \in R, c \in Clients : q.items \cap L[c] = {}
        /\ \A q \in R, f \in Formats : q.items \cap P[f] = {}
    BY DEF Apart
  <1>2. x \notin R \ {r}
    BY <1>1
  <1> DEFINE Q == (R \ {r}) \cup {x}
  <1>3. \A q \in Q : \E s \in R : q.items = s.items /\ (q = s \/ (q = x /\ s = r))
    OBVIOUS
  <1>4. \A q \in Q : q = x \/ (q \in R /\ q # r)
    OBVIOUS
  <1> HIDE DEF Q
  <1>5. \A q \in Q : q.items # {}
    BY <1>1, <1>3
  <1>6. \A q, s \in Q : q # s => q.items \cap s.items = {}
    BY <1>1, <1>4
  <1>7. /\ \A q \in Q, c \in Clients : q.items \cap L[c] = {}
        /\ \A q \in Q, f \in Formats : q.items \cap P[f] = {}
    BY <1>1, <1>3
  <1>8. Apart(Q, L, P)
    BY <1>5, <1>6, <1>7 DEF Apart
  <1> QED BY <1>2, <1>8 DEF Q

\* A request moves to its next stage, with a slot that it has, or that it just got.
LEMMA BecomeFacts ==
  ASSUME ItemInv, UNCHANGED <<left, pending, closing>>,
         NEW r \in requests, NEW next \in RequestType, Become(r, next),
         next.items = r.items,
         \/ next.slot = r.slot /\ slots' = slots
         \/ ~r.slot /\ next.slot /\ slots < Slots /\ slots' = slots + 1,
         next.stage \notin {"wait", "recheck"} => next.slot,
         next.stage = "wait" => ~next.slot,
         next.stage = "recheck" /\ ~next.slot => closing
  PROVE  ItemInv' /\ Inside' = Inside
  <1>1. requests' = (requests \ {r}) \cup {next}
    BY DEF Become
  <1>2. /\ requests \subseteq RequestType /\ IsFiniteSet(requests) /\ slots \in Nat
        /\ Apart(requests, LeftOf, PendingOf)
        /\ slots = Cardinality({q \in requests : q.slot}) /\ slots <= Slots /\ StageInv
    BY DEF ItemInv, TypeInv, PlaceInv, SlotInv
  <1>3. LeftOf' = LeftOf /\ PendingOf' = PendingOf
    BY DEF LeftOf, PendingOf
  <1>4. Apart(requests', LeftOf', PendingOf') /\ next \notin requests \ {r}
    BY <1>1, <1>2, <1>3, SwapApart
  <1>5. PlaceInv'
    <2>1. /\ \A c \in Clients : IsInjective(left'[c])
          /\ \A f \in Formats : IsInjective(pending'[f])
      BY DEF ItemInv, PlaceInv
    <2> QED BY <1>4, <2>1 DEF PlaceInv
  <1>6. IsFiniteSet(requests')
    BY <1>1, <1>2, <1>4, SwapCount
  <1>7. slots' \in Nat
    BY <1>2
  <1>8. TypeInv'
    <2>1. requests' \subseteq RequestType
      BY <1>1, <1>2
    <2> QED BY <1>6, <1>7, <2>1 DEF ItemInv, TypeInv
  <1>9. StageInv'
    BY <1>1, <1>2 DEF StageInv
  <1> DEFINE H == {q \in requests : q.slot}
             G == {q \in requests' : q.slot}
  <1>10. IsFiniteSet(H)
    BY <1>2, FS_Subset
  <1>11. slots' = Cardinality(G) /\ slots' <= Slots
    <2>1. CASE next.slot /\ r.slot /\ slots' = slots
      <3>1. G = (H \ {r}) \cup {next} /\ r \in H /\ next \notin H \ {r}
        BY <1>1, <1>4, <2>1
      <3> HIDE DEF H, G
      <3>2. Cardinality(G) = Cardinality(H)
        BY <1>10, <3>1, SwapCount
      <3> QED BY <1>2, <2>1, <3>2 DEF H
    <2>2. CASE ~next.slot /\ ~r.slot /\ slots' = slots
      <3>1. G = H
        BY <1>1, <2>2
      <3> QED BY <1>2, <2>2, <3>1
    <2>3. CASE ~r.slot /\ next.slot /\ slots < Slots /\ slots' = slots + 1
      <3>1. G = H \cup {next}
        BY <1>1, <2>3
      <3>2. next \notin H
        <4>1. next # r
          BY <2>3
        <4> QED BY <1>4, <4>1
      <3> HIDE DEF H, G
      <3>3. Cardinality(G) = Cardinality(H) + 1
        BY <1>10, <3>1, <3>2, FS_AddElement
      <3>4. slots = Cardinality(H)
        BY <1>2 DEF H
      <3>5. Slots \in Nat
        BY SenderAssumption DEF SenderAssumption
      <3> QED BY <1>2, <2>3, <3>3, <3>4, <3>5
    <2>4. next.slot \in BOOLEAN /\ r.slot \in BOOLEAN
      BY <1>2 DEF RequestType
    <2> QED BY <2>1, <2>2, <2>3, <2>4
  <1>12. SlotInv'
    BY <1>9, <1>11 DEF SlotInv
  <1>13. Inside' = Inside
    <2>1. \A x : (\E q \in requests' : x \in q.items) <=> (\E q \in requests : x \in q.items)
      BY <1>1
    <2>2. \A x : x \in Inside' <=> x \in Inside
      BY <1>3, <2>1, InsideOf
    <2> QED BY <2>2
  <1> QED BY <1>5, <1>8, <1>12, <1>13 DEF ItemInv

\* A request ends, gives back the slot it has, and its items are in the sender no more.
LEMMA FinishFacts ==
  ASSUME ItemInv, UNCHANGED <<left, pending, closing>>, NEW r \in requests, Finish(r)
  PROVE  /\ ItemInv' /\ Inside' = Inside \ r.items
         /\ r.items \subseteq Inside /\ r.items \in (SUBSET Items) \ {{}}
  <1>1. requests' = requests \ {r} /\ slots' = IF r.slot THEN slots - 1 ELSE slots
    BY DEF Finish, ReleaseSlot
  <1>2. /\ requests \subseteq RequestType /\ IsFiniteSet(requests) /\ slots \in Nat
        /\ Apart(requests, LeftOf, PendingOf)
        /\ slots = Cardinality({q \in requests : q.slot}) /\ slots <= Slots /\ StageInv
    BY DEF ItemInv, TypeInv, PlaceInv, SlotInv
  <1>3. LeftOf' = LeftOf /\ PendingOf' = PendingOf
    BY DEF LeftOf, PendingOf
  <1>4. /\ \A q \in requests : q.items # {}
        /\ \A q \in requests : q # r => q.items \cap r.items = {}
        /\ \A c \in Clients : r.items \cap LeftOf[c] = {}
        /\ \A f \in Formats : r.items \cap PendingOf[f] = {}
    BY <1>2 DEF Apart
  <1>5. Apart(requests', LeftOf', PendingOf')
    BY <1>1, <1>2, <1>3 DEF Apart
  <1>6. PlaceInv'
    <2>1. /\ \A c \in Clients : IsInjective(left'[c])
          /\ \A f \in Formats : IsInjective(pending'[f])
      BY DEF ItemInv, PlaceInv
    <2> QED BY <1>5, <2>1 DEF PlaceInv
  <1> DEFINE H == {q \in requests : q.slot}
             G == {q \in requests' : q.slot}
  <1>7. IsFiniteSet(H) /\ IsFiniteSet(requests')
    BY <1>1, <1>2, FS_Subset
  <1>8. slots' = Cardinality(G) /\ slots' <= Slots /\ slots' \in Nat
    <2>0. slots = Cardinality(H) /\ Slots \in Nat
      BY <1>2, SenderAssumption DEF SenderAssumption
    <2>1. CASE r.slot
      <3>1. G = H \ {r} /\ r \in H
        BY <1>1, <2>1
      <3> HIDE DEF H, G
      <3>2. Cardinality(G) = Cardinality(H) - 1 /\ Cardinality(G) \in Nat
        BY <1>7, <3>1, FS_RemoveElement, FS_CardinalityType
      <3> QED BY <1>1, <1>2, <2>0, <2>1, <3>2
    <2>2. CASE ~r.slot
      <3>1. G = H
        BY <1>1, <2>2
      <3> QED BY <1>1, <1>2, <2>2, <3>1
    <2>3. r.slot \in BOOLEAN
      BY <1>2 DEF RequestType
    <2> QED BY <2>1, <2>2, <2>3
  <1>9. TypeInv'
    <2>1. requests' \subseteq RequestType
      BY <1>1, <1>2
    <2> QED BY <1>7, <1>8, <2>1 DEF ItemInv, TypeInv
  <1>10. SlotInv'
    <2>1. StageInv'
      BY <1>1, <1>2 DEF StageInv
    <2> QED BY <1>8, <2>1 DEF SlotInv
  <1>11. r.items \subseteq Inside
    BY InsideOf
  <1>12. Inside' = Inside \ r.items
    <2>1. \A x : (\E q \in requests' : x \in q.items) <=>
                 (x \notin r.items /\ \E q \in requests : x \in q.items)
      BY <1>1, <1>4
    <2>2. \A x : (\E c \in Clients : x \in LeftOf[c]) => x \notin r.items
      BY <1>4
    <2>3. \A x : (\E f \in Formats : x \in PendingOf[f]) => x \notin r.items
      BY <1>4
    <2>4. \A x : x \in Inside' <=> x \in Inside /\ x \notin r.items
      BY <1>3, <2>1, <2>2, <2>3, InsideOf
    <2> QED BY <2>4
  <1>13. r.items \in SUBSET Items
    BY <1>2 DEF RequestType
  <1> QED BY <1>4, <1>6, <1>9, <1>10, <1>11, <1>12, <1>13 DEF ItemInv

\* What a step does to the items that are in the sender.
Moved == Inside' = Inside /\ UNCHANGED <<acked, rejected>>

Resolved(S) ==
  /\ S \in (SUBSET Items) \ {{}} /\ S \subseteq Inside
  /\ Inside' = Inside \ S
  /\ \/ acked' = acked \cup S /\ UNCHANGED rejected
     \/ rejected' = rejected \cup S /\ UNCHANGED acked

\* A request that replaces r: if r waits and the sender closes, so does this one.
Follows(r, next) ==
  /\ next.items = r.items
  /\ closing /\ r.stage \in {"wait", "recheck"} => next.stage \in {"wait", "recheck"}

At(r, st) == [r EXCEPT !.stage = st]

\* Only the stage of a request changes.
LEMMA AtFacts ==
  ASSUME NEW r \in RequestType, NEW st \in Stages
  PROVE  /\ At(r, st) \in RequestType
         /\ At(r, st).items = r.items /\ At(r, st).slot = r.slot /\ At(r, st).stage = st
  BY DEF RequestType, At

\* The stages that a request with a slot may go to from where it is.
LEMMA GoesOn ==
  ASSUME ItemInv, UNCHANGED <<left, pending, closing, slots>>, NEW r \in requests,
         NEW st \in Stages \ {"wait"}, r.slot \/ (st = "recheck" /\ closing),
         Become(r, At(r, st)),
         closing /\ r.stage \in {"wait", "recheck"} => st = "recheck"
  PROVE  /\ ItemInv' /\ Inside' = Inside
         /\ \A next \in requests' : next \in requests \/ Follows(r, next)
  <1> DEFINE n == At(r, st)
  <1>1. r \in RequestType
    BY DEF ItemInv, TypeInv
  <1>2. n \in RequestType /\ n.items = r.items /\ n.slot = r.slot /\ n.stage = st
    BY <1>1, AtFacts
  <1>3. Become(r, n)
    OBVIOUS
  <1> HIDE DEF n
  <1>4. ItemInv' /\ Inside' = Inside
    BY <1>2, <1>3, BecomeFacts
  <1>5. \A next \in requests' : next \in requests \/ next = n
    BY <1>3 DEF Become
  <1>6. Follows(r, n)
    BY <1>2 DEF Follows
  <1> QED BY <1>4, <1>5, <1>6

\* The fallback takes the data, or the server has it.
LEMMA RejectFacts ==
  ASSUME ItemInv, UNCHANGED <<left, pending, closing>>, NEW r \in requests,
         Reject(r) \/ (Finish(r) /\ acked' = acked \cup r.items /\ UNCHANGED rejected)
  PROVE  /\ ItemInv' /\ Resolved(r.items)
         /\ requests' \subseteq requests
  <1>1. Finish(r)
    BY DEF Reject
  <1>2. /\ ItemInv' /\ Inside' = Inside \ r.items
        /\ r.items \subseteq Inside /\ r.items \in (SUBSET Items) \ {{}}
    BY <1>1, FinishFacts
  <1>3. requests' \subseteq requests
    BY <1>1 DEF Finish
  <1>4. \/ acked' = acked \cup r.items /\ UNCHANGED rejected
        \/ rejected' = rejected \cup r.items /\ UNCHANGED acked
    BY DEF Reject
  <1> QED BY <1>2, <1>3, <1>4 DEF Resolved

\* Every step of a request.
LEMMA RequestItems ==
  ASSUME ItemInv, NEW r \in requests, RequestNext(r)
  PROVE  /\ ItemInv' /\ (Moved \/ Resolved(r.items))
         /\ \A next \in requests' : next \in requests \/ Follows(r, next)
  <1>1. UNCHANGED <<left, pending, closing>>
    BY RequestTouches DEF untouched, stateVars
  <1>2. r \in RequestType /\ slots \in Nat /\ StageInv
    BY DEF ItemInv, TypeInv, SlotInv
  <1>3. r.slot \in BOOLEAN /\ r.structured \in BOOLEAN
    BY <1>2 DEF RequestType
  <1>4. /\ r.stage \notin {"wait", "recheck"} => r.slot
        /\ r.stage = "wait" => ~r.slot
        /\ r.stage = "recheck" /\ ~r.slot => closing
    BY <1>2 DEF StageInv
  <1> DEFINE Goal == /\ ItemInv' /\ (Moved \/ Resolved(r.items))
                     /\ \A next \in requests' : next \in requests \/ Follows(r, next)
  <1>5. ASSUME Reject(r) PROVE Goal
    BY <1>1, <1>5, RejectFacts
  <1>6. ASSUME NEW st \in Stages \ {"wait"}, r.slot \/ (st = "recheck" /\ closing),
               Become(r, At(r, st)), UNCHANGED <<slots, acked, rejected>>,
               closing /\ r.stage \in {"wait", "recheck"} => st = "recheck"
        PROVE  Goal
    <2>1. UNCHANGED <<left, pending, closing, slots>>
      BY <1>1, <1>6
    <2>2. /\ ItemInv' /\ Inside' = Inside
          /\ \A next \in requests' : next \in requests \/ Follows(r, next)
      BY <1>6, <2>1, GoesOn
    <2> QED BY <1>6, <2>2 DEF Moved
  <1> SUFFICES Goal
    OBVIOUS
  <1> HIDE DEF Goal
  <1>7. CASE GetSlot(r)
    <2> DEFINE n == [r EXCEPT !.stage = "recheck", !.slot = TRUE]
    <2>1. /\ r.stage = "wait" /\ slots < Slots /\ slots' = slots + 1 /\ Become(r, n)
          /\ UNCHANGED <<acked, rejected>>
      BY <1>7 DEF GetSlot
    <2>2. n \in RequestType /\ n.items = r.items /\ n.slot = TRUE /\ n.stage = "recheck"
      BY <1>2 DEF RequestType, Stages
    <2>3. ~r.slot
      BY <1>4, <2>1
    <2> HIDE DEF n
    <2>4. ItemInv' /\ Inside' = Inside
      BY <1>1, <2>1, <2>2, <2>3, BecomeFacts
    <2>5. \A next \in requests' : next \in requests \/ next = n
      BY <2>1 DEF Become
    <2>6. Follows(r, n)
      BY <2>2 DEF Follows
    <2> QED BY <2>1, <2>4, <2>5, <2>6 DEF Goal, Moved
  <1>8. CASE StopWaiting(r)
    <2>1. "recheck" \in Stages \ {"wait"}
      BY DEF Stages
    <2>2. /\ closing /\ Become(r, At(r, "recheck"))
          /\ UNCHANGED <<slots, acked, rejected>>
      BY <1>8 DEF StopWaiting, At
    <2> QED BY <1>6, <2>1, <2>2
  <1>9. CASE Recheck(r)
    <2>1. CASE closing
      BY <1>5, <1>9, <2>1 DEF Recheck, At
    <2>2. CASE ~closing
      <3> DEFINE st == IF r.structured THEN "encode" ELSE "try"
      <3>1. st \in Stages \ {"wait"}
        BY DEF Stages
      <3>2. /\ r.stage = "recheck" /\ Become(r, At(r, st))
            /\ UNCHANGED <<slots, acked, rejected>>
        BY <1>9, <2>2, Zenon DEF Recheck, At
      <3>3. r.slot
        BY <1>3, <1>4, <2>2, <3>2
      <3> HIDE DEF st
      <3> QED BY <1>6, <2>2, <3>1, <3>2, <3>3
    <2> QED BY <2>1, <2>2
  <1>10. CASE Encode(r)
    <2>1. CASE Reject(r)
      BY <1>5, <2>1
    <2>2. CASE /\ Become(r, At(r, "try"))
               /\ UNCHANGED <<slots, acked, rejected>>
      <3>1. "try" \in Stages \ {"wait"}
        BY DEF Stages
      <3>2. r.slot /\ r.stage = "encode"
        BY <1>4, <1>10, Zenon DEF Encode
      <3> QED BY <1>6, <2>2, <3>1, <3>2
    <2> QED BY <1>10, <2>1, <2>2, Zenon DEF Encode, At
  <1>11. CASE TryAgain(r)
    <2>1. CASE Reject(r)
      BY <1>5, <2>1
    <2>2. CASE /\ Become(r, At(r, "flight"))
               /\ UNCHANGED <<slots, acked, rejected>>
      <3>1. "flight" \in Stages \ {"wait"}
        BY DEF Stages
      <3>2. r.slot /\ r.stage = "try"
        BY <1>4, <1>11, Zenon DEF TryAgain
      <3> QED BY <1>6, <2>2, <3>1, <3>2
    <2> QED BY <1>11, <2>1, <2>2, Zenon DEF TryAgain, At
  <1>12. CASE PauseEnds(r)
    <2> DEFINE a == r.attempt + 1
               n == [r EXCEPT !.stage = "try", !.attempt = a]
    <2>1. r.stage = "pause" /\ Become(r, n) /\ UNCHANGED <<slots, acked, rejected>>
      BY <1>12 DEF PauseEnds
    <2>0. a \in Nat
      BY <1>2 DEF RequestType
    <2> HIDE DEF a
    <2>2. n \in RequestType /\ n.items = r.items /\ n.slot = r.slot /\ n.stage = "try"
      BY <1>2, <2>0 DEF RequestType, Stages
    <2>3. r.slot
      BY <1>4, <2>1
    <2> HIDE DEF n
    <2>4. ItemInv' /\ Inside' = Inside
      BY <1>1, <2>1, <2>2, <2>3, BecomeFacts
    <2>5. \A next \in requests' : next \in requests \/ next = n
      BY <2>1 DEF Become
    <2>6. Follows(r, n)
      BY <2>1, <2>2 DEF Follows
    <2> QED BY <2>1, <2>4, <2>5, <2>6 DEF Goal, Moved
  <1>13. CASE Aborted(r) \/ FailsForGood(r)
    BY <1>5, <1>13 DEF Aborted, FailsForGood
  <1>14. CASE Succeeds(r)
    <2>1. Finish(r) /\ acked' = acked \cup r.items /\ UNCHANGED rejected
      BY <1>14 DEF Succeeds
    <2> QED BY <1>1, <2>1, RejectFacts DEF Goal
  <1>15. CASE FailsForNow(r)
    <2>1. "pause" \in Stages \ {"wait"}
      BY DEF Stages
    <2>2. /\ r.stage = "flight" /\ Become(r, At(r, "pause"))
          /\ UNCHANGED <<slots, acked, rejected>>
      BY <1>15 DEF FailsForNow, At
    <2>3. r.slot
      BY <1>4, <2>2
    <2> QED BY <1>6, <2>1, <2>2, <2>3
  <1> QED
    BY <1>7, <1>8, <1>9, <1>10, <1>11, <1>12, <1>13, <1>14, <1>15
    DEF RequestNext, RequestStep

-----------------------------------------------------------------------------
(* The steps that start requests: what leaves a Send's hands or a batcher  *)
(* is in the new requests, or in the batcher.                              *)

\* One Send's items change.
LEMMA LeftChange ==
  ASSUME NEW c \in Clients, NEW s \in Seq(Items), IsInjective(s),
         left \in [Clients -> Seq(Items)], \A d \in Clients : IsInjective(left[d]),
         left' = [left EXCEPT ![c] = s]
  PROVE  /\ left' \in [Clients -> Seq(Items)] /\ \A d \in Clients : IsInjective(left'[d])
         /\ LeftOf'[c] = ToSet(s) /\ \A d \in Clients \ {c} : LeftOf'[d] = LeftOf[d]
  <1>1. left' \in [Clients -> Seq(Items)] /\ left'[c] = s
    OBVIOUS
  <1>2. \A d \in Clients \ {c} : left'[d] = left[d]
    OBVIOUS
  <1>3. \A d \in Clients : LeftOf'[d] = ToSet(left'[d]) /\ LeftOf[d] = ToSet(left[d])
    BY DEF LeftOf
  <1>4. \A d \in Clients : IsInjective(left'[d])
    BY <1>1, <1>2
  <1> QED BY <1>1, <1>2, <1>3, <1>4

\* One batcher's pending batch changes.
LEMMA PendingChange ==
  ASSUME NEW f \in Formats, NEW s \in Seq(Items), IsInjective(s),
         pending \in [Formats -> Seq(Items)], \A g \in Formats : IsInjective(pending[g]),
         pending' = [pending EXCEPT ![f] = s]
  PROVE  /\ pending' \in [Formats -> Seq(Items)] /\ \A g \in Formats : IsInjective(pending'[g])
         /\ PendingOf'[f] = ToSet(s) /\ \A g \in Formats \ {f} : PendingOf'[g] = PendingOf[g]
  <1>1. pending' \in [Formats -> Seq(Items)] /\ pending'[f] = s
    OBVIOUS
  <1>2. \A g \in Formats \ {f} : pending'[g] = pending[g]
    OBVIOUS
  <1>3. \A g \in Formats : PendingOf'[g] = ToSet(pending'[g]) /\ PendingOf[g] = ToSet(pending[g])
    BY DEF PendingOf
  <1>4. \A g \in Formats : IsInjective(pending'[g])
    BY <1>1, <1>2
  <1> QED BY <1>1, <1>2, <1>3, <1>4

\* There is nothing in an empty batch.
LEMMA EmptyBatch == << >> \in Seq(Items) /\ IsInjective(<< >>) /\ ToSet(<< >>) = {}
  BY DEF IsInjective, ToSet

\* Sends and batchers that hold less are still apart.
LEMMA ShrinkApart ==
  ASSUME NEW R, NEW L, NEW P, NEW L2, NEW P2, Apart(R, L, P),
         \A d \in Clients : L2[d] \subseteq L[d],
         \A g \in Formats : P2[g] \subseteq P[g]
  PROVE  Apart(R, L2, P2)
  <1>1. /\ \A r \in R : r.items # {}
        /\ \A r, q \in R : r # q => r.items \cap q.items = {}
    BY DEF Apart
  <1>2. /\ \A r \in R, c \in Clients : r.items \cap L2[c] = {}
        /\ \A r \in R, f \in Formats : r.items \cap P2[f] = {}
    BY DEF Apart
  <1>3. /\ \A c, d \in Clients : c # d => L2[c] \cap L2[d] = {}
        /\ \A f, g \in Formats : f # g => P2[f] \cap P2[g] = {}
    BY DEF Apart
  <1>4. \A c \in Clients, f \in Formats : L2[c] \cap P2[f] = {}
    BY DEF Apart
  <1> QED BY <1>1, <1>2, <1>3, <1>4 DEF Apart

\* A chunk, or a part of it, moves to a batcher.
LEMMA MoveApart ==
  ASSUME NEW R, NEW L, NEW P, NEW L2, NEW P2, Apart(R, L, P),
         NEW c \in Clients, NEW f \in Formats,
         L2[c] = {}, \A d \in Clients \ {c} : L2[d] = L[d],
         P2[f] \subseteq P[f] \cup L[c], \A g \in Formats \ {f} : P2[g] = P[g]
  PROVE  Apart(R, L2, P2)
  <1>1. /\ \A r \in R : r.items # {}
        /\ \A r, q \in R : r # q => r.items \cap q.items = {}
    BY DEF Apart
  <1>2. \A r \in R, d \in Clients : r.items \cap L2[d] = {}
    <2> SUFFICES ASSUME NEW r \in R, NEW d \in Clients PROVE r.items \cap L2[d] = {}
      OBVIOUS
    <2>1. r.items \cap L[d] = {}
      BY DEF Apart
    <2> QED BY <2>1
  <1>3. \A r \in R, g \in Formats : r.items \cap P2[g] = {}
    <2> SUFFICES ASSUME NEW r \in R, NEW g \in Formats PROVE r.items \cap P2[g] = {}
      OBVIOUS
    <2>1. r.items \cap P[g] = {} /\ r.items \cap L[c] = {}
      BY DEF Apart
    <2> QED BY <2>1
  <1>4. \A b, d \in Clients : b # d => L2[b] \cap L2[d] = {}
    <2> SUFFICES ASSUME NEW b \in Clients, NEW d \in Clients, b # d PROVE L2[b] \cap L2[d] = {}
      OBVIOUS
    <2>1. L[b] \cap L[d] = {}
      BY DEF Apart
    <2> QED BY <2>1
  <1>5. \A h, g \in Formats : h # g => P2[h] \cap P2[g] = {}
    <2> SUFFICES ASSUME NEW h \in Formats, NEW g \in Formats, h # g PROVE P2[h] \cap P2[g] = {}
      OBVIOUS
    <2>1. P[h] \cap P[g] = {} /\ L[c] \cap P[g] = {} /\ L[c] \cap P[h] = {}
      BY DEF Apart
    <2>2. CASE h = f
      BY <2>1, <2>2
    <2>3. CASE g = f
      BY <2>1, <2>3
    <2>4. CASE h # f /\ g # f
      BY <2>1, <2>4
    <2> QED BY <2>2, <2>3, <2>4
  <1>6. \A d \in Clients, g \in Formats : L2[d] \cap P2[g] = {}
    <2> SUFFICES ASSUME NEW d \in Clients, NEW g \in Formats PROVE L2[d] \cap P2[g] = {}
      OBVIOUS
    <2>1. L[d] \cap P[g] = {} /\ (d # c => L[d] \cap L[c] = {})
      BY DEF Apart
    <2>2. CASE d = c
      BY <2>2
    <2>3. CASE d # c
      BY <2>1, <2>3
    <2> QED BY <2>2, <2>3
  <1> QED BY <1>1, <1>2, <1>3, <1>4, <1>5, <1>6 DEF Apart

\* Requests are started for payloads that are nowhere else any more.
LEMMA StartStep ==
  ASSUME ItemInv, UNCHANGED closing, NEW ps, NEW st \in BOOLEAN, Start(ps, st),
         Payloads(ps, requests), Apart(requests, LeftOf', PendingOf'),
         \A k \in DOMAIN ps, c \in Clients : ps[k] \cap LeftOf'[c] = {},
         \A k \in DOMAIN ps, f \in Formats : ps[k] \cap PendingOf'[f] = {},
         left' \in [Clients -> Seq(Items)], \A d \in Clients : IsInjective(left'[d]),
         pending' \in [Formats -> Seq(Items)], \A g \in Formats : IsInjective(pending'[g])
  PROVE  /\ ItemInv'
         /\ \A x : x \in Inside' <=> \/ \E r \in requests : x \in r.items
                                     \/ \E k \in DOMAIN ps : x \in ps[k]
                                     \/ \E c \in Clients : x \in LeftOf'[c]
                                     \/ \E f \in Formats : x \in PendingOf'[f]
         /\ \A next \in requests' : next \in requests \/ \A r \in requests : r.items # next.items
  <1>1. TypeInv /\ SlotInv
    BY DEF ItemInv
  <1>2. /\ requests' \subseteq RequestType /\ IsFiniteSet(requests') /\ slots' \in Nat
        /\ SlotInv'
        /\ requests \subseteq requests'
        /\ \A q \in requests' \ requests : \E k \in DOMAIN ps : q.items = ps[k]
        /\ \A k \in DOMAIN ps : \E q \in requests' \ requests : q.items = ps[k]
        /\ \A q, s \in requests' \ requests : q.items = s.items => q = s
    BY <1>1, StartFacts
  <1>3. Apart(requests', LeftOf', PendingOf')
    BY <1>2, StartApart
  <1>4. TypeInv'
    BY <1>2 DEF TypeInv
  <1>5. PlaceInv'
    BY <1>3 DEF PlaceInv
  <1>6. \A x : (\E r \in requests' : x \in r.items) <=>
               \/ \E r \in requests : x \in r.items
               \/ \E k \in DOMAIN ps : x \in ps[k]
    BY <1>2
  <1>7. \A x : x \in Inside' <=> \/ \E r \in requests : x \in r.items
                                 \/ \E k \in DOMAIN ps : x \in ps[k]
                                 \/ \E c \in Clients : x \in LeftOf'[c]
                                 \/ \E f \in Formats : x \in PendingOf'[f]
    BY <1>6, InsideOf
  <1>8. \A k \in DOMAIN ps : ps[k] # {} /\ \A r \in requests : r.items \cap ps[k] = {}
    BY DEF Payloads
  <1>9. \A q \in requests' \ requests : \A r \in requests : r.items # q.items
    BY <1>2, <1>8
  <1> QED BY <1>2, <1>4, <1>5, <1>7, <1>9 DEF ItemInv

\* No request has become another one.
Kept ==
  \A next \in requests' : next \in requests \/ \A r \in requests : r.items # next.items

\* Send hands a chunk of structured data to its batcher, and sends what is ready.
LEMMA StructuredItems ==
  ASSUME ItemInv, NEW c \in Clients, SendStructured(c)
  PROVE  ItemInv' /\ Moved /\ Kept
  <1> DEFINE s == left[c]
             f == FormatOf[Head(s)]
             b == pending[f]
             added == Batched(b, s)
             ps == added.ready
  <1>1. /\ s # << >> /\ f # Unstructured
        /\ pending' = [pending EXCEPT ![f] = added.batch]
        /\ Start(ps, TRUE)
        /\ left' = [left EXCEPT ![c] = << >>]
        /\ UNCHANGED <<closing, acked, rejected>>
    BY DEF SendStructured, stateVars
  <1>2. /\ left \in [Clients -> Seq(Items)] /\ pending \in [Formats -> Seq(Items)]
        /\ Apart(requests, LeftOf, PendingOf)
        /\ \A d \in Clients : IsInjective(left[d])
        /\ \A g \in Formats : IsInjective(pending[g])
    BY DEF ItemInv, TypeInv, PlaceInv
  <1>3. s \in Seq(Items) /\ f \in Formats /\ b \in Seq(Items)
    <2>1. s \in Seq(Items)
      BY <1>2
    <2>2. Head(s) \in Items
      BY <1>1, <2>1, HeadTailProperties
    <2>3. f \in Formats
      BY <1>1, <2>2, SenderAssumption DEF SenderAssumption
    <2> QED BY <1>2, <2>1, <2>3
  <1>4. LeftOf[c] = ToSet(s) /\ PendingOf[f] = ToSet(b)
    BY <1>3 DEF LeftOf, PendingOf
  <1>5. ToSet(b) \cap ToSet(s) = {} /\ IsInjective(s) /\ IsInjective(b)
    <2>1. LeftOf[c] \cap PendingOf[f] = {}
      BY <1>2, <1>3 DEF Apart
    <2> QED BY <1>2, <1>3, <1>4, <2>1
  <1>6. s # << >>
    BY <1>1
  <1> HIDE DEF s, f, b
  <1>7. GoodAcc(added) /\ Held(added) = ToSet(b) \cup ToSet(s)
    BY <1>3, <1>5, <1>6, BatchedGood
  <1> DEFINE nb == added.batch
  <1> HIDE DEF added
  <1>8. /\ nb \in Seq(Items) /\ IsInjective(nb) /\ ps \in Seq(SUBSET Items)
        /\ \A k \in DOMAIN ps : ps[k] # {} /\ ps[k] \cap ToSet(nb) = {}
        /\ \A j, k \in DOMAIN ps : j # k => ps[j] \cap ps[k] = {}
    BY <1>7 DEF GoodAcc, Accs
  <1>9. \A x : x \in ToSet(b) \cup ToSet(s) <=> x \in ToSet(nb) \/ \E k \in DOMAIN ps : x \in ps[k]
    <2>1. Held(added) = ToSet(nb) \cup UNION ToSet(ps)
      BY DEF Held
    <2>2. \A x : x \in UNION ToSet(ps) <=> \E k \in DOMAIN ps : x \in ps[k]
      BY DEF ToSet
    <2> HIDE DEF ps, nb
    <2> QED BY <1>7, <2>1, <2>2
  <1>10. pending' = [pending EXCEPT ![f] = nb] /\ Start(ps, TRUE)
    BY <1>1 DEF added, b, s, f
  <1> HIDE DEF ps, nb
  <1>11. /\ left' \in [Clients -> Seq(Items)] /\ \A d \in Clients : IsInjective(left'[d])
         /\ LeftOf'[c] = {} /\ \A d \in Clients \ {c} : LeftOf'[d] = LeftOf[d]
    BY <1>1, <1>2, EmptyBatch, LeftChange
  <1>12. /\ pending' \in [Formats -> Seq(Items)] /\ \A g \in Formats : IsInjective(pending'[g])
         /\ PendingOf'[f] = ToSet(nb) /\ \A g \in Formats \ {f} : PendingOf'[g] = PendingOf[g]
    BY <1>2, <1>3, <1>8, <1>10, PendingChange
  <1>13. Apart(requests, LeftOf', PendingOf')
    <2>1. PendingOf'[f] \subseteq PendingOf[f] \cup LeftOf[c]
      BY <1>4, <1>9, <1>12
    <2>2. LeftOf'[c] = {} /\ \A d \in Clients \ {c} : LeftOf'[d] = LeftOf[d]
      BY <1>11
    <2>3. \A g \in Formats \ {f} : PendingOf'[g] = PendingOf[g]
      BY <1>12
    <2>4. f \in Formats /\ Apart(requests, LeftOf, PendingOf)
      BY <1>2, <1>3
    <2> DEFINE L == LeftOf
               P == PendingOf
               M == LeftOf'
               N == PendingOf'
    <2>5. /\ f \in Formats /\ Apart(requests, L, P)
          /\ M[c] = {} /\ (\A d \in Clients \ {c} : M[d] = L[d])
          /\ N[f] \subseteq P[f] \cup L[c] /\ (\A g \in Formats \ {f} : N[g] = P[g])
      BY <2>1, <2>2, <2>3, <2>4
    <2> HIDE DEF L, P, M, N
    <2>6. Apart(requests, M, N)
      BY <2>5, MoveApart
    <2> QED BY <2>6 DEF M, N
  <1>14. \A k \in DOMAIN ps : \A x \in ps[k] : x \in PendingOf[f] \/ x \in LeftOf[c]
    BY <1>4, <1>9
  <1>15. /\ \A r \in requests : r.items \cap LeftOf[c] = {} /\ r.items \cap PendingOf[f] = {}
         /\ \A d \in Clients \ {c} : LeftOf[d] \cap LeftOf[c] = {} /\ LeftOf[d] \cap PendingOf[f] = {}
         /\ \A g \in Formats \ {f} : PendingOf[g] \cap LeftOf[c] = {} /\ PendingOf[g] \cap PendingOf[f] = {}
    BY <1>2, <1>3 DEF Apart
  <1>16. Payloads(ps, requests)
    BY <1>8, <1>14, <1>15 DEF Payloads
  <1>17. \A k \in DOMAIN ps, d \in Clients : ps[k] \cap LeftOf'[d] = {}
    BY <1>11, <1>14, <1>15
  <1>18. \A k \in DOMAIN ps, g \in Formats : ps[k] \cap PendingOf'[g] = {}
    BY <1>8, <1>12, <1>14, <1>15
  <1>19. UNCHANGED closing
    BY <1>1
  <1>20. /\ ItemInv'
         /\ \A x : x \in Inside' <=> \/ \E r \in requests : x \in r.items
                                     \/ \E k \in DOMAIN ps : x \in ps[k]
                                     \/ \E d \in Clients : x \in LeftOf'[d]
                                     \/ \E g \in Formats : x \in PendingOf'[g]
         /\ Kept
    BY <1>10, <1>11, <1>12, <1>13, <1>16, <1>17, <1>18, <1>19, StartStep DEF Kept
  <1>21. Inside' = Inside
    <2>1. ASSUME NEW x PROVE x \in Inside' <=> x \in Inside
      <3>1. (\E d \in Clients : x \in LeftOf[d]) <=>
            x \in LeftOf[c] \/ \E d \in Clients : x \in LeftOf'[d]
        BY <1>11
      <3>2. (\E g \in Formats : x \in PendingOf[g]) <=>
            x \in PendingOf[f] \/ \E g \in Formats \ {f} : x \in PendingOf'[g]
        BY <1>3, <1>12
      <3>3. (\E g \in Formats : x \in PendingOf'[g]) <=>
            x \in ToSet(nb) \/ \E g \in Formats \ {f} : x \in PendingOf'[g]
        BY <1>3, <1>12
      <3> QED BY <1>4, <1>9, <1>20, <3>1, <3>2, <3>3, InsideOf
    <2> QED BY <2>1
  <1> QED BY <1>1, <1>20, <1>21 DEF Moved

\* Send sends one item that is not batched.
LEMMA DirectItems ==
  ASSUME ItemInv, NEW c \in Clients, SendDirect(c)
  PROVE  ItemInv' /\ Moved /\ Kept
  <1> DEFINE s == left[c]
             i == Head(s)
             t == Tail(s)
             ps == <<{i}>>
  <1>1. /\ s # << >> /\ Start(ps, FALSE) /\ left' = [left EXCEPT ![c] = t]
        /\ UNCHANGED <<pending, closing, acked, rejected>>
    BY DEF SendDirect, stateVars
  <1>2. /\ left \in [Clients -> Seq(Items)] /\ pending \in [Formats -> Seq(Items)]
        /\ Apart(requests, LeftOf, PendingOf)
        /\ \A d \in Clients : IsInjective(left[d])
        /\ \A g \in Formats : IsInjective(pending[g])
    BY DEF ItemInv, TypeInv, PlaceInv
  <1>3. s \in Seq(Items) /\ IsInjective(s) /\ LeftOf[c] = ToSet(s)
    BY <1>2 DEF LeftOf
  <1>4. /\ i \in Items /\ t \in Seq(Items)
        /\ Len(s) \in Nat /\ DOMAIN s = 1..Len(s) /\ 1 \in DOMAIN s /\ i = s[1]
        /\ DOMAIN t = 1..(Len(s) - 1)
        /\ \A k \in DOMAIN t : t[k] = s[k + 1] /\ k + 1 \in DOMAIN s
    BY <1>1, <1>3, HeadTailProperties
  <1>5. \A k \in DOMAIN s : k = 1 \/ (k - 1 \in DOMAIN t /\ t[k - 1] = s[k])
    <2> SUFFICES ASSUME NEW k \in DOMAIN s, k # 1 PROVE k - 1 \in DOMAIN t /\ t[k - 1] = s[k]
      OBVIOUS
    <2>1. k - 1 \in DOMAIN t /\ (k - 1) + 1 = k
      BY <1>4
    <2> QED BY <1>4, <2>1
  <1>6. \A k \in DOMAIN t : k \in Nat /\ k + 1 # 1
    BY <1>4
  <1> HIDE DEF s, i, t
  <1>7. ToSet(s) = ToSet(t) \cup {i}
    BY <1>4, <1>5 DEF ToSet
  <1>8. i \notin ToSet(t)
    BY <1>3, <1>4, <1>6 DEF ToSet, IsInjective
  <1>9. IsInjective(t)
    <2> SUFFICES ASSUME NEW j \in DOMAIN t, NEW k \in DOMAIN t, t[j] = t[k] PROVE j = k
      BY DEF IsInjective
    <2>1. j + 1 = k + 1
      BY <1>3, <1>4 DEF IsInjective
    <2> QED BY <1>6, <2>1
  <1>10. /\ left' \in [Clients -> Seq(Items)] /\ \A d \in Clients : IsInjective(left'[d])
         /\ LeftOf'[c] = ToSet(t) /\ \A d \in Clients \ {c} : LeftOf'[d] = LeftOf[d]
    BY <1>1, <1>2, <1>4, <1>9, LeftChange
  <1>11. PendingOf' = PendingOf
    BY <1>1 DEF PendingOf
  <1>12. Apart(requests, LeftOf', PendingOf')
    <2>1. \A d \in Clients : LeftOf'[d] \subseteq LeftOf[d]
      BY <1>3, <1>7, <1>10
    <2>2. \A g \in Formats : PendingOf'[g] \subseteq PendingOf[g]
      BY <1>11
    <2> QED BY <1>2, <2>1, <2>2, ShrinkApart
  <1>13. DOMAIN ps = {1} /\ ps[1] = {i} /\ ps \in Seq(SUBSET Items)
    <2>1. {i} \in SUBSET Items
      BY <1>4
    <2> QED BY <2>1
  <1> HIDE DEF ps
  <1>14. i \in LeftOf[c]
    BY <1>3, <1>7
  <1>15. /\ \A r \in requests : i \notin r.items
         /\ \A d \in Clients : i \notin LeftOf'[d]
         /\ \A g \in Formats : i \notin PendingOf'[g]
    <2>1. \A r \in requests : i \notin r.items
      BY <1>2, <1>14 DEF Apart
    <2>2. \A d \in Clients \ {c} : i \notin LeftOf[d]
      BY <1>2, <1>14 DEF Apart
    <2>3. \A g \in Formats : i \notin PendingOf[g]
      BY <1>2, <1>14 DEF Apart
    <2> QED BY <1>8, <1>10, <1>11, <2>1, <2>2, <2>3
  <1>16. Payloads(ps, requests)
    BY <1>13, <1>15 DEF Payloads
  <1>17. /\ \A k \in DOMAIN ps, d \in Clients : ps[k] \cap LeftOf'[d] = {}
         /\ \A k \in DOMAIN ps, g \in Formats : ps[k] \cap PendingOf'[g] = {}
    BY <1>13, <1>15
  <1>18. /\ pending' \in [Formats -> Seq(Items)] /\ \A g \in Formats : IsInjective(pending'[g])
         /\ UNCHANGED closing
    BY <1>1, <1>2
  <1>19. Start(ps, FALSE)
    BY <1>1
  <1>20. /\ ItemInv'
         /\ \A x : x \in Inside' <=> \/ \E r \in requests : x \in r.items
                                     \/ \E k \in DOMAIN ps : x \in ps[k]
                                     \/ \E d \in Clients : x \in LeftOf'[d]
                                     \/ \E g \in Formats : x \in PendingOf'[g]
         /\ Kept
    BY <1>10, <1>12, <1>16, <1>17, <1>18, <1>19, StartStep DEF Kept
  <1>21. Inside' = Inside
    <2>1. ASSUME NEW x PROVE x \in Inside' <=> x \in Inside
      <3>1. (\E d \in Clients : x \in LeftOf[d]) <=>
            x = i \/ \E d \in Clients : x \in LeftOf'[d]
        BY <1>3, <1>7, <1>10
      <3>2. (\E k \in DOMAIN ps : x \in ps[k]) <=> x = i
        BY <1>13
      <3> QED BY <1>11, <1>20, <3>1, <3>2, InsideOf
    <2> QED BY <2>1
  <1> QED BY <1>1, <1>20, <1>21 DEF Moved

\* A pending batch is sent: its window has expired, or the sender closes.
LEMMA FlushItems ==
  ASSUME ItemInv, UNCHANGED <<left, closing>>, NEW f \in Formats, pending[f] # << >>,
         pending' = [pending EXCEPT ![f] = << >>], Start(<<ToSet(pending[f])>>, TRUE)
  PROVE  ItemInv' /\ Inside' = Inside /\ Kept
  <1> DEFINE b == ToSet(pending[f])
             ps == <<b>>
  <1>1. /\ left \in [Clients -> Seq(Items)] /\ pending \in [Formats -> Seq(Items)]
        /\ Apart(requests, LeftOf, PendingOf)
        /\ \A d \in Clients : IsInjective(left[d])
        /\ \A g \in Formats : IsInjective(pending[g])
    BY DEF ItemInv, TypeInv, PlaceInv
  <1>2. b = PendingOf[f]
    BY DEF PendingOf
  <1>3. b \in SUBSET Items /\ b # {}
    <2> DEFINE s == pending[f]
    <2>1. s \in Seq(Items) /\ s # << >>
      BY <1>1
    <2>2. 1 \in DOMAIN s /\ \A k \in DOMAIN s : s[k] \in Items
      BY <2>1
    <2> QED BY <2>2 DEF ToSet
  <1>4. Start(ps, TRUE)
    OBVIOUS
  <1> HIDE DEF b
  <1>5. DOMAIN ps = {1} /\ ps[1] = b /\ ps \in Seq(SUBSET Items)
    BY <1>3
  <1> HIDE DEF ps
  <1>6. /\ pending' \in [Formats -> Seq(Items)] /\ \A g \in Formats : IsInjective(pending'[g])
        /\ PendingOf'[f] = {} /\ \A g \in Formats \ {f} : PendingOf'[g] = PendingOf[g]
    BY <1>1, EmptyBatch, PendingChange
  <1>7. LeftOf' = LeftOf /\ UNCHANGED closing
    BY DEF LeftOf
  <1>8. Apart(requests, LeftOf', PendingOf')
    <2>1. \A d \in Clients : LeftOf'[d] \subseteq LeftOf[d]
      BY <1>7
    <2>2. \A g \in Formats : PendingOf'[g] \subseteq PendingOf[g]
      BY <1>6
    <2> QED BY <1>1, <2>1, <2>2, ShrinkApart
  <1>9. /\ \A r \in requests : r.items \cap b = {}
        /\ \A d \in Clients : b \cap LeftOf[d] = {}
        /\ \A g \in Formats \ {f} : b \cap PendingOf[g] = {}
    BY <1>1, <1>2 DEF Apart
  <1>10. Payloads(ps, requests)
    BY <1>3, <1>5, <1>9 DEF Payloads
  <1>11. /\ \A k \in DOMAIN ps, d \in Clients : ps[k] \cap LeftOf'[d] = {}
         /\ \A k \in DOMAIN ps, g \in Formats : ps[k] \cap PendingOf'[g] = {}
    BY <1>5, <1>6, <1>7, <1>9
  <1>12. left' \in [Clients -> Seq(Items)] /\ \A d \in Clients : IsInjective(left'[d])
    BY <1>1
  <1>13. /\ ItemInv'
         /\ \A x : x \in Inside' <=> \/ \E r \in requests : x \in r.items
                                     \/ \E k \in DOMAIN ps : x \in ps[k]
                                     \/ \E d \in Clients : x \in LeftOf'[d]
                                     \/ \E g \in Formats : x \in PendingOf'[g]
         /\ Kept
    BY <1>4, <1>6, <1>7, <1>8, <1>10, <1>11, <1>12, StartStep DEF Kept
  <1>14. Inside' = Inside
    <2>1. ASSUME NEW x PROVE x \in Inside' <=> x \in Inside
      <3>1. (\E g \in Formats : x \in PendingOf[g]) <=>
            x \in b \/ \E g \in Formats : x \in PendingOf'[g]
        BY <1>2, <1>6
      <3>2. (\E k \in DOMAIN ps : x \in ps[k]) <=> x \in b
        BY <1>5
      <3> QED BY <1>7, <1>13, <3>1, <3>2, InsideOf
    <2> QED BY <2>1
  <1> QED BY <1>13, <1>14

\* Nothing moves.
LEMMA SameItems ==
  ASSUME ItemInv, UNCHANGED <<left, pending, requests, slots>>, closing => closing'
  PROVE  ItemInv' /\ Inside' = Inside /\ Kept
  <1>1. TypeInv' /\ PlaceInv'
    BY DEF ItemInv, TypeInv, PlaceInv, Apart, LeftOf, PendingOf
  <1>2. SlotInv'
    BY DEF ItemInv, SlotInv, StageInv
  <1>3. Inside' = Inside
    BY DEF Inside
  <1> QED BY <1>1, <1>2, <1>3 DEF ItemInv, Kept

\* A chunk has items, each of them once.
LEMMA ChunkFacts ==
  ASSUME NEW chunk \in Chunks
  PROVE  chunk \in Seq(Items) /\ IsInjective(chunk) /\ ToSet(chunk) \in (SUBSET Items) \ {{}}
  <1>1. CASE \E i \in Items : chunk = <<i>>
    <2>1. PICK i \in Items : chunk = <<i>>
      BY <1>1
    <2>2. chunk \in Seq(Items) /\ DOMAIN chunk = {1} /\ chunk[1] = i
      BY <2>1
    <2> QED BY <2>2 DEF IsInjective, ToSet
  <1>2. CASE chunk \in [1..2 -> Items] /\ chunk[1] # chunk[2]
    <2>1. chunk \in Seq(Items)
      BY <1>2, SeqDef
    <2>2. DOMAIN chunk = {1, 2} /\ chunk[1] \in Items /\ chunk[2] \in Items
      BY <1>2
    <2>3. IsInjective(chunk)
      BY <1>2, <2>2 DEF IsInjective
    <2>4. ToSet(chunk) = {chunk[1], chunk[2]}
      BY <2>2 DEF ToSet
    <2> QED BY <2>1, <2>2, <2>3, <2>4
  <1> QED BY <1>1, <1>2 DEF Chunks

\* A Send is granted: its chunk, which nobody has sent before, is in its hands.
LEMMA AcceptItems ==
  ASSUME SenderInv, ItemInv, NEW c \in Clients, NEW chunk \in Chunks, SendAccepted(c, chunk)
  PROVE  /\ ItemInv' /\ Inside' = Inside \cup ToSet(chunk) /\ Kept
         /\ UNCHANGED <<acked, rejected>>
  <1> DEFINE S == ToSet(chunk)
  <1>1. /\ client[c] = "idle" /\ S \cap Seen = {}
        /\ left' = [left EXCEPT ![c] = chunk]
        /\ UNCHANGED <<pending, requests, slots, closing, acked, rejected>>
    BY DEF SendAccepted, Granted
  <1>2. /\ left \in [Clients -> Seq(Items)] /\ pending \in [Formats -> Seq(Items)]
        /\ Apart(requests, LeftOf, PendingOf)
        /\ \A d \in Clients : IsInjective(left[d])
        /\ \A g \in Formats : IsInjective(pending[g])
    BY DEF ItemInv, TypeInv, PlaceInv
  <1>3. LeftOf[c] = {}
    <2>1. left[c] = << >>
      BY <1>1 DEF SenderInv, FlushInv
    <2> QED BY <2>1, EmptyBatch DEF LeftOf
  <1>4. /\ left' \in [Clients -> Seq(Items)] /\ \A d \in Clients : IsInjective(left'[d])
        /\ LeftOf'[c] = S /\ \A d \in Clients \ {c} : LeftOf'[d] = LeftOf[d]
    BY <1>1, <1>2, ChunkFacts, LeftChange
  <1>5. PendingOf' = PendingOf /\ requests' = requests
    BY <1>1 DEF PendingOf
  <1>6. \A x \in S : x \notin Inside
    BY <1>1 DEF Seen
  <1> HIDE DEF S
  <1>7. /\ \A r \in requests : r.items \cap S = {}
        /\ \A d \in Clients : LeftOf[d] \cap S = {}
        /\ \A g \in Formats : PendingOf[g] \cap S = {}
    BY <1>6, InsideOf
  <1>8. Apart(requests', LeftOf', PendingOf')
    <2>1. /\ \A r \in requests' : r.items # {}
          /\ \A r, q \in requests' : r # q => r.items \cap q.items = {}
          /\ \A r \in requests', g \in Formats : r.items \cap PendingOf'[g] = {}
          /\ \A h, g \in Formats : h # g => PendingOf'[h] \cap PendingOf'[g] = {}
      BY <1>2, <1>5 DEF Apart
    <2>2. \A r \in requests', d \in Clients : r.items \cap LeftOf'[d] = {}
      BY <1>2, <1>4, <1>5, <1>7 DEF Apart
    <2>3. \A b, d \in Clients : b # d => LeftOf'[b] \cap LeftOf'[d] = {}
      BY <1>2, <1>4, <1>7 DEF Apart
    <2>4. \A d \in Clients, g \in Formats : LeftOf'[d] \cap PendingOf'[g] = {}
      BY <1>2, <1>4, <1>5, <1>7 DEF Apart
    <2> QED BY <2>1, <2>2, <2>3, <2>4 DEF Apart
  <1>9. TypeInv' /\ PlaceInv'
    BY <1>1, <1>2, <1>4, <1>8 DEF ItemInv, TypeInv, PlaceInv
  <1>10. SlotInv'
    BY <1>1 DEF ItemInv, SlotInv, StageInv
  <1>11. Inside' = Inside \cup S
    <2>1. ASSUME NEW x PROVE x \in Inside' <=> x \in Inside \/ x \in S
      <3>1. (\E d \in Clients : x \in LeftOf'[d]) <=>
            x \in S \/ \E d \in Clients : x \in LeftOf[d]
        BY <1>3, <1>4
      <3> QED BY <1>5, <3>1, InsideOf
    <2> QED BY <2>1
  <1>12. Kept
    BY <1>1 DEF Kept
  <1> QED BY <1>1, <1>9, <1>10, <1>11, <1>12 DEF ItemInv, S

-----------------------------------------------------------------------------
(* Every step, as the clients see it, and where its requests come from.    *)

\* A request after a step is one from before, in the same or in its next stage,
\* or one with items that no request had.
Traced ==
  \A next \in requests' : \/ next \in requests
                          \/ \A r \in requests : r.items # next.items
                          \/ \E r \in requests : Follows(r, next)

HandoffStep == HandoffSpec!Next \/ UNCHANGED HandoffSpec!handoffVars

\* Requests that do not change stage are traced.
LEMMA KeptTraced == Kept => Traced
  BY DEF Kept, Traced

\* The phase follows from the two flags, because Drained comes after BeginClose.
LEMMA PhaseFacts ==
  ASSUME SenderInv
  PROVE  /\ drainer = "done" => Phase = "drained"
         /\ drainer # "done" /\ closing => Phase = "closing"
         /\ ~closing => Phase = "open"
         /\ closing => Phase # "open"
  <1>1. closing \in BOOLEAN /\ (drainer = "done" => closing)
    BY DEF SenderInv, ShapeInv, FlushInv
  <1> QED BY <1>1 DEF Phase

\* A step that moves nothing in or out and leaves the phase alone is not seen.
LEMMA MovedUnseen ==
  ASSUME Moved, Phase' = Phase
  PROVE  HandoffStep
  BY DEF Moved, HandoffStep, HandoffSpec!handoffVars

\* The end of a request resolves its items.
LEMMA ResolvedSeen ==
  ASSUME NEW S, Resolved(S), Phase' = Phase
  PROVE  HandoffStep
  <1>1. HandoffSpec!Resolve(S) /\ S \in (SUBSET Items) \ {{}}
    BY DEF Resolved, HandoffSpec!Resolve
  <1> QED BY <1>1 DEF HandoffStep, HandoffSpec!Next

\* Steps of Send.
LEMMA ClientItems ==
  ASSUME SenderInv, ItemInv, NEW c \in Clients, ClientNext(c)
  PROVE  ItemInv' /\ Traced /\ HandoffStep
  <1>1. ASSUME NEW chunk \in Chunks, SendRefused(c, chunk)
        PROVE  ItemInv' /\ Traced /\ HandoffStep
    <2> DEFINE S == ToSet(chunk)
    <2>1. /\ closing /\ S \cap Seen = {} /\ rejected' = rejected \cup S
          /\ UNCHANGED <<left, pending, requests, slots, closing, drainer, acked>>
      BY <1>1 DEF SendRefused, Refused, stateVars
    <2>2. ItemInv' /\ Inside' = Inside /\ Kept
      BY <2>1, SameItems
    <2>3. S \in (SUBSET Items) \ {{}}
      BY <1>1, ChunkFacts
    <2>4. Phase # "open" /\ Phase' = Phase
      BY <2>1, PhaseFacts DEF Phase
    <2>5. S \cap HandoffSpec!Seen = {}
      BY <2>1 DEF Seen, HandoffSpec!Seen
    <2> HIDE DEF S
    <2>6. HandoffSpec!Refuse(S)
      BY <2>1, <2>2, <2>4, <2>5 DEF HandoffSpec!Refuse
    <2> QED BY <2>2, <2>3, <2>6, KeptTraced DEF HandoffStep, HandoffSpec!Next
  <1>2. ASSUME NEW chunk \in Chunks, SendAccepted(c, chunk)
        PROVE  ItemInv' /\ Traced /\ HandoffStep
    <2> DEFINE S == ToSet(chunk)
    <2>1. ItemInv' /\ Inside' = Inside \cup S /\ Kept /\ UNCHANGED <<acked, rejected>>
      BY <1>2, AcceptItems
    <2>2. ~closing /\ S \cap Seen = {} /\ UNCHANGED <<closing, drainer>>
      BY <1>2 DEF SendAccepted, Granted
    <2>3. S \in (SUBSET Items) \ {{}}
      BY <1>2, ChunkFacts
    <2>4. Phase = "open" /\ Phase' = Phase
      BY <2>2, PhaseFacts DEF Phase
    <2>5. S \cap HandoffSpec!Seen = {}
      BY <2>2 DEF Seen, HandoffSpec!Seen
    <2> HIDE DEF S
    <2>6. HandoffSpec!Accept(S)
      BY <2>1, <2>4, <2>5 DEF HandoffSpec!Accept
    <2> QED BY <2>1, <2>3, <2>6, KeptTraced DEF HandoffStep, HandoffSpec!Next
  <1>3. CASE SendStructured(c)
    <2>1. Phase' = Phase
      BY <1>3 DEF SendStructured, stateVars, Phase
    <2> QED BY <1>3, <2>1, StructuredItems, MovedUnseen, KeptTraced
  <1>4. CASE SendDirect(c)
    <2>1. Phase' = Phase
      BY <1>4 DEF SendDirect, stateVars, Phase
    <2> QED BY <1>4, <2>1, DirectItems, MovedUnseen, KeptTraced
  <1>5. CASE SendReturns(c)
    <2>1. UNCHANGED <<left, pending, requests, slots, closing, drainer, acked, rejected>>
      BY <1>5 DEF SendReturns, RUnlock
    <2>2. ItemInv' /\ Inside' = Inside /\ Kept
      BY <2>1, SameItems
    <2>3. Moved /\ Phase' = Phase
      BY <2>1, <2>2 DEF Moved, Phase
    <2> QED BY <2>2, <2>3, MovedUnseen, KeptTraced
  <1> QED BY <1>1, <1>2, <1>3, <1>4, <1>5 DEF ClientNext

\* Steps of a window callback.
LEMMA WindowItems ==
  ASSUME ItemInv, NEW f \in Formats, NEW i \in Items,
         WindowExpires(f, i) \/ TimedFlush(f, i)
  PROVE  ItemInv' /\ Traced /\ HandoffStep
  <1>1. UNCHANGED <<left, closing, drainer, acked, rejected>>
    BY DEF WindowExpires, TimedFlush, Granted, RUnlock
  <1>2. Phase' = Phase
    BY <1>1 DEF Phase
  <1>3. CASE UNCHANGED <<pending, requests, slots>>
    <2>1. ItemInv' /\ Inside' = Inside /\ Kept
      BY <1>1, <1>3, SameItems
    <2> QED BY <1>1, <1>2, <2>1, MovedUnseen, KeptTraced DEF Moved
  <1>4. CASE /\ pending[f] # << >> /\ pending' = [pending EXCEPT ![f] = << >>]
             /\ Start(<<ToSet(pending[f])>>, TRUE)
    <2>1. UNCHANGED <<left, closing>>
      BY <1>1
    <2>2. ItemInv' /\ Inside' = Inside /\ Kept
      BY <1>4, <2>1, FlushItems
    <2> QED BY <1>1, <1>2, <2>2, MovedUnseen, KeptTraced DEF Moved
  <1>5. CASE WindowExpires(f, i)
    BY <1>3, <1>5 DEF WindowExpires
  <1>6. CASE TimedFlush(f, i)
    BY <1>3, <1>4, <1>6 DEF TimedFlush
  <1> QED BY <1>5, <1>6

\* Steps of Close and of its goroutine.
LEMMA CloseItems ==
  ASSUME SenderInv, SenderInv', ItemInv, CloseNext
  PROVE  ItemInv' /\ Traced /\ HandoffStep
  <1>1. ASSUME UNCHANGED <<left, pending, requests, slots, closing, drainer, acked, rejected>>
        PROVE  ItemInv' /\ Traced /\ HandoffStep
    <2>1. ItemInv' /\ Inside' = Inside /\ Kept
      BY <1>1, SameItems
    <2>2. Moved /\ Phase' = Phase
      BY <1>1, <2>1 DEF Moved, Phase
    <2> QED BY <2>1, <2>2, MovedUnseen, KeptTraced
  <1>2. CASE CloseCalled \/ GraceEnds \/ CloseReturns
    <2>1. UNCHANGED <<left, pending, requests, slots, closing, drainer, acked, rejected>>
      BY <1>2 DEF CloseCalled, AwaitCloseLock, GraceEnds, FinishClose, CloseReturns, senderVars
    <2> QED BY <1>1, <2>1
  <1>3. CASE CloseBegins
    <2>1. /\ closing' /\ drainer' = "flush" /\ closer = "locking"
          /\ UNCHANGED <<left, pending, requests, slots, acked, rejected>>
      BY <1>3 DEF CloseBegins, BeginClose
    <2>2. ItemInv' /\ Inside' = Inside /\ Kept
      BY <2>1, SameItems
    <2>3. ~closing
      BY <2>1 DEF SenderInv, FlushInv
    <2>4. Phase = "open" /\ Phase' = "closing"
      <3>1. Phase = "open"
        BY <2>3, PhaseFacts
      <3>2. drainer' # "done" /\ closing'
        BY <2>1
      <3> QED BY <3>1, <3>2 DEF Phase
    <2>5. HandoffSpec!BeginClose
      BY <2>1, <2>2, <2>4 DEF HandoffSpec!BeginClose
    <2> QED BY <2>2, <2>5, KeptTraced DEF HandoffStep, HandoffSpec!Next
  <1>4. ASSUME NEW f \in Formats, FlushOne(f)
        PROVE  ItemInv' /\ Traced /\ HandoffStep
    <2>1. UNCHANGED <<left, closing, drainer, acked, rejected>>
      BY <1>4 DEF FlushOne, stateVars
    <2>2. Phase' = Phase
      BY <2>1 DEF Phase
    <2>3. CASE pending[f] = << >>
      <3>1. UNCHANGED <<requests, slots>> /\ pending' = [pending EXCEPT ![f] = << >>]
        BY <1>4, <2>3 DEF FlushOne
      <3>2. pending \in [Formats -> Seq(Items)]
        BY DEF ItemInv, TypeInv
      <3>3. pending' = pending
        BY <2>3, <3>1, <3>2
      <3> QED BY <1>1, <2>1, <3>1, <3>3
    <2>4. CASE pending[f] # << >>
      <3>1. /\ pending' = [pending EXCEPT ![f] = << >>]
            /\ Start(<<ToSet(pending[f])>>, TRUE)
        BY <1>4, <2>4 DEF FlushOne
      <3>2. UNCHANGED <<left, closing>>
        BY <2>1
      <3>3. ItemInv' /\ Inside' = Inside /\ Kept
        BY <2>4, <3>1, <3>2, FlushItems
      <3> QED BY <2>1, <2>2, <3>3, MovedUnseen, KeptTraced DEF Moved
    <2> QED BY <2>3, <2>4
  <1>5. CASE FlushedAll
    <2>1. /\ drainer = "flush" /\ drainer' = "wait"
          /\ UNCHANGED <<left, pending, requests, slots, closing, acked, rejected>>
      BY <1>5 DEF FlushedAll, stateVars
    <2>2. ItemInv' /\ Inside' = Inside /\ Kept
      BY <2>1, SameItems
    <2>3. Phase' = Phase
      BY <2>1 DEF Phase
    <2> QED BY <2>1, <2>2, <2>3, MovedUnseen, KeptTraced DEF Moved
  <1>6. CASE Drained
    <2>1. /\ drainer = "wait" /\ drainer' = "done" /\ requests = {}
          /\ UNCHANGED <<left, pending, requests, slots, closing, acked, rejected>>
      BY <1>6 DEF Drained, stateVars
    <2>2. ItemInv' /\ Inside' = Inside /\ Kept
      BY <2>1, SameItems
    <2>3. closing /\ readers = {} /\ toFlush = {}
      BY <2>1 DEF SenderInv, LockInv, FlushInv
    <2>4. Inside = {}
      <3>1. \A c \in Clients : left[c] = << >>
        BY <2>3 DEF SenderInv, LockInv, FlushInv
      <3>2. \A f \in Formats : pending[f] = << >>
        BY <2>1, <2>3 DEF SenderInv, FlushInv
      <3>3. /\ \A c \in Clients : LeftOf[c] = {}
            /\ \A f \in Formats : PendingOf[f] = {}
        BY <3>1, <3>2, EmptyBatch DEF LeftOf, PendingOf
      <3> QED BY <2>1, <3>3, InsideOf
    <2>5. Phase = "closing" /\ Phase' = "drained"
      <3>1. Phase = "closing"
        BY <2>1, <2>3, PhaseFacts
      <3>2. closing' /\ drainer' = "done"
        BY <2>1, <2>3
      <3> QED BY <3>1, <3>2 DEF Phase
    <2>6. HandoffSpec!Drained
      BY <2>1, <2>2, <2>4, <2>5 DEF HandoffSpec!Drained
    <2> QED BY <2>2, <2>6, KeptTraced DEF HandoffStep, HandoffSpec!Next
  <1> QED BY <1>2, <1>3, <1>4, <1>5, <1>6 DEF CloseNext

\* A new sender holds no item and no slot.
LEMMA InitItems == Init => ItemInv /\ Inside = {}
  <1> SUFFICES ASSUME Init PROVE ItemInv /\ Inside = {}
    OBVIOUS
  <1>1. /\ left = [c \in Clients |-> << >>] /\ pending = [f \in Formats |-> << >>]
        /\ requests = {} /\ slots = 0
    BY DEF Init
  <1>2. /\ \A c \in Clients : left[c] = << >> /\ LeftOf[c] = {}
        /\ \A f \in Formats : pending[f] = << >> /\ PendingOf[f] = {}
    BY <1>1, EmptyBatch DEF LeftOf, PendingOf
  <1>3. TypeInv
    BY <1>1, EmptyBatch, FS_EmptySet DEF TypeInv
  <1>4. PlaceInv
    BY <1>1, <1>2, EmptyBatch DEF PlaceInv, Apart
  <1>5. SlotInv
    <2>1. {r \in requests : r.slot} = {}
      BY <1>1
    <2>2. slots = Cardinality({r \in requests : r.slot})
      BY <1>1, <2>1, FS_EmptySet
    <2>3. slots <= Slots
      BY <1>1, SenderAssumption DEF SenderAssumption
    <2> QED BY <1>1, <2>2, <2>3 DEF SlotInv, StageInv
  <1>6. Inside = {}
    BY <1>1, <1>2, InsideOf
  <1> QED BY <1>3, <1>4, <1>5, <1>6 DEF ItemInv

\* Every step of the sender.
LEMMA ItemStep ==
  ASSUME SenderInv, SenderInv', ItemInv, [Next]_vars
  PROVE  ItemInv' /\ Traced /\ HandoffStep
  <1>1. CASE UNCHANGED vars
    <2>1. UNCHANGED <<left, pending, requests, slots, closing, drainer, acked, rejected>>
      BY <1>1 DEF vars, stateVars, senderVars
    <2>2. ItemInv' /\ Inside' = Inside /\ Kept
      BY <2>1, SameItems
    <2>3. Moved /\ Phase' = Phase
      BY <2>1, <2>2 DEF Moved, Phase
    <2> QED BY <2>2, <2>3, MovedUnseen, KeptTraced
  <1>2. ASSUME NEW r \in requests, RequestNext(r)
        PROVE  ItemInv' /\ Traced /\ HandoffStep
    <2>1. /\ ItemInv' /\ (Moved \/ Resolved(r.items))
          /\ \A next \in requests' : next \in requests \/ Follows(r, next)
      BY <1>2, RequestItems
    <2>2. UNCHANGED <<closing, drainer>>
      BY <1>2, RequestTouches DEF untouched, stateVars
    <2>3. Phase' = Phase
      BY <2>2 DEF Phase
    <2>4. Traced
      BY <2>1 DEF Traced
    <2> QED BY <2>1, <2>3, <2>4, MovedUnseen, ResolvedSeen
  <1> QED BY <1>1, <1>2, ClientItems, WindowItems, CloseItems DEF Next

\* An item that a Send was granted is in one place, and the slots are the requests
\* that have one, in every state of the sender.
THEOREM ItemInvariance == Spec => []ItemInv
  <1>1. Init => ItemInv
    BY InitItems
  <1>2. SenderInv /\ SenderInv' /\ ItemInv /\ [Next]_vars => ItemInv'
    BY ItemStep
  <1> QED BY <1>1, <1>2, Invariance, PTL DEF Spec

\* However requests are started, wait, retry, fail and are aborted, the slots
\* that are taken are those of the requests in progress, never more than
\* configured, and no request is encoded or sent without one.
THEOREM SlotsAreAccounted == Spec => []SlotsAccounted
  <1>1. ItemInv => SlotsAccounted
    BY DEF ItemInv, SlotInv, StageInv, SlotsAccounted
  <1> QED BY <1>1, ItemInvariance, PTL

\* Once the sender closes, no request that is waiting for a slot is sent.
THEOREM WaitersAreNotSent == Spec => WaitersNotSentOnceClosing
  <1>1. SenderInv /\ SenderInv' /\ ItemInv /\ [Next]_vars =>
          [\A r \in requests, next \in requests' :
             closing /\ r.items = next.items /\ r.stage \in {"wait", "recheck"}
               => next.stage \in {"wait", "recheck"}]_vars
    <2> SUFFICES ASSUME SenderInv, SenderInv', ItemInv, [Next]_vars,
                        NEW r \in requests, NEW next \in requests', closing,
                        r.items = next.items, r.stage \in {"wait", "recheck"}
                 PROVE  next.stage \in {"wait", "recheck"}
      OBVIOUS
    <2>1. Traced
      BY ItemStep
    <2>2. \A q \in requests : q.items = r.items => q = r
      BY DEF ItemInv, PlaceInv, Apart
    <2>3. CASE next \in requests
      BY <2>2, <2>3
    <2>4. CASE \E q \in requests : Follows(q, next)
      BY <2>2, <2>4 DEF Follows
    <2> QED BY <2>1, <2>3, <2>4 DEF Traced
  <1> QED BY <1>1, Invariance, ItemInvariance, PTL DEF Spec, WaitersNotSentOnceClosing

\* The sender keeps the promise it makes to collectors and receivers: every item
\* that it accepts is resolved at most once, as delivered or as handed to the
\* fallback, none is lost on the way, nothing is accepted once it closes, and it
\* has drained only when nothing is left.
THEOREM SenderImplementsHandoff == Spec => ImplementsHandoff
  <1>1. Init => HandoffSpec!Init
    <2> SUFFICES ASSUME Init PROVE HandoffSpec!Init
      OBVIOUS
    <2>1. Inside = {}
      BY InitItems
    <2>2. Phase = "open"
      BY InitInv, PhaseFacts DEF Init, StateInit
    <2> QED BY <2>1, <2>2 DEF Init, HandoffSpec!Init
  <1>2. SenderInv /\ SenderInv' /\ ItemInv /\ [Next]_vars
          => [HandoffSpec!Next]_(HandoffSpec!handoffVars)
    BY ItemStep DEF HandoffStep
  <1> QED BY <1>1, <1>2, Invariance, ItemInvariance, PTL
    DEF Spec, ImplementsHandoff, HandoffSpec!Spec
=============================================================================
