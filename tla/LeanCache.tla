----------------------------- MODULE LeanCache -----------------------------
(***************************************************************************)
(* LeanCache (src/pkg/cache/mutexmap.go), a map with a read-write lock:    *)
(* one step for each critical section, with one reading of the clock.      *)
(***************************************************************************)
EXTENDS Cache

LeanCallBegins(c) ==
  \E k \in Keys, v \in Values, options \in Options :
    \/ \E op \in {"set", "add", "replace"} :
         Call(c, op, k, [value |-> v, expiration |-> 0], options)
    \/ \E op \in {"item", "delete"} : Call(c, op, k, Absent, <<>>)

LeanSet(c) ==
  /\ At(c, "set")
  /\ Store(call[c].key, NewItem(call[c].new.value, call[c].options))
  /\ Return(c, {})
  /\ CallStep

LeanAdd(c) ==
  LET k == call[c].key
  IN  /\ At(c, "add")
      /\ \/ Live(k) /\ Return(c, {data[k].value}) /\ UNCHANGED data
         \/ ~Live(k) /\ Return(c, {}) /\ Store(k, NewItem(call[c].new.value, call[c].options))
      /\ CallStep

\* The item keeps its expiration, unless there is an option.
LeanReplace(c) ==
  LET k == call[c].key
      new == NewItem(call[c].new.value, call[c].options)
      item == IF call[c].options = <<>> THEN [data[k] EXCEPT !.value = new.value] ELSE new
  IN  /\ At(c, "replace")
      /\ \/ Live(k) /\ Store(k, item) /\ Return(c, {data[k].value})
         \/ ~Live(k) /\ Store(k, Absent) /\ Return(c, {NoValue})
      /\ CallStep

LeanDelete(c) ==
  /\ At(c, "delete")
  /\ Store(call[c].key, Absent)
  /\ Return(c, {Found(call[c].key)})
  /\ CallStep

-----------------------------------------------------------------------------
(* Item reads under a read lock, checks without a lock, and deletes under  *)
(* the lock.                                                               *)

LeanItemLoads(c) ==
  /\ At(c, "item")
  /\ IF data[call[c].key] = Absent THEN Return(c, {NoValue}) ELSE GotoWith(c, "itemCheck")
  /\ UNCHANGED data
  /\ CallStep

LeanItemChecks(c) ==
  /\ At(c, "itemCheck")
  /\ IF Expired(call[c].actual) THEN GoOn(c, "itemDelete") ELSE Return(c, {call[c].actual.value})
  /\ UNCHANGED data
  /\ CallStep

\* Mutant: the item is not deleted if it was updated, but not returned either.
LeanItemMisses(c) ==
  /\ At(c, "itemDelete")
  /\ IF Live(call[c].key) THEN UNCHANGED data ELSE Store(call[c].key, Absent)
  /\ Return(c, {NoValue})
  /\ CallStep

\* Another goroutine might have updated or deleted it in the meantime.
LeanItemDeletes(c) ==
  /\ At(c, "itemDelete")
  /\ IF Live(call[c].key) THEN UNCHANGED data ELSE Store(call[c].key, Absent)
  /\ Return(c, {Found(call[c].key)})
  /\ CallStep

-----------------------------------------------------------------------------
(* leanCleanup: a scan under the read lock, then deletions in batches of   *)
(* any size.                                                               *)

Scan ==
  LET expired == {k \in Keys : data[k] # Absent /\ After(worker.time, data[k])}
  IN  /\ worker.step = "scan"
      /\ worker' = IF expired = {} THEN Waiting
                   ELSE [worker EXCEPT !.step = "batch", !.left = expired]
      /\ UNCHANGED data
      /\ WorkerStep

\* What is left of the expired keys after this batch.
BatchDone(batch) ==
  worker' = IF batch = worker.left THEN Waiting ELSE [worker EXCEPT !.left = @ \ batch]

\* The items are looked at again, with the time of the tick.
DeleteBatch ==
  /\ worker.step = "batch"
  /\ \E batch \in (SUBSET worker.left) \ {{}} :
       /\ data' = [k \in Keys |-> IF k \in batch /\ After(worker.time, data[k])
                                  THEN Absent ELSE data[k]]
       /\ BatchDone(batch)
  /\ WorkerStep

\* StopCleanupWorker was called: the worker looks before each batch.
BatchStops ==
  /\ worker.step = "batch"
  /\ worker' = [step |-> "over"]
  /\ UNCHANGED data
  /\ WorkerStep

-----------------------------------------------------------------------------
LeanCall(c) ==
  \/ LeanCallBegins(c)
  \/ LeanSet(c) \/ LeanAdd(c) \/ LeanReplace(c) \/ LeanDelete(c)
  \/ LeanItemLoads(c) \/ LeanItemChecks(c) \/ LeanItemDeletes(c)

leanCleanup == TickerFires("scan") \/ Scan \/ DeleteBatch \/ BatchStops \/ WorkerStops

LeanNext == Tick \/ Clear \/ (\E c \in Callers : LeanCall(c)) \/ leanCleanup
=============================================================================
