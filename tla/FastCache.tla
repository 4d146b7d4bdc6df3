----------------------------- MODULE FastCache -----------------------------
(***************************************************************************)
(* FastCache (src/pkg/cache/syncmap.go), a wrapper of sync.Map: one step   *)
(* for each atomic operation of the map and for each reading of the clock. *)
(***************************************************************************)
EXTENDS Cache

\* Set and Add read the clock first; Replace does so when it has the old item.
FastCallBegins(c) ==
  \E k \in Keys, v \in Values, options \in Options :
    \/ \E op \in {"set", "add"} : Call(c, op, k, NewItem(v, options), <<>>)
    \/ Call(c, "replace", k, [value |-> v, expiration |-> 0], options)
    \/ \E op \in {"item", "delete"} : Call(c, op, k, Absent, <<>>)

CompareAndSwap(k, old, new) == data[k] = old /\ Store(k, new)

CompareAndDelete(k, old) ==
  data' = IF data[k] = old THEN [data EXCEPT ![k] = Absent] ELSE data

FastSet(c) ==
  /\ At(c, "set")
  /\ Store(call[c].key, call[c].new)
  /\ Return(c, {})
  /\ CallStep

-----------------------------------------------------------------------------
(* The loop of Add.                                                        *)

LoadOrStore(c) ==
  /\ At(c, "add")
  /\ IF data[call[c].key] = Absent
     THEN Store(call[c].key, call[c].new) /\ Return(c, {})
     ELSE GotoWith(c, "addCheck") /\ UNCHANGED data
  /\ CallStep

\* Mutant: Add returns an item that is there, expired or not.
AddChecksNothing(c) ==
  /\ At(c, "addCheck")
  /\ Return(c, {call[c].actual.value})
  /\ UNCHANGED data
  /\ CallStep

AddChecks(c) ==
  /\ At(c, "addCheck")
  /\ IF Expired(call[c].actual) THEN GoOn(c, "addSwap") ELSE Return(c, {call[c].actual.value})
  /\ UNCHANGED data
  /\ CallStep

AddSwaps(c) ==
  /\ At(c, "addSwap")
  /\ \/ CompareAndSwap(call[c].key, call[c].actual, call[c].new) /\ Return(c, {})
     \/ data[call[c].key] # call[c].actual /\ GoOn(c, "add") /\ UNCHANGED data
  /\ CallStep

-----------------------------------------------------------------------------
(* The loop of Replace.                                                    *)

ReplaceLoads(c) ==
  /\ At(c, "replace")
  /\ IF data[call[c].key] = Absent THEN Return(c, {NoValue}) ELSE GotoWith(c, "replaceCheck")
  /\ UNCHANGED data
  /\ CallStep

\* The new item expires at another time.
Expires(c, time, step) ==
  /\ call' = [call EXCEPT ![c].step = step, ![c].new.expiration = time]
  /\ answer' = NoAnswer

\* The new item keeps the expiration of the old one, unless there is an option.
ReplaceChecks(c) ==
  /\ At(c, "replaceCheck")
  /\ IF Expired(call[c].actual) THEN GoOn(c, "replaceDelete")
     ELSE Expires(c, call[c].actual.expiration,
                  IF call[c].options = <<>> THEN "replaceSwap" ELSE "replaceExpire")
  /\ UNCHANGED data
  /\ CallStep

ReplaceExpires(c) ==
  /\ At(c, "replaceExpire")
  /\ Expires(c, durationOptionToTime(call[c].options), "replaceSwap")
  /\ UNCHANGED data
  /\ CallStep

ReplaceDeletes(c) ==
  /\ At(c, "replaceDelete")
  /\ CompareAndDelete(call[c].key, call[c].actual)
  /\ Return(c, {NoValue})
  /\ CallStep

ReplaceSwaps(c) ==
  /\ At(c, "replaceSwap")
  /\ \/ /\ CompareAndSwap(call[c].key, call[c].actual, call[c].new)
        /\ Return(c, {call[c].actual.value})
     \/ data[call[c].key] # call[c].actual /\ GoOn(c, "replace") /\ UNCHANGED data
  /\ CallStep

-----------------------------------------------------------------------------
(* Item and Delete.                                                        *)

ItemLoads(c) ==
  /\ At(c, "item")
  /\ IF data[call[c].key] = Absent THEN Return(c, {NoValue}) ELSE GotoWith(c, "itemCheck")
  /\ UNCHANGED data
  /\ CallStep

ItemChecks(c) ==
  /\ At(c, "itemCheck")
  /\ IF Expired(call[c].actual) THEN GoOn(c, "itemDelete") ELSE Return(c, {call[c].actual.value})
  /\ UNCHANGED data
  /\ CallStep

\* Mutant: the item is deleted even if it was replaced since.
ItemDeletesAny(c) ==
  /\ At(c, "itemDelete")
  /\ Store(call[c].key, Absent)
  /\ Return(c, {NoValue})
  /\ CallStep

ItemDeletes(c) ==
  /\ At(c, "itemDelete")
  /\ CompareAndDelete(call[c].key, call[c].actual)
  /\ Return(c, {NoValue})
  /\ CallStep

\* LoadAndDelete, then the item's expiration decides about the result.
FastDelete(c) ==
  /\ At(c, "delete")
  /\ Store(call[c].key, Absent)
  /\ IF data[call[c].key] = Absent THEN Return(c, {NoValue}) ELSE GotoWith(c, "deleteCheck")
  /\ CallStep

DeleteChecks(c) ==
  /\ At(c, "deleteCheck")
  /\ Return(c, {IF Expired(call[c].actual) THEN NoValue ELSE call[c].actual.value})
  /\ UNCHANGED data
  /\ CallStep

-----------------------------------------------------------------------------
(* fastCleanup: Range loads the keys one by one, in any order.             *)

RangeLoads(k) ==
  /\ worker.step = "range" /\ k \in worker.left
  /\ worker' = IF data[k] # Absent /\ After(worker.time, data[k])
               THEN [worker EXCEPT !.step = "delete", !.key = {k}, !.actual = data[k]]
               ELSE [worker EXCEPT !.left = @ \ {k}]
  /\ UNCHANGED data
  /\ WorkerStep

RangeDeletes(k) ==
  /\ worker.step = "delete" /\ k \in worker.key
  /\ CompareAndDelete(k, worker.actual)
  /\ worker' = [worker EXCEPT !.step = "range", !.left = @ \ {k}, !.key = {}, !.actual = Absent]
  /\ WorkerStep

RangeEnds ==
  /\ worker.step = "range" /\ worker.left = {}
  /\ worker' = Waiting
  /\ UNCHANGED data
  /\ WorkerStep

-----------------------------------------------------------------------------
FastCall(c) ==
  \/ FastCallBegins(c) \/ FastSet(c) \/ FastDelete(c) \/ DeleteChecks(c)
  \/ LoadOrStore(c) \/ AddChecks(c) \/ AddSwaps(c)
  \/ ReplaceLoads(c) \/ ReplaceChecks(c) \/ ReplaceDeletes(c)
  \/ ReplaceExpires(c) \/ ReplaceSwaps(c)
  \/ ItemLoads(c) \/ ItemChecks(c) \/ ItemDeletes(c)

fastCleanup ==
  \/ TickerFires("range")
  \/ \E k \in Keys : RangeLoads(k) \/ RangeDeletes(k)
  \/ RangeEnds
  \/ WorkerStops

FastNext == Tick \/ Clear \/ (\E c \in Callers : FastCall(c)) \/ fastCleanup
=============================================================================
