------------------------------- MODULE Cache -------------------------------
(***************************************************************************)
(* What both caches of src/pkg/cache share (cache.go): items that expire,  *)
(* callers on any number of goroutines, and a worker that removes expired  *)
(* items now and then.  The modules FastCache and LeanCache extend this    *)
(* one with the steps of their operations.  Get is Item; Keys, Items,      *)
(* ItemCount and Len, which change nothing, are left out, and so is the    *)
(* garbage collection of a cache.                                          *)
(***************************************************************************)
EXTENDS Integers, Sequences

CONSTANTS
  Callers,        \* goroutines that use the cache
  Keys, Values,
  NoValue,        \* the zero value, of a key that is missing
  TTLs,           \* durations that a caller may ask for
  DefaultTTL,     \* base.expiration
  MaxTime         \* bound: the clock

ASSUME CacheAssumption ==
  /\ NoValue \notin Values
  /\ TTLs \subseteq Int /\ DefaultTTL \in Int
  /\ MaxTime \in Nat

VARIABLES
  now,            \* the clock
  data,           \* the item of each key
  call,           \* the call that each caller is in
  answer,         \* what it returned in the last step, if it did
  seen,           \* the values that its key had since it began
  worker          \* the cleanup goroutine

cacheVars == <<now, data, call, answer, seen, worker>>

\* The variadic parameter of Set, Add and Replace, with at most one duration.
Options == {<<>>} \cup {<<ttl>> : ttl \in TTLs}

\* No item.  An expiration of 0 stands for the zero time.
Absent == [value |-> NoValue, expiration |-> 0]

After(time, item) == item.expiration # 0 /\ time > item.expiration
Expired(item) == After(now, item)

\* Any duration that is not positive means that the item never expires.
durationOptionToTime(options) ==
  LET ttl == IF options = <<>> THEN DefaultTTL ELSE Head(options)
  IN  IF ttl > 0 THEN now + ttl ELSE 0

NewItem(v, options) == [value |-> v, expiration |-> durationOptionToTime(options)]

\* What a caller that looks at this moment finds.
Live(k) == data[k] # Absent /\ ~Expired(data[k])
Found(k) == IF Live(k) THEN data[k].value ELSE NoValue

Idle == [step |-> "idle"]

\* The worker waits for its ticker.
Waiting == [step |-> "wait"]

CacheInit ==
  /\ now = 0
  /\ data = [k \in Keys |-> Absent]
  /\ call = [c \in Callers |-> Idle]
  /\ answer = [c \in Callers |-> {}]
  /\ seen = [c \in Callers |-> {}]
  /\ worker = Waiting

-----------------------------------------------------------------------------
(* The steps that both caches have.                                        *)

NoAnswer == [c \in Callers |-> {}]

\* A caller calls an operation; new and options are the parameters.
Call(c, op, k, new, options) ==
  /\ call[c] = Idle
  /\ call' = [call EXCEPT ![c] = [step |-> op, key |-> k, new |-> new, options |-> options,
                                  actual |-> Absent]]
  /\ seen' = [seen EXCEPT ![c] = {Found(k)}]
  /\ answer' = NoAnswer
  /\ UNCHANGED <<now, data, worker>>

\* Every call in progress sees what a step changed, up to its return.
Watch ==
  seen' = [c \in Callers |-> IF call[c] = Idle THEN {}
                             ELSE seen[c] \cup {Found(k)' : k \in {call[c].key}}]

\* A step of a call, and a step of the worker, change nothing else.
CallStep == UNCHANGED <<now, worker>> /\ Watch
WorkerStep == answer' = NoAnswer /\ UNCHANGED <<now, call>> /\ Watch

\* The call of c is at this step.
At(c, step) == call[c].step = step

GoOn(c, step) == call' = [call EXCEPT ![c].step = step] /\ answer' = NoAnswer

\* The call goes on with the item that the map holds.
GotoWith(c, step) ==
  /\ call' = [call EXCEPT ![c].step = step, ![c].actual = data[call[c].key]]
  /\ answer' = NoAnswer

Return(c, result) ==
  /\ call' = [call EXCEPT ![c] = Idle]
  /\ answer' = [NoAnswer EXCEPT ![c] = result]

Store(k, item) == data' = [data EXCEPT ![k] = item]

Clear ==
  /\ data' = [k \in Keys |-> Absent]
  /\ answer' = NoAnswer
  /\ UNCHANGED <<now, call, worker>>
  /\ Watch

Tick ==
  /\ now < MaxTime
  /\ now' = now + 1
  /\ answer' = NoAnswer
  /\ UNCHANGED <<data, call, worker>>
  /\ Watch

\* The worker's ticker fires; its time is old when the worker uses it.
TickerFires(first) ==
  /\ worker = Waiting
  /\ worker' = [step |-> first, time |-> now, left |-> Keys, key |-> {}, actual |-> Absent]
  /\ UNCHANGED data
  /\ WorkerStep

\* StopCleanupWorker was called, and the worker notices.
WorkerStops ==
  /\ worker = Waiting
  /\ worker' = [step |-> "over"]
  /\ UNCHANGED data
  /\ WorkerStep

-----------------------------------------------------------------------------
(* Properties.                                                             *)

\* Get, Add and Replace never claim that they found something else than a value
\* that the key had, unexpired, at some moment of the call.
FoundHeld ==
  \A c \in Callers : answer[c] \subseteq seen[c] \cup {NoValue}

\* They never claim that a key is missing, or expired, if it had an unexpired item
\* all the time: "a boolean indicating whether it was found and is unexpired".
MissesHeld ==
  \A c \in Callers : NoValue \in answer[c] => NoValue \in seen[c]

\* An item that has not expired is only changed by Set, Replace, Delete or Clear:
\* neither by an Add, nor by the removal of expired items that Item, Replace and the
\* worker do after they looked at it.
OnlyWritersChangeLive ==
  [][\A k \in Keys :
       Live(k) /\ data'[k] # data[k] =>
         \/ Clear
         \/ \E c \in Callers : /\ call[c] # Idle /\ call[c].key = k
                               /\ call[c].step \in {"set", "replace", "replaceSwap", "delete"}
                               /\ call'[c] # call[c]]_cacheVars
=============================================================================
