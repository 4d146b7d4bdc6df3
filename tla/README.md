# A formal model of versipellis

versipellis moves data: *collectors* fetch it (HTTP, SQL) on cron schedules and *receivers* accept it
(HTTP), both pass it to *senders* (HTTP, stdout, discard), and what cannot be delivered ends in the
*dead-letter queue* (DLQ).  Everything is asynchronous: `Send` returns at once, goroutines in
`State.InProgress` do the work, timers cut batches, and on an interrupt `main.shutdown` closes the
parts in order while data is still on its way.  What is hard to get right, and what this project
models, is that concurrency: no item may be lost, duplicated or left behind in a batcher, the limits
have to hold under it, and the shutdown has to end.

Paths are those of the repository (`src/` is its root here).

## Inventory

| Component | State | Operations | Interacts with | What makes it correct |
|---|---|---|---|---|
| `config.State` | `CloseMu`, `CloseOnce`, `InProgress`, `Closing`, `Closed`, two contexts | `Start`, `BeginClose`, `StopStragglers`, `FinishClose`, `IfClosingElseLock`, `IfNotClosing` | part of every other one | nothing is registered after `Close` began to wait |
| `flow.Batcher` | pending batch and its bytes, timer, generation | `AddItem`, `AddChunk`, `Flush`, timer callbacks | owner's guard, dispatch function | every item in one batch, limits, a batch always has a live timer |
| HTTP sender | batchers per format, slots, requests in progress | `Send`, retries, `Close` | batchers (guard), server, fallback (DLQ) | every item delivered or handed to the fallback; `Close` drains, and ends |
| Dead-letter queue | files, `totalSize`, `newFiles`, latch | `Send`, write attempts, `measureSizeLoop`, `Close` | file system, senders | the size is exact and bounded; writes end; the root is closed last |
| SQL collector | schedule, semaphore, queries, one shared batcher | `scheduleNext`, `executeQuery`, timed dispatch, `Close` | database, batcher (guard), sender, `main` through `Done` | `Done` means that all rows were handed over; shutdown ends |
| HTTP collector | schedule, semaphore, requests | `scheduleNext`, `requestWithRetries`, `Close` | server, sender, `main` through `Done` | like the SQL collector |
| HTTP receiver | server, requests in progress | `Start`, `ServeHTTP`, `Close` | clients, sender, `main` | a client can rely on its status; nothing is passed on after `Close` |
| `cmd/versi` | the lists of parts | parallel start of collectors, start of receivers, `waitForInterrupt`, `shutdown` | all | parts close in order, also after a failed start; only late work is lost; the process exits |
| Caches | entries with expirations | `Get`, `Set`, `Add`, `Replace`, ... | callers, clock | both implement a map with expirations |
| Cron | parsed fields | `Parse`, `Next` | schedulers, package `time` | the earliest match after the given time, on a wall clock |
| Retry policies | parsed policy | `parseRetries`, `waitBeforeRetry` | HTTP sender and collector | waits double up to the maximum, and stay within their bounds |
| Stdout, discard | `lameDuck`, mutex | `Send`, `Close` | a pipe that may stall | nothing is printed after `Close` |
| Codecs, configuration, redaction, TLS, authentication | none at run time | encoding, parsing | | out of scope: sequential processing of strings |

What is hard here, by kind: interleavings of callers, timer callbacks and `Close`; values checked before
a lock and used after it; two ready cases of a `select`; writes against the walk that measures them;
timeouts against late answers; several steps of which one fails; waiting that must end.  The list with
the lines is `hazards` in `PROJECT.json`.

## Modules

| Module | Models | Used by |
|---|---|---|
| `State` | `pkg/config/state.go` | extended by `Sender`, `DeadLetterQueue`, `Receiver`, `Scheduler` |
| `BatchStream` | what a batcher promises (abstract) | `Batcher` |
| `Batcher` | `pkg/flow/batcher.go` | `MCBatcher`, `BatcherProofs` |
| `Handoff` | what a sender promises (abstract) | `Sender`, `Assembly` |
| `Source` | what a collector or a receiver promises to `main` (abstract) | `HTTPCollector`, `Receiver`, `Assembly` |
| `Sender` | `pkg/http/sender.go`, `client.go`, `retries.go` | `MCSender`, `SenderProofs` |
| `DeadLetterQueue` | `pkg/dest/dlq.go`, `dlq_size.go` | `MCDeadLetterQueue`, `DeadLetterQueueProofs` |
| `Scheduler` | `scheduleNext` of `pkg/sql/collector.go` and `pkg/http/collector.go` | extended by `SQLCollector`, `HTTPCollector` |
| `SQLCollector` | `pkg/sql/collector.go`, `postgres.go` | `MCSQLCollector`, `SQLCollectorProofs` |
| `HTTPCollector` | `pkg/http/collector.go`, `client.go`, `retries.go` | `MCHTTPCollector`, `HTTPProofs` |
| `Receiver` | `pkg/http/receiver.go`, `server.go` | `MCReceiver`, `ReceiverProofs` |
| `Pipeline` | `cmd/versi`: composes sources, senders and the DLQ by their contracts | `Assembly`, `MCParts`, `PipelineProofs` |
| `Assembly` | nothing of its own: `main` with any parts that keep their contracts | `PipelineProofs` |
| `Cache` | `pkg/cache/cache.go` | extended by `FastCache`, `LeanCache` |
| `FastCache`, `LeanCache` | `pkg/cache/syncmap.go`, `pkg/cache/mutexmap.go` | `Caches` |
| `Caches` | the choice of one of them | `MCCache`, `HTTPProofs` |
| `Cron` | `pkg/cron/cron.go` | `MCCron`, `MCParts`, `PipelineProofs` |
| `Backoff` | `pkg/http/retries.go` | `MCParts`, `PipelineProofs` |
| `Stdout` | `pkg/dest/stdout.go`, `discard.go` | `MCParts`, `PipelineProofs` |
| `Sums` | nothing: lemmas about sums over finite sets and sequences | `BatcherProofs`, `SenderProofs`, `DeadLetterQueueProofs`, `PipelineProofs` |

`PROJECT.json` maps every definition to the lines it stands for.

**State.**  `CloseMu` is a Go `RWMutex`: `readers` holds it for reading, and a writer that waits
(`closer = "locking"`) keeps new readers out, as Go does.  A component composes `Granted`, `RUnlock`,
`BeginClose` and `FinishClose` with its own steps.

**Batcher.**  The fields under `mu` are one record.  A call that adds a chunk takes the lock, appends
item after item, starts the timer and unlocks, then dispatches; `Flush` is one critical section.  Each
timer is known by the generation its callback captured.  A callback first passes the guard, which may
refuse (`limits.refuses`), and then compares generations under the lock.  The size of an item and the
limits are numbers, a window is just enabled or not, so that timers may expire at any moment.

**Sender.**  A batcher is reduced to its pending batch, which `Batcher` justifies: one critical section
adds a chunk and yields the full batches.  A request is a record with its stage: waiting for a slot,
checking again, encoding, at the head of the retry loop, in flight, or pausing.  `Close` is two
processes, as in the code: the goroutine that flushes and waits (`drainer`), and the one that waits for
it with timeouts (`closer`).  The server may do anything, or nothing.  Left out: data that upstream never
sends (`nil` messages, empty blobs, responses without a body), which the code drops with an error message,
and a failure to read a body (`io.ReadAll` at `pkg/http/sender.go:440` and `:490`), which cannot happen since bodies are in memory by then.

**DeadLetterQueue.**  A `Send` is one file with up to `Attempts` attempts, each under a path of its own.
A walk visits the paths in any order, while writes begin, fail and end; a directory may be unreadable, with
whatever files are in it, a file operation may fail, so may the removal of a partial file, and others may delete any file that is not
being written.  The timer of `measureSizeLoop` may fire at any moment.  The histories `errors`,
`walkErrors` and `unsure` record what makes an exact total impossible (files that were not measured, were
deleted or could not be removed since the measurement began), so that the properties can say that nothing
else does.

**SQLCollector.**  The batcher is a set of pending rows and the sets that goroutines have taken from it
and not dispatched yet (`holding`).  The database may fail at each step or never return.
That all rows were read is noticed before or after a timeout: the PostgreSQL variant does not look at the context after the last row.  Left out: the checkpoint, which is written but not
read, and the choice of a driver.

**Scheduler.**  Both collectors have the same `scheduleNext`: it waits for the next instance, skips those that
were missed, waits for the work in progress if it runs only once, and ends in `Close`.  What an instance
starts is an action of the collector that conjoins `InstanceDue`.  A bound on instances (`MaxRuns`) stands for
the end of time.

**HTTPCollector.**  A request is its stage: at the head of the retry loop, in flight, pausing, with a response
that is not handed over yet, or ended.  The server may answer anything or nothing, and an aborted request
fails with a retryable error, as `client.Do` does.  `timely` records whether a request outlived `AbortTimeout`.

**Caches.**  A call is a record of its step, its parameters and the item it loaded.  `FastCache` has one step for
each operation of `sync.Map` and each reading of the clock, `LeanCache` one for each critical section.  The
history `seen` collects what the key of a call had at each moment since it began, and `answer` is what the call
returned, so that the properties can compare them.  The clock is a small number; at an item's expiration time
the item has not expired (`After`).  Left out: `Keys`, `Items`, `ItemCount` and `Len`, which read only.
`Caches` chooses one of the two, and is what the run checks and the theorems are about.

**Receiver.**  A request has the stage of its handler, what became of its body (`handed`), the status that the
handler wrote and the answer that the client got: these differ, since `http.TimeoutHandler` answers the client and
leaves the handler running, and the client may leave.  `Close` first waits for `Server.Shutdown` (all connections
idle, or the timeout), closes the server, which cuts off who is left, and waits for `InProgress` with what remains
of the timeout.  A request whose headers were read before the server closed may still reach its handler.  TCP and
UDP servers are modelled alike.  The statuses 400 and 413 are one.

**Source, Handoff, Pipeline, Assembly.**  `Source` says of each piece of work of a collector or receiver that it is taken up only
before the part closes, and handed over or dropped once, and not after a Done in time: `late` is set exactly if work is in hand at Done.  `Handoff` says that
a sender accepts, then delivers or rejects, and is empty when drained.  `HTTPCollector` and `Receiver` are shown to
implement the first, `Sender` the second; the SQL collector's `DoneMeansHandedOver` is the same promise for its rows.
`Pipeline` has `main` over any number of such parts: collectors that a pool of workers starts and that may fail,
receivers that are started and, if one fails, closed one by one, the interrupt, and the three phases of `shutdown`.  A
chunk is a unit of work of one source, with the sender or the DLQ it is meant for.  A sender that closes hands chunks to
the DLQ, and a closed DLQ loses them.  Any part may close by timeout while it has work, which `overdue` records.

The parts in `Pipeline` are stand-ins.  That they leave out nothing that the real ones may do is what `Assembly` is for.
Its specification `Assembled` has the steps of `main`, and for each part any step that the contract allows, in the contract's own
words (`AsSource(s)!Done`, `AsHandoff(s)!Resolve({x})`) and without those of `Pipeline`: a hand-over is one step of
a source, which gives, and of a sender, which accepts or refuses.  `PartsCompose` proves that `Assembled` implies `Pipeline`'s `Spec`,
so whatever holds of `Pipeline` holds of parts that implement the contracts.  Three things remain between this and the detailed models.  A step of
`Handoff` with several items is several steps here, one for each.  A sender that gives up just when nothing is left counts as drained.
And the DLQ, whose module is about sizes and not about chunks, is the one of `Pipeline`.
`initSenders` was successful and there is at least one source: otherwise `main` exits before anything runs.

**Cron.**  A specification is a record of sets of parts, as `strings.Split` leaves them, and `Parse` makes the sets of matching
values of them.  `Next` is one step per iteration of its loop, so that its local variables can be observed.  Package `time` is
external: `Wall` is the clock of a zone that changes its offset once, and `Instant` is `time.Date`, which may choose either offset
for a time that does not exist or exists twice, as its documentation says.  (It takes the later one of two equal times east of UTC, the earlier one west of it.)  The calendar is a parameter: the dates of the days of a
cycle of years, one after the other, which then repeats, as the Gregorian one does after 400 years.  Schedulers call
`Next` with the time it returned; a schedule that runs once does so at that time or later, as `time.Now` says.  Times are whole minutes, seconds and their truncation are left out; names of days and months are left out.

**Backoff.**  `ParseRetries` clamps a configuration to the limits; each step is one failed attempt and its wait.  The jitter is
any number that `rand.Int64N` may return, and the shift `1 << n` a recursive function.

**Stdout.**  A `Send` looks at `lameDuck`, waits for the mutex, looks again, and writes, which may take forever if the pipe stalls.
`Close` runs once, with a goroutine of its own that waits for the mutex, and a timeout.

## Runs

`tlc -workers 2 -config X.cfg M` in this directory; all of them end within about three minutes.

| Run | Configuration | Properties | Distinct states |
|---|---|---|---|
| `batcher` | `MCBatcher.cfg`: 2 callers, 3 items, all combinations of limits and window, a guard that may refuse or not | `ExactlyOneCopy`, `BatchesWithinLimits`, `OnlyOwnTimerCuts`, `ImplementsBatchStream`, `EventuallyDispatched` | 198 thousand |
| `sender` | `MCSender.cfg`: 2 clients, 4 items, 2 batchers, 1 slot, 2 attempts | `SlotsAccounted`, `DrainedIsEmpty`, `WaitersNotSentOnceClosing`, `ImplementsHandoff`, `CloseDrains` | 185 thousand |
| `dlq_safety` | `MCDeadLetterQueue.cfg`: 2 writes, 1 existing file, three settings of thresholds | `AccountingExact`, `DiskWithinMax`, `WarnedWhenReached`, `ExactlyWritesTracked`, `RootClosedIsQuiet` | 2.6 million |
| `dlq_retries` | `MCDeadLetterQueueLive.cfg`: 1 write with 2 attempts | `WritesEnd` | 428 thousand |
| `sql_collector` | `MCSQLCollector.cfg`: 3 instances, 2 at the same time, 1 row each, batches of 2 | `TypeOK`, `DoneMeansHandedOver`, `EndedLeavesNothing`, `CommittedRowsArrive`, `ShutdownEnds`, `OneTimeCloses` | 167 thousand |
| `http_collector` | `MCHTTPCollector.cfg`: 3 instances, 2 at the same time, 2 attempts | `ImplementsSource`, `NoAttemptAfterDone`, `ShutdownEnds` | 37 thousand |
| `receiver` | `MCReceiver.cfg`: 2 requests, with and without a timeout | `ClientsKnow`, `ImplementsSource`, `CloseEnds` | 10 thousand |
| `caches` | `MCCache.cfg`: either cache, 2 callers, 1 key, 2 values, items that expire or not, a clock up to 2 | `FoundHeld`, `LeanMissesHeld`, `OnlyWritersChangeLive` | 2.7 million |
| `parts` | `MCParts.cfg`: `Pipeline` (2 collectors, 2 receivers, 2 senders, the DLQ, 3 chunks, 1 worker), `Cron`, `Backoff` or `Stdout`, chosen by the variable `part` in the initial state | `ClosedInOrder`, `LostOnlyIfLate`, `ShutdownEnds`; `NextIsEarliest`, `GivesUpRightly`, `CallsReturn`; `BackoffKept`; `ClosedIsSilent` | 263 thousand |
| `fast_cache_misses` | `MCFastCacheMisses.cfg`: the same as `caches`, `FastCache` only | `MissesHeld` is violated | |
| `cron_off_hour` | `MCCronOffHour.cfg`: one daily schedule, on a clock that goes from 1:30 to 2:30 | `Earliest` is violated | |
| `cron_two_midnights` | `MCCronTwoMidnights.cfg`: midnight of the first of the month, on a clock that goes from 1:00 back to 0:00, east of UTC | `RunsTwice` is violated | |

What the properties say, and about which code, is in the comment before each of them.

`CHECK_DEADLOCK FALSE` everywhere but in the caches, which never stop: a component that has closed, or was given all its items, stops.

Why the bounds are enough for the cases that matter:

- Batcher: two callers suffice for any two critical sections, dispatches and callbacks to overlap; the
  sizes 1, 2 and 4 under a limit of 3 give an item that fits, one that fills the batch exactly and one
  that exceeds it alone; three generations let a stale callback meet two later batches.  `MaxGen` only
  stops `Flush`, which could otherwise advance an empty batcher forever.
- Sender: with one slot and four items, requests wait, get a slot while `Close` begins, and are flushed
  by `Close`; two attempts have one pause between them.
- DLQ: the existing file and two writes together exceed `maxSize = 3`, any two of them do not all fit; one
  walk sees every combination of files that begin, fail and end around it, and the loop may walk again and
  again.  The second run adds attempts under another path; that the accounting is exact with those too is proved for any number of them.
- SQL: three instances over two slots, so one is skipped or replaces another; two of three rows fill a batch
  across queries and leave a rest for the timer and `Close`.  The invariants are proved for any number of rows and
  instances, so this instance is chosen for liveness.
- HTTP collector: as for SQL, with one request that may be skipped; two attempts have one pause between them,
  and a third would repeat the same loop.
- Receiver: handlers interact only through `Close`, the server and `InProgress`; two of them give all combinations of one
  that has ended, or outlived its client, and one that has not.
- Pipeline: of each kind of source one has work and the other may fail to start, before, after or while the first runs;
  one worker makes collectors wait for their turn; the chunks take all three ways (to a sender, from a collector or from
  a receiver, and directly to the DLQ).
- Cron: hours of 2 minutes, days of 3 hours, weeks of 3 days, a cycle of 7 years with months of 4 and of 2 days (3 in the leap years 1, 5 and 7), and a
  search of 4 years instead of 8, so that a missing leap year is within reach as it is in the code (1896 to 1904, and 2096 to 2104); 360
  specifications of which the inverted ranges are invalid; offsets that change by an hour or half an hour, forwards and back, at midnight,
  after it, and at the end of a month and of a year.  Calls go on up to minute 60, after the changes.
- Backoff: intervals below, at and between the limits, and maxima around the first powers of two of them; 10 attempts start
  over several times.
- Stdout: two calls of `Send` for one to wait behind the other, and two of `Close`.
- Caches: the operations of different keys do not interact, apart from `Clear` and the worker's order, so one
  key is enough; two callers and the worker interleave; an item that is stored at 0 or 1 expires by 2, and a
  caller may still have it in hand when its successor is stored.

Every property has a mutant of the code (`mutants` in `PROJECT.json`, next to the definition in the
module, marked "Mutant") that it detects: a check that is dropped, an order that is swapped, a field that
is not reset.

### Findings

`fast_cache_misses`: `FastCache.Item` (so `Get`) and `FastCache.Replace` load an item and then look whether it has
expired.  If another goroutine replaces the item between the two and the old one expires, the call reports a miss
although the key had an unexpired item at every moment of it; `CompareAndDelete` fails and thereby shows that there
is a newer item.  `LeanCache` looks again (`LeanMissesHeld`), and the two are documented to be interchangeable
(`pkg/cache/cache.go:9`, `:63`), with a general warning about races in `FastCache` (`pkg/cache/syncmap.go:31`).
The repository itself only calls `Add` on items that never expire (`pkg/http/client.go`), which is not affected.

`cron_off_hour`: in an hour that does not match, `Next` adds the minutes that are left of it (`pkg/cron/cron.go:251`, and likewise `:258`).
If the offset changes within that hour, this leads to a later time than the next full hour of the clock.  In Pacific/Chatham the
clock goes from 2:45 to 3:45: a search at 2:10 goes on at 4:00, and misses a schedule of 3:50, which `Next` returns for the day after.
Its comment promises the earliest match (`:214`).  `OnTheHour` says of which time zones `NextIsEarliest` speaks; most zones
are such.

`cron_two_midnights`: to skip a day or a month that does not match, `Next` goes on at midnight, as `time.Date` gives it (`pkg/cron/cron.go:237`, `:244`).
Where the clock shows midnight twice, `time.Date` takes the second one in time zones east of UTC.  Asia/Amman is such a zone: in 2014 to 2021 its clock
went from 1:00 back to 0:00.  The search passes over the first hour of that day, so a schedule for a time in it that is restricted to days or months runs once,
while one for every day runs twice.  The documentation says that a time that occurs twice runs twice (`docs/config/collector/schedule.md:63`), and the comment of `Next`
that it returns the earliest match.  `FirstMidnight` is the other condition of `NextIsEarliest`, and the only case that it leaves out is this one.

### Fairness

- Batcher: a caller that began a call finishes it, and the Go runtime fires timers and runs callbacks.
  Nobody has to call anything.
- Sender: a `Send` that was accepted returns (nothing under its lock blocks), a request's own steps are
  taken, `Close`'s timeouts elapse.  Nothing is assumed of the server, and nobody has to call `Close`.
- DLQ: file operations return and the walk goes on.  Nobody has to delete or close anything.
- SQL: time passes for the scheduler and `Close`, callbacks that have the lock and dispatches finish
  (`Send` is asynchronous).  Nothing is assumed of the database: `ShutdownEnds` holds when it hangs.
- HTTP collector: time passes for the scheduler, pauses and `Close`, and a request whose context is cancelled
  ends (`net/http`).  Nothing else is assumed of the server.
- Receiver: handlers, `Close` and its timer go on, and `Send` returns.  Clients may send nothing forever; only once a connection
  is cut off, or answered by the timeout, does the reading of the body end with an error (`ReadBroken`).
- Pipeline: `main` goes on, every start returns, every `Close` returns (each has its timeouts), and collectors notice
  that their context is cancelled.  No work has to end.
- Cron: the loop of `Next` goes on.
- Caches, Backoff, Stdout: none, only safety is checked.

## Proofs

`tlapm M.tla` checks each of them; the theorems hold for every value of the constants that the modules'
`ASSUME`s allow.

**Sums.**  The properties that count items or bytes are sums over sets and sequences (`SumFunction` of the community modules, which is a
recursive function).  Induction is stated with sets and not with a predicate as a parameter: `LeastNatural` (a nonempty set of natural
numbers has a least element, from the well-foundedness of `<`) gives `SubsetInduction`, and from it come the lemmas on what a sum becomes
when one summand changes, when a set is split, and when an element is appended to a sequence.  The sums have to be finite, so
`BatcherAssumption` has `IsFiniteSet(Callers)` and `DLQAssumption` has `IsFiniteSet(Writes)` and `IsFiniteSet(Existing)`: a process makes
finitely many calls, and a directory holds finitely many files.

**BatcherProofs.**  `BatcherInv` is the type invariant and four parts.  `LockInv` says that only the holder
of `mu` is appending, so a step of another caller leaves the record alone.  `TimerInv` ties the field
`timer` to the current generation and bounds what is armed, fired or admitted by it.  `WindowInv` is the
reason why items do not wait forever: a batch that nobody is appending to has a timer that is armed, or
whose callback is under way with the current generation.  `PendingBelowLimits` needs the order of the two
checks in `appendToBatch`.  From it follow `TypeCorrect`, `PendingStaysBelowLimits`, `PendingIsTimed` and
the action property `StaleTimersAreHarmless`.

`CopyInv` is for what is in the batches: `HandsInv` says what a caller may have in hand at each step, `BytesInv` that the field with the
pending bytes is their sum, and `CutInv` that cut batches are within the limits; `ExactlyOneCopy` itself is the fourth part.  It is needed
because batches that callbacks took, and those that were dispatched, are sets: a batch that moves to such a set would vanish if it were there
already, and it cannot be, since then its items would be counted twice.  `EveryItemHasOneCopy` and `CutBatchesAreWithinLimits` follow, and
with them `BatcherImplementsStream`, in which an append, a cut and an unlock stutter, and a dispatch delivers a batch that is not delivered yet.

**SenderProofs.**  `SenderInv`: `ShapeInv` has the types, `LockInv` says that whoever has items in hand holds
the read lock, and that no one does once closing, and `FlushInv` that after closing a batcher holds items only
until the drainer flushes it.  Hence `DrainedMeansEmpty`: when `InProgress.Wait` returns nothing is left.

`ItemInv` adds `PlaceInv`, that every accepted item is in one place (with a client, in one batcher, in one request, delivered or rejected),
and `SlotInv`.  Requests are a set; two of them cannot be equal because they would share their items, so the slots
are counted exactly: `SlotsAreAccounted`.  A step of a request keeps its items and changes no other, which gives `WaitersAreNotSent`.
`SenderImplementsHandoff` maps each step: a grant accepts items, an answer delivers, giving up rejects, and all else only moves items inside.

**DeadLetterQueueProofs.**  `DLQInv` has the shapes, `ExactlyWritesTracked` itself, and `QuietInv`, which
says when the root may be closed.  `TracksExactlyItsWrites` needs that paths are never reused.

`SizeInv` is the argument for the accounting.  `WalkInv` says of a walk that is going on that what it has summed up so far is right for the
paths that it has passed, where a tracked file counts nothing (the end of the walk adds it by its final size), up to what `walkErrors` records;
at the end of the walk this becomes `AccountingExact`, of the total.  `FileInv` says what is on the disk at each step of a write: at most the
final size, nothing before the file is opened, all of it once it is written, so that a file that stops being tracked keeps its worth.
`WithinInv` is stronger than `DiskWithinMax`: not what the files take now but what they will take once all writes have ended is within the
maximum.  From these follow `AccountingIsExact` and `DiskStaysWithinMax`; `WarnsInTime` holds because everyone who raises the total looks
at the threshold in the same critical section.

**SQLCollectorProofs.**  `RowInv` says that each added row is pending, held or sent; `HoldInv` that who holds
rows is at a step that dispatches them (a query before its end, a timer under the lock, `Close` between its
flush and its end); `CloseInv` orders the end of `Close`.  `DoneIsSound` follows: at `FinishClose` nobody can
hold anything.  `EndedQueriesLeaveNothing` adds `OwnerInv`: a query with rows in the batcher has not flushed.
`TypeCorrect` is the type invariant, with the capacity of the semaphore as a cardinality; it is inductive
together with the invariants above and `TypeInv`, which adds that the scheduler sleeps only while runs remain.

**HTTPProofs.**  For the collector, `ScheduleKnown` says that requests start in order, and only before `Close` was called, so that an
instance never restarts a request; `CloseKnown` what `Close` has waited for.  With the type invariant, which has the capacity of the semaphore
as a cardinality, they are inductive.  From them follow `DoneEndsAttempts` and the refinement `CollectorIsSource`.

For the caches (package `http` keeps its transports in one), `CacheInv` says of every call that the present state of its key is
among what it has seen; that an item it has loaded, if that is unexpired, was seen too; and that an item it is about to remove has expired.
The last stays true because the clock only advances, and because the removal compares the item (`FastCache`), or looks at
it again under the lock (`LeanCache`): another one in its place is left alone.  `WorkerOK` says the same of the worker, with the time of its tick.  `FindsHeld`, `LeanMissesRightly` and
`KeepsLive` follow, over `CachesSpec`.  There is no theorem on the misses of `FastCache`, as the finding shows.

**ReceiverProofs.**  `HandlersKnown` is the core: a handler that was let in holds the read lock until it is counted, so none is counted after
`Close` has begun.  `StatusKnown` and `AnswersKnown` tie the status to the fate of the body, and the answer to the status.  From them
follow `ClientsInformed` and the refinement `ReceiverIsSource`.

**PipelineProofs.**  `SourcesKnown` says, for each place where `main` is, which sources may still be running: in particular that the lists it
holds have all sources that ever started.  `SendersKnown` does so for senders, and `WorkKnown` for chunks: what is in the hands of a closed
source makes it overdue, and what is lost came from an overdue part.  From them follow `OrderOfClosing` and `LossesExplained`.

`PartsCompose` is the composition: a step that the contracts allow is one of `Pipeline`'s.  `SourceIsFree`, `HandOverIsFree` and `SenderIsFree` show it for each kind
of part, from the invariants above, since a contract speaks of what its part sees and `Pipeline` of all of the process: that a source may be late only once it is closed, for one.
`AssembledSafe` carries both theorems over to `Assembled`.

The module also has the proofs about the smaller parts.  *Stdout.*  `SilentInv`: once `Close` has begun `lameDuck` is set, so whoever gets the mutex
from then on finds it, and the goroutine of `Close` gets the mutex only when nobody is printing.  Hence `StdoutIsSilent`.

*Backoff.*  That the recursive function `Shifted` satisfies its equation is itself proved (`ShiftedRecursion`): there are solutions up to every number,
and they agree.  A shift then exceeds its distance, which makes `Len64` well defined: with `k = Len64(q)`, `2^(k-1) <= q < 2^k`.  `BackoffInv` says that the policy is
within the limits that `parseRetries` enforces and that the last interval is the one of the attempt before; the remainder of the attempts then
either grows by one, and the interval doubles within the maximum, or starts over, and then twice the interval would have exceeded
it (`IntervalsDouble`).  Hence `BackoffIsKept`.

*Cron.*  `Skippable(n, m)` says that the search may go on at `m` instead of `n`: nothing in between matches, if package time takes the first of two midnights.
Such steps compose (`SkippableSteps`), and `SearchInv` is that `Skippable` holds from the parameter of `Next` to where its search is.  Each of the four skips is such a
step, in a zone whose offset changes on the hour (`OnTheHour`).  The key is `HoursAdvance`: the hours of the wall clock never decrease, even if the clock goes back, so
times after `n` are not on days before that of `n`.  Within an hour the clock runs with the time (`WithinHour`), for hours and minutes.  For days and months
`MidnightSkippable` has the four cases of the midnight that is looked for: it comes before the change, after it, twice, or not at all.  If twice, the search is before both
and goes on at the first (`FirstMidnight`); if not at all, 1 AM is the moment of the change, provided that the clock went forward by an hour, which the code's workaround relies
on.  That a month that does not match ends where `NextMonth` says is an induction over the days of the calendar (`MonthGoesOn`).  Hence `NextFindsEarliest`,
and `SearchAdvances`: `next` grows with every step, which is why the search ends.

The assumptions are on types and, for the calendar (`CalendarAssumption`), that each day is followed by the next one of its month or by the first of another month.
`OnTheHour` and `FirstMidnight` are no assumptions but part of the property, since the code does not keep it in other zones.

Only model-checked: liveness, which needs fairness and `ENABLED`, and is out of the prover's reach, and `GivesUpRightly` of `Cron`, which depends on
where the leap years are: that eight years and a day are enough is a fact about one calendar, and not about the search.

## Not modelled

- Codecs (`pkg/codec`) and redaction (`pkg/dest/redact.go`): stateless functions over strings and third-party libraries.  The models keep
  what becomes of data that cannot be encoded or decoded.
- Configuration (`pkg/config`, `pkg/auth/config.go`, `pkg/http/tls.go`, the `New...` functions): sequential parsing before any
  component runs; an error there ends the process, which `Pipeline` has (`CollectorsInvalid`, `ReceiversInvalid`).
- The contents of requests, responses, rows and log messages; the lengths of timeouts, which may expire at any moment.
- `Keys`, `Items`, `ItemCount` and `Len` of the caches, and the SQL collector's checkpoint, which nothing reads.

## Plan

1. Done: all components with concurrency, the composition, and the pure algorithms of schedules and retries; every safety property that the
   runs check is a theorem, but for `GivesUpRightly`.
2. Left: what a search of eight years means in the Gregorian calendar, and the parsing of configurations.
