-------------------------- MODULE DeadLetterQueue --------------------------
(***************************************************************************)
(* The dead-letter queue (src/pkg/dest/dlq.go and dlq_size.go): goroutines *)
(* write files, while a background loop measures the directory to keep the *)
(* size accounting honest in the face of external deletions.               *)
(*                                                                         *)
(* A Send is one file; each attempt to write it uses a path of its own.  A *)
(* path stands for both of its names, with and without ".incomplete",      *)
(* because isTracked strips the suffix.                                    *)
(***************************************************************************)
EXTENDS State, Integers, FiniteSets, Functions

CONSTANTS
  Writes,         \* data that is sent to the DLQ
  Existing,       \* files that are in the directory when the process starts
  SizeOf,         \* the size of each write and each existing file
  Thresholds,     \* the configured maxSize and warnSize (0: disabled)
  Attempts        \* attempts per file (3 in the code)

ASSUME DLQAssumption ==
  /\ Writes \cap Existing = {}
  /\ IsFiniteSet(Writes) /\ IsFiniteSet(Existing)
  /\ SizeOf \in [Writes \cup Existing -> Nat \ {0}]
  /\ Thresholds \subseteq [maxSize : Nat, warnSize : Nat]
  /\ Attempts \in Nat \ {0}

\* Paths: an existing file is its own path, an attempt has a path of its own.
Paths == (Writes \X (1..Attempts)) \cup (Existing \X {0})

VARIABLES
  limit,          \* this queue's thresholds
  writer,         \* where the goroutine of each Send is
  attempt,        \* its current attempt
  disk,           \* bytes on disk under each path (0: no file)
  totalSize,
  newFiles,       \* tracked paths: "none", "writing" or "done"
  measuring,
  warned,
  measured,       \* the first measurement released the writes
  loop,           \* where measureSizeLoop is
  unvisited,      \* paths that the walk has not reached yet
  walked,         \* sizeWalk.size
  rootClosed,     \* Close's goroutine has seen all writes end
  errors,         \* history: why totalSize may be wrong
  walkErrors,     \* history: why the current walk's sum may be wrong
  unsure          \* history: a size was reserved while totalSize was too small

dlqVars == <<limit, writer, attempt, disk, totalSize, newFiles, measuring, warned,
             measured, loop, unvisited, walked, rootClosed, errors, walkErrors,
             unsure>>
sizeVars == <<totalSize, newFiles, measuring, warned>>
loopVars == <<measured, loop, unvisited, walked>>
histVars == <<errors, walkErrors, unsure>>

vars == <<stateVars, dlqVars>>

\* The goroutine of a Send: new (no Send yet), sent, waiting (for "measured"),
\* ready (to reserve), open (reserved), partial (bytes on disk), written (not
\* released yet), and how it ended.
Ended == {"saved", "full", "failed", "discarded"}
Active == {"sent", "waiting", "ready", "open", "partial", "written"}

\* Of "errors", which may be unread, deleted and leaked: files that were never measured,
\* deleted by others, or left behind by a failed write, since the measurement that
\* totalSize is based on began.
TooSmall == errors \cap {"unread", "leaked"} # {}

Enabled == limit.maxSize + limit.warnSize > 0

Size(p) == SizeOf[p[1]]

Path(w) == <<w, attempt[w]>>

Tracked == {p \in Paths : newFiles[p] # "none"}

Init ==
  /\ StateInit
  /\ limit \in Thresholds
  /\ writer = [w \in Writes |-> "new"]
  /\ attempt = [w \in Writes |-> 1]
  /\ disk = [p \in Paths |-> IF p[2] = 0 THEN Size(p) ELSE 0]
  /\ totalSize = 0
  /\ newFiles = [p \in Paths |-> "none"]
  /\ measuring = FALSE /\ warned = FALSE /\ measured = FALSE
  /\ loop = IF Enabled THEN "start" ELSE "over"
  /\ unvisited = {} /\ walked = 0
  /\ rootClosed = FALSE
  /\ errors = IF Existing = {} THEN {} ELSE {"unread"}
  /\ walkErrors = {} /\ unsure = FALSE

-----------------------------------------------------------------------------
(* Size accounting, under sizeMu.                                          *)

\* Mutant: the warning depends on the size before this change.
WarnIfNeededLate(total) ==
  warned' = (warned \/ (limit.warnSize > 0 /\ totalSize >= limit.warnSize))

WarnIfNeeded(total) ==
  warned' = (warned \/ (limit.warnSize > 0 /\ total >= limit.warnSize))

Fits(size) == limit.maxSize = 0 \/ totalSize + size <= limit.maxSize

Reserve(p) ==
  /\ totalSize' = totalSize + Size(p)
  /\ newFiles' = [newFiles EXCEPT ![p] = "writing"]
  /\ WarnIfNeeded(totalSize + Size(p))
  /\ UNCHANGED measuring

\* Mutant: a written file is forgotten although a walk may have passed it.
ReleaseForgets(p, written) ==
  /\ totalSize' = IF written \/ newFiles[p] = "none" THEN totalSize
                  ELSE totalSize - Size(p)
  /\ newFiles' = [newFiles EXCEPT ![p] = "none"]
  /\ UNCHANGED <<measuring, warned>>

Release(p, written) ==
  /\ totalSize' = IF written \/ newFiles[p] = "none" THEN totalSize
                  ELSE totalSize - Size(p)
  /\ newFiles' = [newFiles EXCEPT ![p] =
                    IF @ # "none" /\ written /\ measuring THEN "done" ELSE "none"]
  /\ UNCHANGED <<measuring, warned>>

-----------------------------------------------------------------------------
(* Send and the goroutine it registers.                                    *)

Goto(w, next) == writer' = [writer EXCEPT ![w] = next]

\* Mutant: the closing flag is not checked.
SendUnchecked(w) ==
  /\ writer[w] = "new"
  /\ Goto(w, "sent")
  /\ UNCHANGED <<stateVars, limit, attempt, disk, sizeVars, loopVars, rootClosed, histVars>>

\* The goroutine is registered under the read lock, which is then released.
Send(w) ==
  /\ writer[w] = "new"
  /\ closer # "locking" /\ ~closing
  /\ Goto(w, "sent")
  /\ UNCHANGED <<stateVars, limit, attempt, disk, sizeVars, loopVars, rootClosed, histVars>>

SendAfterClose(w) ==
  /\ writer[w] = "new"
  /\ Refused
  /\ Goto(w, "discarded")
  /\ UNCHANGED <<stateVars, limit, attempt, disk, sizeVars, loopVars, rootClosed, histVars>>

WaitForSize(w) ==
  /\ \/ /\ writer[w] = "sent"
        /\ Goto(w, IF limit.maxSize = 0 \/ measured THEN "ready" ELSE "waiting")
     \/ writer[w] = "waiting" /\ measured /\ Goto(w, "ready")
     \/ writer[w] = "waiting" /\ closing /\ Goto(w, "discarded")
  /\ UNCHANGED <<stateVars, limit, attempt, disk, sizeVars, loopVars, rootClosed, histVars>>

\* Mutant: the limit is checked without reserving the size.
ReserveOrDiscardUnlocked(w) ==
  /\ writer[w] = "ready"
  /\ Goto(w, IF Fits(SizeOf[w]) THEN "open" ELSE "full")
  /\ UNCHANGED <<stateVars, limit, attempt, disk, sizeVars, loopVars, rootClosed, histVars>>

ReserveOrDiscard(w) ==
  /\ writer[w] = "ready"
  /\ \/ ~Enabled /\ Goto(w, "open") /\ UNCHANGED sizeVars
     \/ Enabled /\ Fits(SizeOf[w]) /\ Goto(w, "open") /\ Reserve(Path(w))
     \/ Enabled /\ ~Fits(SizeOf[w]) /\ Goto(w, "full") /\ UNCHANGED sizeVars
  /\ unsure' = (unsure \/ TooSmall)
  /\ UNCHANGED <<stateVars, limit, attempt, disk, loopVars, rootClosed, errors,
                 walkErrors>>

\* writeRetry: the next attempt starts over, with another path.
Retry(w) ==
  IF attempt[w] < Attempts
  THEN Goto(w, "ready") /\ attempt' = [attempt EXCEPT ![w] = @ + 1]
  ELSE Goto(w, "failed") /\ UNCHANGED attempt

\* The subdirectory or the file cannot be created.
OpenFails(w) ==
  /\ writer[w] = "open"
  /\ Release(Path(w), FALSE)
  /\ Retry(w)
  /\ UNCHANGED <<stateVars, limit, disk, loopVars, rootClosed, histVars>>

WriteSome(w) ==
  /\ writer[w] = "open"
  /\ \E n \in 1..SizeOf[w] : disk' = [disk EXCEPT ![Path(w)] = n]
  /\ Goto(w, "partial")
  /\ UNCHANGED <<stateVars, limit, attempt, sizeVars, loopVars, rootClosed, histVars>>

\* Something that the current walk, if there is one, may have missed.
Meanwhile(cause) ==
  walkErrors' = IF measuring THEN walkErrors \cup {cause} ELSE {}

\* The partial file is removed, unless that fails too.
WriteFails(w) ==
  /\ writer[w] = "partial"
  /\ \/ disk' = [disk EXCEPT ![Path(w)] = 0] /\ UNCHANGED <<errors, walkErrors>>
     \/ /\ errors' = errors \cup {"leaked"}
        /\ Meanwhile("leaked")
        /\ UNCHANGED disk
  /\ Release(Path(w), FALSE)
  /\ Retry(w)
  /\ UNCHANGED <<stateVars, limit, loopVars, rootClosed, unsure>>

WriteAll(w) ==
  /\ writer[w] = "partial"
  /\ disk' = [disk EXCEPT ![Path(w)] = SizeOf[w]]
  /\ Goto(w, "written")
  /\ UNCHANGED <<stateVars, limit, attempt, sizeVars, loopVars, rootClosed, histVars>>

\* The file gets its final name, or keeps the temporary one: it is saved anyway.
Saved(w) ==
  /\ writer[w] = "written"
  /\ Release(Path(w), TRUE)
  /\ Goto(w, "saved")
  /\ UNCHANGED <<stateVars, limit, attempt, disk, loopVars, rootClosed, histVars>>

-----------------------------------------------------------------------------
(* measureSizeLoop.                                                        *)

\* At startup, or when the timer fires.
MeasureStarts ==
  /\ loop \in {"start", "idle"}
  /\ loop' = "walking"
  /\ measuring' = TRUE
  /\ unvisited' = Paths
  /\ walked' = 0
  /\ walkErrors' = {}
  /\ UNCHANGED <<stateVars, limit, writer, attempt, disk, totalSize, newFiles, warned,
                 measured, rootClosed, errors, unsure>>

Visit(p) ==
  /\ loop = "walking"
  /\ p \in unvisited
  /\ ~closing
  /\ unvisited' = unvisited \ {p}
  /\ walked' = IF p \in Tracked THEN walked ELSE walked + disk[p]
  /\ UNCHANGED <<stateVars, limit, writer, attempt, disk, sizeVars, measured, loop,
                 rootClosed, histVars>>

\* A file in a subdirectory that cannot be read.  For one that is tracked, or not there,
\* that is the same as Visit.
Skip(p) ==
  /\ loop = "walking"
  /\ p \in unvisited \ Tracked /\ disk[p] > 0
  /\ ~closing
  /\ unvisited' = unvisited \ {p}
  /\ walkErrors' = walkErrors \cup {"unread"}
  /\ UNCHANGED <<stateVars, limit, writer, attempt, disk, sizeVars, measured, loop,
                 walked, rootClosed, errors, unsure>>

\* The walk is complete, or the root directory cannot be read, or the DLQ is
\* closing, which visit and measureSize check.
WalkEnds ==
  /\ loop = "walking"
  /\ \/ ~closing /\ unvisited = {} /\ loop' = "walked"
     \/ ~closing /\ unvisited = Paths /\ loop' = "failed"
     \/ closing /\ loop' = "interrupted"
  /\ unvisited' = {}
  /\ UNCHANGED <<stateVars, limit, writer, attempt, disk, sizeVars, measured, walked,
                 rootClosed, histVars>>

\* Mutant: the end of a measurement clears the tracked files.
MeasuredForgetsAll(ok) ==
  LET size == walked + SumFunctionOnSet([p \in Paths |-> Size(p)], Tracked)
  IN  /\ measuring' = FALSE
      /\ newFiles' = [p \in Paths |-> "none"]
      /\ totalSize' = IF ok THEN size ELSE totalSize
      /\ errors' = IF ok THEN walkErrors ELSE errors
      /\ IF ok THEN warned' = (limit.warnSize > 0 /\ size >= limit.warnSize)
         ELSE UNCHANGED warned

\* Under sizeMu: the walk's sum, and the reserved size of each tracked file, become
\* the total; files that ended meanwhile are not tracked anymore.
Measured(ok) ==
  LET size == walked + SumFunctionOnSet([p \in Paths |-> Size(p)], Tracked)
  IN  /\ measuring' = FALSE
      /\ newFiles' = [p \in Paths |-> IF newFiles[p] = "done" THEN "none"
                                      ELSE newFiles[p]]
      /\ totalSize' = IF ok THEN size ELSE totalSize
      /\ errors' = IF ok THEN walkErrors ELSE errors
      /\ IF ok THEN warned' = (limit.warnSize > 0 /\ size >= limit.warnSize)
         ELSE UNCHANGED warned

\* Mutant: writes keep waiting if the first measurement failed.
MeasureEndsSilently ==
  /\ loop \in {"walked", "failed", "interrupted"}
  /\ Measured(loop = "walked")
  /\ loop' = IF measured THEN "idle" ELSE IF loop = "walked" THEN "release" ELSE "over"
  /\ walked' = 0 /\ walkErrors' = {}
  /\ UNCHANGED <<stateVars, limit, writer, attempt, disk, measured, unvisited,
                 rootClosed, unsure>>

\* After the first measurement the writes are released, even if it failed; but if
\* it was interrupted they must see that the DLQ is closing instead.
MeasureEnds ==
  /\ loop \in {"walked", "failed", "interrupted"}
  /\ Measured(loop = "walked")
  /\ loop' = IF measured THEN "idle"
             ELSE IF loop = "walked" \/ ~closing THEN "release" ELSE "over"
  /\ walked' = 0 /\ walkErrors' = {}
  /\ UNCHANGED <<stateVars, limit, writer, attempt, disk, measured, unvisited,
                 rootClosed, unsure>>

ReleaseWrites ==
  /\ loop = "release"
  /\ loop' = "idle"
  /\ measured' = TRUE
  /\ UNCHANGED <<stateVars, limit, writer, attempt, disk, sizeVars, unvisited, walked,
                 rootClosed, histVars>>

LoopEnds ==
  /\ loop = "idle" /\ closing
  /\ loop' = "over"
  /\ UNCHANGED <<stateVars, limit, writer, attempt, disk, sizeVars, measured,
                 unvisited, walked, rootClosed, histVars>>

-----------------------------------------------------------------------------
(* Close, and the world outside.                                           *)

CloseCalled == AwaitCloseLock /\ UNCHANGED dlqVars

CloseBegins == BeginClose /\ UNCHANGED dlqVars

RootCloses ==
  /\ closing
  /\ ~rootClosed
  /\ \A w \in Writes : writer[w] \notin Active
  /\ rootClosed' = TRUE
  /\ UNCHANGED <<stateVars, limit, writer, attempt, disk, sizeVars, loopVars, histVars>>

\* All done, or one second is over.
CloseReturns ==
  closer = "grace" /\ FinishClose("returned") /\ UNCHANGED dlqVars

\* A file that nobody is writing is deleted, e.g. after it was replayed.
Deleted(p) ==
  /\ disk[p] > 0
  /\ \A w \in Writes : writer[w] \in {"partial", "written"} => Path(w) # p
  /\ disk' = [disk EXCEPT ![p] = 0]
  /\ errors' = errors \cup {"deleted"}
  /\ Meanwhile("deleted")
  /\ UNCHANGED <<stateVars, limit, writer, attempt, sizeVars, loopVars, rootClosed,
                 unsure>>

-----------------------------------------------------------------------------
WriterNext(w) ==
  \/ WaitForSize(w) \/ ReserveOrDiscard(w) \/ OpenFails(w) \/ WriteSome(w)
  \/ WriteFails(w) \/ WriteAll(w) \/ Saved(w)

LoopNext ==
  \/ MeasureStarts \/ WalkEnds \/ MeasureEnds \/ ReleaseWrites \/ LoopEnds
  \/ \E p \in Paths : Visit(p) \/ Skip(p)

CloseNext == CloseCalled \/ CloseBegins \/ RootCloses \/ CloseReturns

Next ==
  \/ \E w \in Writes : Send(w) \/ SendAfterClose(w) \/ WriterNext(w)
  \/ LoopNext
  \/ CloseNext
  \/ \E p \in Paths : Deleted(p)

\* Goroutines run, file operations return and the walk goes on.
Fairness ==
  /\ \A w \in Writes : WF_vars(WriterNext(w))
  /\ WF_vars(LoopNext)
  /\ WF_vars(CloseBegins \/ RootCloses)

Spec == Init /\ [][Next]_vars

FairSpec == Spec /\ Fairness

-----------------------------------------------------------------------------
(* Properties.                                                             *)

DiskSize == SumFunction(disk)

\* What the total should be: whole files as they are on disk, and files that are
\* being written by their final sizes.
TrueSize ==
  SumFunction([p \in Paths |-> IF p \in Tracked THEN Size(p) ELSE disk[p]])

\* The total counts every file exactly once, by its full size, whatever writes
\* began, failed or ended before, during or after the walk that it is based on;
\* only deletions since then make it too large, and only files that could not be
\* measured or removed make it too small.
AccountingExact ==
  Enabled =>
    /\ ~TooSmall => totalSize >= TrueSize
    /\ "deleted" \notin errors => totalSize <= TrueSize

\* The DLQ directory never exceeds maxSize, partial writes included, if the files
\* that exist at startup don't, and no write relied on a total that misses files.
DiskWithinMax ==
  limit.maxSize > 0 /\ ~unsure
    /\ SumFunction([x \in Existing |-> SizeOf[x]]) <= limit.maxSize
    => DiskSize <= limit.maxSize

\* The latch is never behind: as soon as the accounted size reaches warnSize,
\* whoever caused it has logged the warning.
WarnedWhenReached ==
  limit.warnSize > 0 /\ totalSize >= limit.warnSize => warned

Writing(w) == writer[w] \in {"open", "partial", "written"}

\* What lets a walk tell its own files apart: a file is tracked from before it is
\* created until its write ended, and longer only while a walk that may have
\* skipped it goes on.  Nothing else is tracked, so newFiles doesn't grow forever.
ExactlyWritesTracked ==
  \A p \in Paths :
    /\ newFiles[p] = "writing" <=> Enabled /\ \E w \in Writes : Writing(w) /\ Path(w) = p
    /\ newFiles[p] = "done" => measuring

\* Once the root directory is closed, no write is in progress or ever begins.
RootClosedIsQuiet ==
  rootClosed => \A w \in Writes : writer[w] \notin Active

\* A write that was accepted never waits in memory for good: it is saved, or
\* given up with a log message.  A measurement that fails releases it, and one
\* that is interrupted lets it see that the DLQ is closing.
WritesEnd == \A w \in Writes : writer[w] = "sent" ~> writer[w] \in Ended
=============================================================================
