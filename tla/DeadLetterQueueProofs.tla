----------------------- MODULE DeadLetterQueueProofs -----------------------
(***************************************************************************)
(* For any writes, files, sizes, thresholds and attempts: the dead-letter  *)
(* queue tracks exactly the files that it is writing, its root directory   *)
(* is never closed under a write, its size accounting is exact, and its    *)
(* directory stays within the configured maximum.                          *)
(***************************************************************************)
EXTENDS DeadLetterQueue, Sums, TLAPS

ShapeInv ==
  /\ writer \in [Writes -> {"new"} \cup Active \cup Ended]
  /\ attempt \in [Writes -> 1..Attempts]
  /\ newFiles \in [Paths -> {"none", "writing", "done"}]

\* The strengthening: only Close's goroutine closes the root directory, and only
\* Send, which checks the closing state under the lock, makes a write active.
QuietInv == rootClosed => closing /\ RootClosedIsQuiet

DLQInv == ShapeInv /\ ExactlyWritesTracked /\ QuietInv

\* Two writes never share a path.
LEMMA PathsDiffer ==
  ASSUME ShapeInv, NEW w \in Writes
  PROVE  /\ Path(w) \in Paths
         /\ \A v \in Writes : Path(v) = Path(w) <=> v = w
  BY DEF ShapeInv, Path, Paths

\* Nothing is written or tracked at startup.
LEMMA InitInv == Init => DLQInv
  BY DLQAssumption DEF Init, StateInit, DLQInv, ShapeInv, ExactlyWritesTracked, Writing,
     QuietInv, DLQAssumption, Active, Ended

\* A step of a write's goroutine that moves neither into nor out of the file's
\* writing, and leaves the accounting alone.
LEMMA KeepsTracking ==
  ASSUME DLQInv, NEW w \in Writes, NEW next \in {"new"} \cup Active \cup Ended,
         Goto(w, next), writer[w] \in Active,
         Writing(w) <=> next \in {"open", "partial", "written"},
         UNCHANGED <<stateVars, limit, attempt, newFiles, measuring, rootClosed>>
  PROVE  DLQInv'
  <1> USE DEF DLQInv, Goto
  <1>1. ShapeInv'
    BY DEF ShapeInv
  <1>2. \A v \in Writes : (Writing(v)' <=> Writing(v)) /\ Path(v)' = Path(v)
    BY DEF ShapeInv, Writing, Path
  <1>3. ExactlyWritesTracked'
    BY <1>2 DEF ExactlyWritesTracked, Enabled
  <1>4. QuietInv'
    BY DEF QuietInv, RootClosedIsQuiet, stateVars, ShapeInv
  <1> QED BY <1>1, <1>3, <1>4

\* Release stops tracking the file of a write that ends or is tried again.
LEMMA ReleaseStep ==
  ASSUME DLQInv, NEW w \in Writes, NEW written \in BOOLEAN, Writing(w),
         Release(Path(w), written),
         NEW next \in {"ready"} \cup Ended, Goto(w, next),
         attempt' \in [Writes -> 1..Attempts],
         \A v \in Writes \ {w} : attempt'[v] = attempt[v],
         UNCHANGED <<stateVars, limit, rootClosed>>
  PROVE  DLQInv'
  <1> USE DEF DLQInv, Goto
  <1>1. Path(w) \in Paths /\ \A v \in Writes : Path(v) = Path(w) <=> v = w
    BY PathsDiffer
  <1>2. ShapeInv'
    BY DEF ShapeInv, Release, Active, Ended
  <1>3. ~Writing(w)' /\ \A v \in Writes \ {w} : (Writing(v)' <=> Writing(v)) /\ Path(v)' = Path(v)
    BY DEF ShapeInv, Writing, Path, Ended
  <1>4. newFiles'[Path(w)] # "writing"
        /\ \A p \in Paths \ {Path(w)} : newFiles'[p] = newFiles[p]
    BY <1>1 DEF Release, ShapeInv
  <1>5. \A p \in Paths : newFiles'[p] = "done" => measuring'
    BY <1>1 DEF Release, ShapeInv, ExactlyWritesTracked
  <1>6. ExactlyWritesTracked'
    <2> SUFFICES ASSUME NEW p \in Paths
        PROVE newFiles'[p] = "writing"
                <=> Enabled' /\ \E v \in Writes : Writing(v)' /\ Path(v)' = p
      BY <1>5 DEF ExactlyWritesTracked
    <2>1. Enabled' <=> Enabled
      BY DEF Enabled
    <2>2. CASE p = Path(w)
      BY <1>1, <1>3, <1>4, <2>2
    <2>3. CASE p # Path(w)
      BY <1>1, <1>3, <1>4, <2>1, <2>3 DEF ExactlyWritesTracked
    <2> QED BY <2>2, <2>3
  <1>7. QuietInv'
    BY DEF QuietInv, RootClosedIsQuiet, stateVars, ShapeInv, Writing, Active
  <1> QED BY <1>2, <1>6, <1>7

\* A retry keeps the number of attempts within its limit.
LEMMA RetryStep ==
  ASSUME ShapeInv, NEW w \in Writes, Retry(w)
  PROVE  /\ \E next \in {"ready"} \cup Ended : Goto(w, next)
         /\ attempt' \in [Writes -> 1..Attempts]
         /\ \A v \in Writes \ {w} : attempt'[v] = attempt[v]
  BY DLQAssumption DEF ShapeInv, Retry, Goto, Ended, DLQAssumption

\* Reserve tracks a file before it is created.
LEMMA ReserveStep ==
  ASSUME DLQInv, NEW w \in Writes, writer[w] = "ready", Enabled, Reserve(Path(w)),
         Goto(w, "open"), UNCHANGED <<stateVars, limit, attempt, rootClosed>>
  PROVE  DLQInv'
  <1> USE DEF DLQInv, Goto
  <1>1. Path(w) \in Paths /\ \A v \in Writes : Path(v) = Path(w) <=> v = w
    BY PathsDiffer
  <1>2. ShapeInv'
    BY DEF ShapeInv, Reserve, Active
  <1>3. Writing(w)' /\ \A v \in Writes : (v # w => (Writing(v)' <=> Writing(v)))
                                          /\ Path(v)' = Path(v)
    BY DEF ShapeInv, Writing, Path
  <1>4. newFiles'[Path(w)] = "writing"
        /\ \A p \in Paths \ {Path(w)} : newFiles'[p] = newFiles[p]
    BY <1>1 DEF Reserve, ShapeInv
  <1>5. ExactlyWritesTracked'
    BY <1>1, <1>3, <1>4 DEF ExactlyWritesTracked, Enabled, Reserve
  <1>6. QuietInv'
    BY DEF QuietInv, RootClosedIsQuiet, stateVars, ShapeInv, Active
  <1> QED BY <1>2, <1>5, <1>6

\* Without thresholds, nothing is tracked.
LEMMA UntrackedStep ==
  ASSUME DLQInv, NEW w \in Writes, writer[w] \in Active, ~Enabled,
         NEW next \in Active, Goto(w, next),
         UNCHANGED <<stateVars, limit, attempt, newFiles, measuring, rootClosed>>
  PROVE  DLQInv'
  <1> USE DEF DLQInv, Goto
  <1>1. ShapeInv'
    BY DEF ShapeInv
  <1>2. ~Enabled'
    BY DEF Enabled
  <1>3. ExactlyWritesTracked'
    BY <1>2 DEF ExactlyWritesTracked
  <1>4. QuietInv'
    BY DEF QuietInv, RootClosedIsQuiet, stateVars, ShapeInv
  <1> QED BY <1>1, <1>3, <1>4

\* Send makes a write active only before Close begins.
LEMMA SendStep ==
  ASSUME DLQInv, NEW w \in Writes, Send(w) \/ SendAfterClose(w)
  PROVE  DLQInv'
  <1> USE DEF DLQInv, Goto, Send, SendAfterClose, sizeVars, stateVars
  <1>1. ShapeInv'
    BY DEF ShapeInv, Active, Ended
  <1>2. \A v \in Writes : (Writing(v)' <=> Writing(v)) /\ Path(v)' = Path(v)
    BY DEF ShapeInv, Writing, Path
  <1>3. ExactlyWritesTracked'
    BY <1>2 DEF ExactlyWritesTracked, Enabled
  <1>4. QuietInv'
    BY DEF QuietInv, RootClosedIsQuiet, ShapeInv, Active, Refused
  <1> QED BY <1>1, <1>3, <1>4

\* Every step of a write's goroutine keeps the invariant.
LEMMA WriterStep ==
  ASSUME DLQInv, NEW w \in Writes, WriterNext(w)
  PROVE  DLQInv'
  <1> USE DEF sizeVars, loopVars, histVars
  <1>1. CASE WaitForSize(w)
    <2>1. PICK next \in {"ready", "waiting", "discarded"} : Goto(w, next)
      BY <1>1 DEF WaitForSize
    <2> QED BY <1>1, <2>1, KeepsTracking DEF WaitForSize, Writing, Active, Ended
  <1>2. CASE ReserveOrDiscard(w)
    <2>1. CASE UNCHANGED newFiles /\ ~(Enabled /\ Fits(SizeOf[w]))
      <3>1. CASE ~Enabled
        BY <1>2, <2>1, <3>1, UntrackedStep DEF ReserveOrDiscard, Active, Ended
      <3>2. CASE Enabled
        BY <1>2, <2>1, <3>2, KeepsTracking DEF ReserveOrDiscard, Writing, Active, Ended
      <3> QED BY <3>1, <3>2
    <2>2. CASE Goto(w, "open") /\ Reserve(Path(w)) /\ Enabled
      BY <1>2, <2>2, ReserveStep DEF ReserveOrDiscard
    <2> QED BY <1>2, <2>1, <2>2 DEF ReserveOrDiscard
  <1>3. CASE OpenFails(w)
    <2>1. Writing(w)
      BY <1>3 DEF OpenFails, Writing
    <2>2. PICK next \in {"ready"} \cup Ended : Goto(w, next)
      BY <1>3, RetryStep DEF OpenFails, DLQInv
    <2> QED BY <1>3, <2>1, <2>2, RetryStep, ReleaseStep DEF OpenFails, DLQInv
  <1>4. CASE WriteSome(w)
    BY <1>4, KeepsTracking DEF WriteSome, Writing, Active
  <1>5. CASE WriteFails(w)
    <2>1. Writing(w)
      BY <1>5 DEF WriteFails, Writing
    <2>2. PICK next \in {"ready"} \cup Ended : Goto(w, next)
      BY <1>5, RetryStep DEF WriteFails, DLQInv
    <2> QED BY <1>5, <2>1, <2>2, RetryStep, ReleaseStep DEF WriteFails, DLQInv
  <1>6. CASE WriteAll(w)
    BY <1>6, KeepsTracking DEF WriteAll, Writing, Active
  <1>7. CASE Saved(w)
    <2>1. Writing(w) /\ "saved" \in Ended
      BY <1>7 DEF Saved, Writing, Ended
    <2>2. attempt' \in [Writes -> 1..Attempts] /\ UNCHANGED attempt
      BY <1>7 DEF Saved, DLQInv, ShapeInv
    <2> QED BY <1>7, <2>1, <2>2, ReleaseStep DEF Saved
  <1> QED BY <1>1, <1>2, <1>3, <1>4, <1>5, <1>6, <1>7 DEF WriterNext

\* A measurement forgets only the files whose writes ended.
LEMMA MeasuredStep ==
  ASSUME DLQInv, MeasureEnds
  PROVE  DLQInv'
  <1> USE DEF MeasureEnds, Measured, DLQInv
  <1>1. ShapeInv'
    BY DEF ShapeInv
  <1>2. \A p \in Paths : newFiles'[p] # "done"
                         /\ (newFiles'[p] = "writing" <=> newFiles[p] = "writing")
    BY DEF ShapeInv
  <1>3. \A v \in Writes : (Writing(v)' <=> Writing(v)) /\ Path(v)' = Path(v)
    BY DEF Writing, Path
  <1>4. ExactlyWritesTracked'
    BY <1>2, <1>3 DEF ExactlyWritesTracked, Enabled
  <1>5. QuietInv'
    BY DEF QuietInv, RootClosedIsQuiet, stateVars
  <1> QED BY <1>1, <1>4, <1>5

\* Steps that leave the writes and what is tracked alone.
LEMMA OtherStep ==
  ASSUME DLQInv, UNCHANGED <<limit, writer, attempt, newFiles>>,
         measuring => measuring', closing => closing',
         rootClosed' => rootClosed \/ (closing /\ \A w \in Writes : writer[w] \notin Active)
  PROVE  DLQInv'
  <1>1. \A v \in Writes : (Writing(v)' <=> Writing(v)) /\ Path(v)' = Path(v)
    BY DEF Writing, Path
  <1>2. ExactlyWritesTracked'
    BY <1>1 DEF DLQInv, ExactlyWritesTracked, Enabled
  <1> QED BY <1>2 DEF DLQInv, ShapeInv, QuietInv, RootClosedIsQuiet

\* Every step keeps the invariant.
LEMMA StepInv == DLQInv /\ [Next]_vars => DLQInv'
  <1> SUFFICES ASSUME DLQInv, [Next]_vars PROVE DLQInv'
    OBVIOUS
  <1> USE DEF sizeVars, loopVars, histVars, stateVars, dlqVars
  <1>1. CASE \E w \in Writes : Send(w) \/ SendAfterClose(w)
    BY <1>1, SendStep
  <1>2. CASE \E w \in Writes : WriterNext(w)
    BY <1>2, WriterStep
  <1>3. CASE LoopNext
    <2>1. CASE MeasureStarts
      BY <2>1, OtherStep DEF MeasureStarts
    <2>2. CASE WalkEnds
      BY <2>2, OtherStep DEF WalkEnds
    <2>3. CASE MeasureEnds
      BY <2>3, MeasuredStep
    <2>4. CASE ReleaseWrites \/ LoopEnds
      BY <2>4, OtherStep DEF ReleaseWrites, LoopEnds
    <2>5. CASE \E p \in Paths : Visit(p) \/ Skip(p)
      BY <2>5, OtherStep DEF Visit, Skip
    <2> QED BY <1>3, <2>1, <2>2, <2>3, <2>4, <2>5 DEF LoopNext
  <1>4. CASE CloseNext
    BY <1>4, OtherStep DEF CloseNext, CloseCalled, CloseBegins, RootCloses, CloseReturns,
       AwaitCloseLock, BeginClose, FinishClose
  <1>5. CASE \E p \in Paths : Deleted(p)
    BY <1>5, OtherStep DEF Deleted
  <1>6. CASE UNCHANGED vars
    BY <1>6, OtherStep DEF vars
  <1> QED BY <1>1, <1>2, <1>3, <1>4, <1>5, <1>6 DEF Next

\* The inductive invariant holds in every reachable state.
THEOREM Invariance == Spec => []DLQInv
  BY InitInv, StepInv, PTL DEF Spec

\* For every instance, newFiles holds exactly the files that asyncWriteFile is
\* writing, and those that ended during the current walk.
THEOREM TracksExactlyItsWrites == Spec => []ExactlyWritesTracked
  <1>1. DLQInv => ExactlyWritesTracked
    BY DEF DLQInv
  <1> QED BY <1>1, Invariance, PTL

\* For every instance, Close's goroutine never closes the root directory under a
\* write, and no Send starts one after.
THEOREM RootIsClosedLast == Spec => []RootClosedIsQuiet
  <1>1. DLQInv => RootClosedIsQuiet
    BY DEF DLQInv, QuietInv, RootClosedIsQuiet
  <1> QED BY <1>1, Invariance, PTL

-----------------------------------------------------------------------------
(***************************************************************************)
(* The size accounting.  [Worth] is what TrueSize counts of each path, and *)
(* [Seen] what a walk that has reached all but [unvisited] should have     *)
(* counted: a tracked file is left to Measured, which adds its final size. *)
(***************************************************************************)
Worth == [p \in Paths |-> IF p \in Tracked THEN Size(p) ELSE disk[p]]

Seen == [p \in Paths |-> IF p \in unvisited \cup Tracked THEN 0 ELSE disk[p]]

SeenSize == SumFunctionOnSet(Seen, Paths)

SizeShape ==
  /\ limit \in [maxSize : Nat, warnSize : Nat]
  /\ disk \in [Paths -> Nat]
  /\ totalSize \in Int /\ walked \in Int
  /\ unvisited \subseteq Paths
  /\ unsure \in BOOLEAN /\ warned \in BOOLEAN
  /\ measuring <=> loop \in {"walking", "walked", "failed", "interrupted"}
  /\ loop = "walked" => unvisited = {}
  /\ ~Enabled => loop = "over"

\* A write has no file before it opens one, and its next attempts have none yet.
Fresh(w, a) ==
  \/ a > attempt[w]
  \/ a = attempt[w] /\ writer[w] \in {"new", "sent", "waiting", "ready"}

\* What is on disk: at most the final size, nothing before the file is opened,
\* and all of it once the write ended, unless somebody deleted the file.
FileInv ==
  /\ \A p \in Paths : disk[p] <= Size(p)
  /\ \A w \in Writes : writer[w] = "written" => disk[Path(w)] = SizeOf[w]
  /\ \A w \in Writes : writer[w] = "open" => disk[Path(w)] = 0
  /\ \A w \in Writes, a \in 1..Attempts :
       Fresh(w, a) => disk[<<w, a>>] = 0 /\ newFiles[<<w, a>>] = "none"
  /\ \A p \in Paths : newFiles[p] = "done" =>
       disk[p] = Size(p) \/ "deleted" \in errors \cap walkErrors

\* The walk's sum so far is right for the files that it has passed, up to what
\* happened behind its back.
WalkInv ==
  loop \in {"walking", "walked"} =>
    /\ walkErrors \cap {"unread", "leaked"} = {} => walked >= SeenSize
    /\ "deleted" \notin walkErrors => walked <= SeenSize

\* What the files will take once all writes ended stays within maxSize.
WithinInv ==
  limit.maxSize > 0 /\ ~unsure
    /\ SumFunction([x \in Existing |-> SizeOf[x]]) <= limit.maxSize
    => TrueSize <= limit.maxSize

SumsInv == WalkInv /\ AccountingExact /\ WithinInv

SizeInv == SizeShape /\ FileInv /\ SumsInv /\ WarnedWhenReached

-----------------------------------------------------------------------------
(* Facts about paths and their sums.                                       *)

\* There are finitely many paths, of positive sizes.
LEMMA PathFacts ==
  /\ IsFiniteSet(Paths)
  /\ \A p \in Paths : Size(p) \in Nat /\ Size(p) > 0
  <1>1. IsFiniteSet(1..Attempts) /\ IsFiniteSet({0})
    <2>1. 1 \in Int /\ Attempts \in Int
      BY DLQAssumption DEF DLQAssumption
    <2> QED BY <2>1, FS_Interval, FS_Singleton
  <1>2. IsFiniteSet(Writes \X (1..Attempts)) /\ IsFiniteSet(Existing \X {0})
    BY <1>1, DLQAssumption, FS_Product DEF DLQAssumption
  <1>3. IsFiniteSet(Paths)
    BY <1>2, FS_Union DEF Paths
  <1>4. \A p \in Paths : Size(p) \in Nat /\ Size(p) > 0
    BY DLQAssumption DEF DLQAssumption, Paths, Size
  <1> QED BY <1>3, <1>4

\* What a path is worth, and what a walk should have seen of it.
LEMMA WorthFacts ==
  ASSUME SizeShape
  PROVE  /\ TrueSize = SumFunctionOnSet(Worth, Paths)
         /\ \A p \in Paths :
              /\ Worth[p] \in Nat /\ Seen[p] \in Nat
              /\ Worth[p] = IF newFiles[p] # "none" THEN Size(p) ELSE disk[p]
              /\ Seen[p] = IF p \in unvisited \/ newFiles[p] # "none" THEN 0 ELSE disk[p]
         /\ TrueSize \in Int /\ SeenSize \in Int
  <1>1. TrueSize = SumFunctionOnSet(Worth, Paths)
    BY DEF TrueSize, SumFunction, Worth
  <1>2. \A p \in Paths : /\ Worth[p] \in Nat /\ Seen[p] \in Nat
                         /\ Worth[p] \in Int /\ Seen[p] \in Int
    BY PathFacts DEF SizeShape, Worth, Seen
  <1>3. TrueSize \in Int /\ SeenSize \in Int
    BY <1>1, <1>2, PathFacts, SumType DEF SeenSize
  <1>4. \A p \in Paths :
          /\ Worth[p] = IF newFiles[p] # "none" THEN Size(p) ELSE disk[p]
          /\ Seen[p] = IF p \in unvisited \/ newFiles[p] # "none" THEN 0 ELSE disk[p]
    BY DEF Worth, Seen, Tracked
  <1> QED BY <1>1, <1>2, <1>3, <1>4

\* A step at one path changes the sums by that path's change.
LEMMA OnePath ==
  ASSUME SizeShape, SizeShape', NEW p \in Paths,
         \A q \in Paths \ {p} : /\ disk'[q] = disk[q]
                                /\ newFiles'[q] = newFiles[q]
                                /\ q \in unvisited' <=> q \in unvisited
  PROVE  /\ TrueSize' = TrueSize - Worth[p] + Worth'[p]
         /\ SeenSize' = SeenSize - Seen[p] + Seen'[p]
  <1>1. \A q \in Paths \ {p} : Worth'[q] = Worth[q] /\ Seen'[q] = Seen[q]
    BY DEF Worth, Seen, Tracked
  <1>2. /\ \A q \in Paths : Worth[q] \in Int /\ Seen[q] \in Int
        /\ Worth'[p] \in Int /\ Seen'[p] \in Int
    BY PathFacts DEF SizeShape, Worth, Seen
  <1>3. /\ SumFunctionOnSet(Worth', Paths)
             = SumFunctionOnSet(Worth, Paths) - Worth[p] + Worth'[p]
        /\ SumFunctionOnSet(Seen', Paths)
             = SumFunctionOnSet(Seen, Paths) - Seen[p] + Seen'[p]
    BY <1>1, <1>2, PathFacts, SumChange
  <1>4. TrueSize = SumFunctionOnSet(Worth, Paths)
        /\ TrueSize' = SumFunctionOnSet(Worth', Paths)
    BY DEF TrueSize, SumFunction, Worth
  <1> QED BY <1>3, <1>4 DEF SeenSize

\* The sums do not change if the files and what is tracked and visited do not.
LEMMA SamePaths ==
  ASSUME UNCHANGED <<disk, newFiles>>
  PROVE  /\ TrueSize' = TrueSize
         /\ UNCHANGED unvisited => SeenSize' = SeenSize
  BY DEF TrueSize, SeenSize, Seen, Tracked

\* A step at one path keeps the accounting right if the total and the walk's sum
\* follow that path's change, except where a history variable says otherwise.
LEMMA SumsStep ==
  ASSUME SizeShape, SumsInv, SizeShape', Enabled, NEW p \in Paths,
         \A q \in Paths \ {p} : /\ disk'[q] = disk[q]
                                /\ newFiles'[q] = newFiles[q]
                                /\ q \in unvisited' <=> q \in unvisited,
         UNCHANGED limit,
         loop' \in {"walking", "walked"} => loop \in {"walking", "walked"},
         ~TooSmall' => ~TooSmall /\ totalSize' - totalSize >= Worth'[p] - Worth[p],
         "deleted" \notin errors' =>
           "deleted" \notin errors /\ totalSize' - totalSize <= Worth'[p] - Worth[p],
         loop' \in {"walking", "walked"} /\ walkErrors' \cap {"unread", "leaked"} = {} =>
           /\ walkErrors \cap {"unread", "leaked"} = {}
           /\ walked' - walked >= Seen'[p] - Seen[p],
         loop' \in {"walking", "walked"} /\ "deleted" \notin walkErrors' =>
           /\ "deleted" \notin walkErrors
           /\ walked' - walked <= Seen'[p] - Seen[p],
         unsure => unsure',
         \/ unsure'
         \/ Worth'[p] <= Worth[p]
         \/ limit.maxSize > 0 => TrueSize - Worth[p] + Worth'[p] <= limit.maxSize
  PROVE  SumsInv'
  <1>1. /\ TrueSize' = TrueSize - Worth[p] + Worth'[p]
        /\ SeenSize' = SeenSize - Seen[p] + Seen'[p]
    BY OnePath
  <1>2. /\ TrueSize \in Int /\ SeenSize \in Int
        /\ Worth[p] \in Int /\ Seen[p] \in Int
    BY WorthFacts
  <1>3. Worth'[p] \in Int /\ Seen'[p] \in Int
    BY PathFacts DEF SizeShape, Worth, Seen
  <1>4. /\ totalSize \in Int /\ totalSize' \in Int /\ walked \in Int /\ walked' \in Int
        /\ limit.maxSize \in Int
    BY DEF SizeShape
  <1>5. WalkInv'
    BY <1>1, <1>2, <1>3, <1>4 DEF SumsInv, WalkInv
  <1>6. AccountingExact'
    BY <1>1, <1>2, <1>3, <1>4 DEF SumsInv, AccountingExact, Enabled, TooSmall
  <1>7. WithinInv'
    BY <1>1, <1>2, <1>3, <1>4 DEF SumsInv, WithinInv
  <1> QED BY <1>5, <1>6, <1>7 DEF SumsInv

\* Without thresholds there is nothing to account for.
LEMMA SumsDisabled ==
  ASSUME SizeShape', ~Enabled'
  PROVE  SumsInv' /\ WarnedWhenReached'
  <1>1. limit'.maxSize \in Nat /\ limit'.warnSize \in Nat
        /\ ~(limit'.maxSize + limit'.warnSize > 0) /\ loop' = "over"
    BY DEF SizeShape, Enabled
  <1> QED BY <1>1 DEF SumsInv, WalkInv, AccountingExact, WithinInv, WarnedWhenReached

\* Nothing changes if the files and the accounting do not.
LEMMA SumsSame ==
  ASSUME SumsInv, UNCHANGED <<disk, newFiles, limit, totalSize, walked, errors, walkErrors>>,
         unsure => unsure',
         loop' \in {"walking", "walked"} => loop \in {"walking", "walked"} /\ UNCHANGED unvisited
  PROVE  SumsInv'
  <1>1. TrueSize' = TrueSize /\ (UNCHANGED unvisited => SeenSize' = SeenSize)
    BY SamePaths
  <1>2. WalkInv'
    BY <1>1 DEF SumsInv, WalkInv
  <1>3. AccountingExact' /\ WithinInv'
    BY <1>1 DEF SumsInv, AccountingExact, WithinInv, Enabled, TooSmall
  <1> QED BY <1>2, <1>3 DEF SumsInv

-----------------------------------------------------------------------------
(* Every step keeps the accounting.                                        *)

\* A write that has not reserved its size yet waits, or is given up.
LEMMA SizeWaits ==
  ASSUME DLQInv, SizeInv, NEW w \in Writes,
         writer[w] \in {"new", "sent", "waiting", "ready"},
         NEW next \in {"sent", "waiting", "ready", "full", "discarded"}, Goto(w, next),
         UNCHANGED <<limit, attempt, disk, sizeVars, loopVars, errors, walkErrors>>,
         unsure' \in BOOLEAN, unsure => unsure'
  PROVE  SizeInv'
  <1> USE DEF sizeVars, loopVars
  <1>1. SizeShape'
    BY DEF SizeInv, SizeShape, Enabled
  <1>2. \A v \in Writes : /\ Path(v)' = Path(v)
                          /\ writer'[v] \in {"written", "open"} => writer'[v] = writer[v]
                          /\ \A a \in 1..Attempts : Fresh(v, a)' => Fresh(v, a)
    BY DEF Goto, DLQInv, ShapeInv, Path, Fresh
  <1>3. FileInv'
    BY <1>2 DEF SizeInv, FileInv
  <1>4. SumsInv'
    BY SumsSame DEF SizeInv
  <1> QED BY <1>1, <1>3, <1>4 DEF SizeInv, WarnedWhenReached

\* Reserve counts a file that is not there yet, within what is left.
LEMMA SizeReserved ==
  ASSUME DLQInv, SizeInv, NEW w \in Writes, writer[w] = "ready", Enabled,
         Fits(SizeOf[w]), Goto(w, "open"), Reserve(Path(w)),
         UNCHANGED <<limit, attempt, disk, loopVars, errors, walkErrors>>,
         unsure' = (unsure \/ TooSmall)
  PROVE  SizeInv'
  <1> USE DEF loopVars
  <1> DEFINE p == Path(w)
  <1>1. p \in Paths /\ \A v \in Writes : Path(v) = p <=> v = w
    BY PathsDiffer DEF DLQInv
  <1>2. Size(p) \in Nat /\ Size(p) > 0 /\ Size(p) = SizeOf[w]
    BY <1>1, PathFacts DEF Size, Path
  <1>3. disk[p] = 0 /\ newFiles[p] = "none"
    BY DEF SizeInv, FileInv, Fresh, Path, DLQInv, ShapeInv
  <1>4. SizeShape'
    BY <1>2 DEF SizeInv, SizeShape, Enabled, Reserve, WarnIfNeeded
  <1>5. /\ newFiles'[p] = "writing"
        /\ \A q \in Paths \ {p} : newFiles'[q] = newFiles[q]
    BY <1>1 DEF Reserve, DLQInv, ShapeInv
  <1>6. FileInv'
    <2>1. \A v \in Writes : /\ Path(v)' = Path(v)
                            /\ writer'[v] = "written" => writer[v] = "written"
                            /\ writer'[v] = "open" => v = w \/ writer[v] = "open"
                            /\ \A a \in 1..Attempts :
                                 Fresh(v, a)' => Fresh(v, a) /\ <<v, a>> # p
      BY DEF Goto, DLQInv, ShapeInv, Path, Fresh
    <2>2. \A v \in Writes, a \in 1..Attempts : <<v, a>> \in Paths
      BY DEF Paths
    <2> QED BY <1>1, <1>3, <1>5, <2>1, <2>2 DEF SizeInv, FileInv
  <1>7. SumsInv'
    <2>1. Worth[p] = 0 /\ Worth'[p] = Size(p) /\ Seen[p] = 0 /\ Seen'[p] = 0
      BY <1>1, <1>3, <1>5 DEF Worth, Seen, Tracked
    <2>2. totalSize' - totalSize = Size(p) /\ walked' - walked = 0
      BY <1>2 DEF Reserve, SizeInv, SizeShape
    <2>3. ~unsure' /\ limit.maxSize > 0 => TrueSize + Size(p) <= limit.maxSize
      <3>1. ~unsure' => totalSize >= TrueSize
        BY DEF SizeInv, SumsInv, AccountingExact
      <3>2. limit.maxSize > 0 => totalSize + Size(p) <= limit.maxSize
        BY <1>2 DEF Fits, SizeInv, SizeShape
      <3>3. TrueSize \in Int /\ totalSize \in Int /\ limit.maxSize \in Int
        BY WorthFacts DEF SizeInv, SizeShape
      <3> QED BY <1>2, <3>1, <3>2, <3>3
    <2>4. TrueSize - Worth[p] + Worth'[p] = TrueSize + Size(p)
      BY <1>2, <2>1, WorthFacts DEF SizeInv
    <2>5. /\ unsure => unsure'
          /\ \/ unsure'
             \/ limit.maxSize > 0 => TrueSize - Worth[p] + Worth'[p] <= limit.maxSize
      BY <2>3, <2>4
    <2>6. /\ totalSize' - totalSize = Worth'[p] - Worth[p]
          /\ walked' - walked = Seen'[p] - Seen[p]
          /\ Worth'[p] - Worth[p] \in Int /\ Seen'[p] - Seen[p] \in Int
      BY <1>2, <2>1, <2>2
    <2>7. /\ UNCHANGED <<limit, disk, unvisited, loop, errors, walkErrors>>
          /\ TooSmall' <=> TooSmall
      BY DEF TooSmall
    <2>8. SizeShape /\ SumsInv
      BY DEF SizeInv
    <2> HIDE DEF p
    <2> QED BY <1>1, <1>4, <1>5, <2>5, <2>6, <2>7, <2>8, SumsStep
  <1>8. WarnedWhenReached'
    BY <1>2 DEF SizeInv, SizeShape, WarnedWhenReached, Reserve, WarnIfNeeded
  <1> QED BY <1>4, <1>6, <1>7, <1>8 DEF SizeInv

\* A tracked file grows up to its size, which is what it is counted with.
LEMMA SizeWritten ==
  ASSUME DLQInv, SizeInv, NEW w \in Writes, WriteSome(w) \/ WriteAll(w)
  PROVE  SizeInv'
  <1> USE DEF sizeVars, loopVars, histVars, WriteSome, WriteAll
  <1> DEFINE p == Path(w)
  <1>1. p \in Paths /\ \A v \in Writes : Path(v) = p <=> v = w
    BY PathsDiffer DEF DLQInv
  <1>2. Size(p) \in Nat /\ Size(p) > 0 /\ Size(p) = SizeOf[w]
    BY <1>1, PathFacts DEF Size, Path
  <1>3. PICK n \in 0..Size(p) : /\ disk' = [disk EXCEPT ![p] = n]
                                /\ WriteAll(w) => n = Size(p)
    BY <1>2
  <1>4. disk'[p] = n /\ \A q \in Paths \ {p} : disk'[q] = disk[q]
    BY <1>1, <1>3 DEF SizeInv, SizeShape
  <1>5. SizeShape'
    BY <1>1, <1>3 DEF SizeInv, SizeShape, Enabled
  <1>6. FileInv'
    <2>1. \A v \in Writes : /\ Path(v)' = Path(v)
                            /\ writer'[v] = "written" => v = w \/ writer[v] = "written"
                            /\ writer'[v] = "open" => v # w /\ writer[v] = "open"
                            /\ \A a \in 1..Attempts :
                                 Fresh(v, a)' => Fresh(v, a) /\ <<v, a>> # p
      BY DEF Goto, DLQInv, ShapeInv, Path, Fresh
    <2>2. writer'[w] = "written" => n = Size(p)
      BY <1>3 DEF Goto, DLQInv, ShapeInv
    <2>3. newFiles[p] # "done" \/ ~Enabled
      BY <1>1 DEF DLQInv, ExactlyWritesTracked, Writing
    <2>4. newFiles[p] # "done"
      BY <1>1, <2>3 DEF SizeInv, SizeShape, DLQInv, ExactlyWritesTracked
    <2>5. \A v \in Writes, a \in 1..Attempts : <<v, a>> \in Paths
      BY DEF Paths
    <2>6. \A q \in Paths : disk'[q] <= Size(q)
      BY <1>2, <1>4 DEF SizeInv, FileInv
    <2>7. UNCHANGED <<newFiles, errors, walkErrors>>
      OBVIOUS
    <2>8. \A v \in Writes : Path(v) \in Paths
      BY PathsDiffer DEF DLQInv
    <2> HIDE DEF p, WriteSome, WriteAll
    <2>9. \A v \in Writes : /\ writer'[v] = "written" => disk'[Path(v)] = SizeOf[v]
                            /\ writer'[v] = "open" => disk'[Path(v)] = 0
      BY <1>1, <1>2, <1>4, <2>1, <2>2, <2>8 DEF SizeInv, FileInv
    <2>10. \A v \in Writes, a \in 1..Attempts :
             Fresh(v, a)' => disk'[<<v, a>>] = 0 /\ newFiles'[<<v, a>>] = "none"
      BY <1>4, <2>1, <2>5, <2>7 DEF SizeInv, FileInv
    <2>11. \A q \in Paths : newFiles'[q] = "done" =>
             disk'[q] = Size(q) \/ "deleted" \in errors' \cap walkErrors'
      BY <1>4, <2>4, <2>7 DEF SizeInv, FileInv
    <2> QED BY <2>1, <2>6, <2>9, <2>10, <2>11 DEF FileInv
  <1>7. SumsInv' /\ WarnedWhenReached'
    <2>1. CASE ~Enabled
      BY <1>5, <2>1, SumsDisabled DEF Enabled
    <2>2. CASE Enabled
      <3>1. newFiles[p] = "writing"
        BY <1>1, <2>2 DEF DLQInv, ExactlyWritesTracked, Writing
      <3>2. Worth'[p] = Worth[p] /\ Seen'[p] = Seen[p]
        BY <1>1, <3>1 DEF Worth, Seen, Tracked
      <3>3. /\ totalSize' - totalSize = 0 /\ walked' - walked = 0
            /\ Worth'[p] - Worth[p] = 0 /\ Seen'[p] - Seen[p] = 0
            /\ Worth[p] \in Int
        BY <1>1, <3>2, WorthFacts DEF SizeInv, SizeShape
      <3>4. UNCHANGED <<limit, newFiles, unvisited, loop, errors, walkErrors, unsure, totalSize, warned>>
        OBVIOUS
      <3> HIDE DEF p, WriteSome, WriteAll
      <3>5. SumsInv'
        BY <1>1, <1>4, <1>5, <2>2, <3>2, <3>3, <3>4, SumsStep DEF SizeInv, TooSmall
      <3> QED BY <3>4, <3>5 DEF SizeInv, WarnedWhenReached
    <2> QED BY <2>1, <2>2
  <1> QED BY <1>5, <1>6, <1>7 DEF SizeInv

\* What Release does to the file of a write that ends or is tried again.
LEMMA ReleasedPath ==
  ASSUME DLQInv, SizeInv, NEW w \in Writes, Writing(w), NEW written \in BOOLEAN,
         Release(Path(w), written)
  PROVE  /\ Enabled => newFiles[Path(w)] = "writing"
         /\ ~Enabled => newFiles[Path(w)] = "none"
         /\ \A q \in Paths \ {Path(w)} : newFiles'[q] = newFiles[q]
         /\ newFiles'[Path(w)] =
              IF Enabled /\ written /\ measuring THEN "done" ELSE "none"
         /\ totalSize' =
              IF Enabled /\ ~written THEN totalSize - SizeOf[w] ELSE totalSize
         /\ totalSize' \in Int
         /\ UNCHANGED <<measuring, warned>>
         /\ WarnedWhenReached' \/ limit' # limit
  <1>1. Path(w) \in Paths
    BY PathsDiffer DEF DLQInv
  <1>2. Size(Path(w)) = SizeOf[w] /\ SizeOf[w] \in Nat
    BY <1>1, PathFacts DEF Size, Path
  <1>3. Enabled => newFiles[Path(w)] = "writing"
    BY <1>1 DEF DLQInv, ExactlyWritesTracked
  <1>4. ~Enabled => newFiles[Path(w)] = "none"
    <2>1. ~Enabled => ~measuring
      BY DEF SizeInv, SizeShape
    <2> QED BY <1>1, <2>1 DEF DLQInv, ExactlyWritesTracked, ShapeInv
  <1>5. /\ \A q \in Paths \ {Path(w)} : newFiles'[q] = newFiles[q]
        /\ newFiles'[Path(w)] =
             IF Enabled /\ written /\ measuring THEN "done" ELSE "none"
    BY <1>1, <1>3, <1>4 DEF Release, DLQInv, ShapeInv
  <1>6. /\ totalSize' = IF Enabled /\ ~written THEN totalSize - SizeOf[w] ELSE totalSize
        /\ totalSize \in Int /\ totalSize' \in Int
    BY <1>2, <1>3, <1>4 DEF Release, SizeInv, SizeShape
  <1>7. UNCHANGED <<measuring, warned>>
    BY DEF Release
  <1>8. limit' = limit => WarnedWhenReached'
    BY <1>2, <1>6, <1>7 DEF SizeInv, SizeShape, WarnedWhenReached
  <1> QED BY <1>3, <1>4, <1>5, <1>6, <1>7, <1>8

\* The file of a write that ended: all of it, or nothing that is still counted.
LEMMA ReleasedFiles ==
  ASSUME DLQInv, SizeInv, NEW w \in Writes, Writing(w), NEW written \in BOOLEAN,
         Release(Path(w), written),
         NEW next \in {"ready"} \cup Ended, Goto(w, next),
         next = "ready" => attempt[w] < Attempts /\ attempt'[w] = attempt[w] + 1,
         next # "ready" => attempt'[w] = attempt[w],
         \A v \in Writes \ {w} : attempt'[v] = attempt[v],
         \A q \in Paths \ {Path(w)} : disk'[q] = disk[q],
         disk'[Path(w)] \in 0..SizeOf[w],
         written => disk'[Path(w)] = SizeOf[w],
         measuring /\ "deleted" \in errors \cap walkErrors
           => "deleted" \in errors' \cap walkErrors'
  PROVE  FileInv'
  <1> DEFINE p == Path(w)
  <1>1. p \in Paths /\ \A v \in Writes : Path(v) \in Paths /\ (Path(v) = p <=> v = w)
    BY PathsDiffer DEF DLQInv
  <1>2. Size(p) = SizeOf[w] /\ SizeOf[w] \in Nat
    BY <1>1, PathFacts DEF Size, Path
  <1>3. /\ \A q \in Paths \ {p} : newFiles'[q] = newFiles[q]
        /\ newFiles'[p] = "done" => written
    BY ReleasedPath
  <1>4. /\ attempt[w] \in 1..Attempts /\ p = <<w, attempt[w]>>
        /\ \A v \in Writes, a \in 1..Attempts : <<v, a>> \in Paths
    BY DEF DLQInv, ShapeInv, Path, Paths
  <1>5. /\ writer'[w] \notin {"written", "open"}
        /\ \A v \in Writes \ {w} : writer'[v] = writer[v] /\ Path(v)' = Path(v)
    BY DEF Goto, DLQInv, ShapeInv, Ended, Path
  <1>6. \A v \in Writes, a \in 1..Attempts : Fresh(v, a)' => Fresh(v, a) /\ <<v, a>> # p
    <2>1. ASSUME NEW a \in 1..Attempts, Fresh(w, a)' PROVE a > attempt[w]
      <3>1. CASE next = "ready"
        BY <1>4, <2>1, <3>1 DEF Fresh
      <3>2. CASE next # "ready"
        BY <1>4, <2>1, <3>2 DEF Fresh, Goto, DLQInv, ShapeInv, Ended
      <3> QED BY <3>1, <3>2
    <2>2. \A a \in 1..Attempts : Fresh(w, a)' => Fresh(w, a) /\ <<w, a>> # p
      BY <1>4, <2>1 DEF Fresh
    <2>3. \A v \in Writes \ {w}, a \in 1..Attempts :
            Fresh(v, a)' => Fresh(v, a) /\ <<v, a>> # p
      BY <1>4, <1>5 DEF Fresh
    <2> QED BY <2>2, <2>3
  <1> HIDE DEF p
  <1>7. \A q \in Paths : disk'[q] <= Size(q)
    BY <1>1, <1>2 DEF SizeInv, FileInv, p
  <1>8. \A v \in Writes : /\ writer'[v] = "written" => disk'[Path(v)'] = SizeOf[v]
                          /\ writer'[v] = "open" => disk'[Path(v)'] = 0
    BY <1>1, <1>5 DEF SizeInv, FileInv, p
  <1>9. \A v \in Writes, a \in 1..Attempts :
          Fresh(v, a)' => disk'[<<v, a>>] = 0 /\ newFiles'[<<v, a>>] = "none"
    BY <1>3, <1>4, <1>6 DEF SizeInv, FileInv, p
  <1>10. \A q \in Paths : newFiles'[q] = "done" =>
           disk'[q] = Size(q) \/ "deleted" \in errors' \cap walkErrors'
    BY <1>1, <1>2, <1>3 DEF SizeInv, FileInv, DLQInv, ExactlyWritesTracked, p
  <1> QED BY <1>7, <1>8, <1>9, <1>10 DEF FileInv

\* A retry moves on to a new path, or the write fails.
LEMMA RetryNext ==
  ASSUME DLQInv, NEW w \in Writes, Retry(w)
  PROVE  \E next \in {"ready"} \cup Ended :
           /\ Goto(w, next)
           /\ next = "ready" => attempt[w] < Attempts /\ attempt'[w] = attempt[w] + 1
           /\ next # "ready" => attempt'[w] = attempt[w]
           /\ \A v \in Writes \ {w} : attempt'[v] = attempt[v]
  BY DEF Retry, Ended, DLQInv, ShapeInv

\* A failed write gives its size back; a file it could not remove is on record.
LEMMA SizeFailed ==
  ASSUME DLQInv, SizeInv, NEW w \in Writes, OpenFails(w) \/ WriteFails(w)
  PROVE  SizeInv'
  <1> USE DEF loopVars, histVars
  <1> DEFINE p == Path(w)
  <1>1. p \in Paths
    BY PathsDiffer DEF DLQInv
  <1>2. Size(p) = SizeOf[w] /\ SizeOf[w] \in Nat
    BY <1>1, PathFacts DEF Size, Path
  <1>3. Writing(w) /\ Release(p, FALSE) /\ Retry(w)
    BY DEF OpenFails, WriteFails, Writing
  <1>4. /\ \A q \in Paths \ {p} : disk'[q] = disk[q]
        /\ \/ disk'[p] = 0 /\ UNCHANGED <<errors, walkErrors>>
           \/ /\ disk'[p] = disk[p]
              /\ errors' = errors \cup {"leaked"}
              /\ walkErrors' = IF measuring THEN walkErrors \cup {"leaked"} ELSE {}
        /\ disk' \in [Paths -> Nat]
    <2>1. CASE OpenFails(w)
      BY <1>1, <2>1 DEF OpenFails, SizeInv, SizeShape, FileInv
    <2>2. CASE WriteFails(w)
      BY <1>1, <2>2 DEF WriteFails, Meanwhile, SizeInv, SizeShape
    <2> QED BY <2>1, <2>2
  <1>5. UNCHANGED <<limit, loop, unvisited, walked, unsure>>
    BY DEF OpenFails, WriteFails
  <1>6. /\ Enabled => newFiles[p] = "writing"
        /\ newFiles'[p] = "none"
        /\ \A q \in Paths \ {p} : newFiles'[q] = newFiles[q]
        /\ totalSize' = IF Enabled THEN totalSize - SizeOf[w] ELSE totalSize
        /\ totalSize' \in Int
        /\ UNCHANGED <<measuring, warned>>
        /\ WarnedWhenReached'
    BY <1>3, <1>5, ReleasedPath
  <1>7. SizeShape'
    BY <1>4, <1>5, <1>6 DEF SizeInv, SizeShape, Enabled
  <1>8. disk[p] \in 0..SizeOf[w] /\ disk'[p] \in 0..SizeOf[w]
    BY <1>1, <1>2, <1>4 DEF SizeInv, SizeShape, FileInv
  <1>9. FileInv'
    <2>1. PICK next \in {"ready"} \cup Ended :
            /\ Goto(w, next)
            /\ next = "ready" => attempt[w] < Attempts /\ attempt'[w] = attempt[w] + 1
            /\ next # "ready" => attempt'[w] = attempt[w]
            /\ \A v \in Writes \ {w} : attempt'[v] = attempt[v]
      BY <1>3, RetryNext
    <2>2. measuring /\ "deleted" \in errors \cap walkErrors
            => "deleted" \in errors' \cap walkErrors'
      BY <1>4
    <2> QED BY <1>3, <1>4, <1>8, <2>1, <2>2, ReleasedFiles
  <1>10. SumsInv'
    <2>1. CASE ~Enabled
      BY <1>5, <1>7, <2>1, SumsDisabled DEF Enabled
    <2>2. CASE Enabled
      <3>1. /\ Worth[p] = SizeOf[w] /\ Worth'[p] = disk'[p]
            /\ Seen[p] = 0 /\ Seen'[p] = IF p \in unvisited THEN 0 ELSE disk'[p]
        BY <1>1, <1>2, <1>5, <1>6, <2>2 DEF Worth, Seen, Tracked
      <3>2. totalSize' - totalSize = 0 - SizeOf[w] /\ walked' - walked = 0
        BY <1>2, <1>5, <1>6, <2>2 DEF SizeInv, SizeShape
      <3>3. /\ Worth'[p] <= Worth[p]
            /\ totalSize' - totalSize <= Worth'[p] - Worth[p]
            /\ walked' - walked <= Seen'[p] - Seen[p]
            /\ disk'[p] = 0 => /\ totalSize' - totalSize >= Worth'[p] - Worth[p]
                               /\ walked' - walked >= Seen'[p] - Seen[p]
        BY <1>2, <1>8, <3>1, <3>2
      <3>4. loop \in {"walking", "walked"} => measuring
        BY DEF SizeInv, SizeShape
      <3>5. SizeShape /\ SumsInv
        BY DEF SizeInv
      <3>6. ~TooSmall' => ~TooSmall /\ disk'[p] = 0
        BY <1>4 DEF TooSmall
      <3>7. "deleted" \notin errors' => "deleted" \notin errors
        BY <1>4
      <3>8. loop' \in {"walking", "walked"} /\ walkErrors' \cap {"unread", "leaked"} = {} =>
              walkErrors \cap {"unread", "leaked"} = {} /\ disk'[p] = 0
        BY <1>4, <1>5, <3>4
      <3>9. loop' \in {"walking", "walked"} /\ "deleted" \notin walkErrors' =>
              "deleted" \notin walkErrors
        BY <1>4, <1>5, <3>4
      <3> HIDE DEF p
      <3> QED BY <1>1, <1>4, <1>5, <1>6, <1>7, <2>2, <3>3, <3>5, <3>6, <3>7, <3>8, <3>9, SumsStep
    <2> QED BY <2>1, <2>2
  <1> QED BY <1>6, <1>7, <1>9, <1>10 DEF SizeInv

\* A file that was written completely counts with the same size as before.
LEMMA SizeSaved ==
  ASSUME DLQInv, SizeInv, NEW w \in Writes, Saved(w)
  PROVE  SizeInv'
  <1> USE DEF loopVars, histVars
  <1> DEFINE p == Path(w)
  <1>1. p \in Paths
    BY PathsDiffer DEF DLQInv
  <1>2. Size(p) = SizeOf[w] /\ SizeOf[w] \in Nat
    BY <1>1, PathFacts DEF Size, Path
  <1>3. /\ Writing(w) /\ Release(p, TRUE) /\ Goto(w, "saved") /\ disk[p] = SizeOf[w]
        /\ UNCHANGED <<limit, attempt, disk, loop, unvisited, walked, errors, walkErrors, unsure>>
    BY DEF Saved, Writing, SizeInv, FileInv
  <1>4. /\ Enabled => newFiles[p] = "writing"
        /\ newFiles'[p] = IF Enabled /\ measuring THEN "done" ELSE "none"
        /\ \A q \in Paths \ {p} : newFiles'[q] = newFiles[q]
        /\ totalSize' = totalSize
        /\ UNCHANGED <<measuring, warned>>
        /\ WarnedWhenReached'
    BY <1>3, ReleasedPath
  <1>5. SizeShape'
    BY <1>3, <1>4 DEF SizeInv, SizeShape, Enabled
  <1>6. FileInv'
    <2>1. "saved" \in {"ready"} \cup Ended /\ disk'[p] \in 0..SizeOf[w]
      BY <1>2, <1>3 DEF Ended
    <2>2. /\ \A q \in Paths \ {p} : disk'[q] = disk[q]
          /\ disk'[p] = SizeOf[w]
          /\ attempt'[w] = attempt[w] /\ \A v \in Writes \ {w} : attempt'[v] = attempt[v]
          /\ "deleted" \in errors \cap walkErrors => "deleted" \in errors' \cap walkErrors'
      BY <1>3
    <2> QED BY <1>3, <2>1, <2>2, ReleasedFiles
  <1>7. SumsInv'
    <2>1. CASE ~Enabled
      BY <1>3, <1>5, <2>1, SumsDisabled DEF Enabled
    <2>2. CASE Enabled
      <3>1. Worth[p] = SizeOf[w] /\ Worth'[p] = SizeOf[w]
        BY <1>1, <1>2, <1>3, <1>4, <2>2 DEF Worth, Tracked
      <3>2. loop \in {"walking", "walked"} => Seen[p] = 0 /\ Seen'[p] = 0
        <4>1. loop \in {"walking", "walked"} => measuring
          BY DEF SizeInv, SizeShape
        <4> QED BY <1>1, <1>3, <1>4, <2>2, <4>1 DEF Seen, Tracked
      <3>3. /\ totalSize' - totalSize = 0 /\ walked' - walked = 0
            /\ Worth'[p] - Worth[p] = 0 /\ Worth'[p] <= Worth[p]
            /\ loop \in {"walking", "walked"} => Seen'[p] - Seen[p] = 0
        BY <1>2, <1>3, <1>4, <3>1, <3>2 DEF SizeInv, SizeShape
      <3>4. SizeShape /\ SumsInv /\ (TooSmall' <=> TooSmall)
        BY <1>3 DEF SizeInv, TooSmall
      <3> HIDE DEF p
      <3> QED BY <1>1, <1>3, <1>4, <1>5, <2>2, <3>3, <3>4, SumsStep
    <2> QED BY <2>1, <2>2
  <1> QED BY <1>4, <1>5, <1>6, <1>7 DEF SizeInv

\* Whatever a write's goroutine does, the accounting is kept.
LEMMA WriterSize ==
  ASSUME DLQInv, SizeInv, NEW w \in Writes,
         Send(w) \/ SendAfterClose(w) \/ WriterNext(w)
  PROVE  SizeInv'
  <1> USE DEF sizeVars, loopVars, histVars
  <1>0. unsure \in BOOLEAN
    BY DEF SizeInv, SizeShape
  <1>1. CASE Send(w) \/ SendAfterClose(w)
    BY <1>0, <1>1, SizeWaits DEF Send, SendAfterClose
  <1>2. CASE WaitForSize(w)
    <2>1. PICK next \in {"ready", "waiting", "discarded"} : Goto(w, next)
      BY <1>2 DEF WaitForSize
    <2> QED BY <1>0, <1>2, <2>1, SizeWaits DEF WaitForSize
  <1>3. CASE ReserveOrDiscard(w)
    <2>0. unsure' \in BOOLEAN /\ (unsure => unsure')
      BY <1>0, <1>3 DEF ReserveOrDiscard, TooSmall
    <2>1. CASE ~Enabled /\ Goto(w, "open") /\ UNCHANGED sizeVars
      <3>1. /\ UNCHANGED <<limit, attempt, disk, newFiles, loop, measuring, unvisited, walked,
                           totalSize, warned, errors, walkErrors>>
            /\ writer[w] = "ready"
        BY <1>3, <2>1 DEF ReserveOrDiscard
      <3>2. SizeShape' /\ ~Enabled'
        BY <2>0, <2>1, <3>1 DEF SizeInv, SizeShape, Enabled
      <3>3. \A v \in Writes :
              /\ Path(v)' = Path(v)
              /\ writer'[v] = "written" => writer[v] = "written"
              /\ writer'[v] = "open" => writer[v] = "open" \/ Fresh(v, attempt[v])
              /\ \A a \in 1..Attempts : Fresh(v, a)' => Fresh(v, a)
        BY <2>1, <3>1 DEF Goto, DLQInv, ShapeInv, Path, Fresh
      <3>4. \A v \in Writes : attempt[v] \in 1..Attempts /\ Path(v) = <<v, attempt[v]>>
        BY DEF DLQInv, ShapeInv, Path
      <3>5. FileInv'
        BY <3>1, <3>3, <3>4 DEF SizeInv, FileInv
      <3> QED BY <3>2, <3>5, SumsDisabled DEF SizeInv
    <2>2. CASE Enabled /\ Fits(SizeOf[w]) /\ Goto(w, "open") /\ Reserve(Path(w))
      BY <1>3, <2>2, SizeReserved DEF ReserveOrDiscard
    <2>3. CASE Goto(w, "full") /\ UNCHANGED sizeVars
      BY <1>3, <2>0, <2>3, SizeWaits DEF ReserveOrDiscard
    <2> QED BY <1>3, <2>1, <2>2, <2>3 DEF ReserveOrDiscard
  <1>4. CASE OpenFails(w) \/ WriteFails(w)
    BY <1>4, SizeFailed
  <1>5. CASE WriteSome(w) \/ WriteAll(w)
    BY <1>5, SizeWritten
  <1>6. CASE Saved(w)
    BY <1>6, SizeSaved
  <1> QED BY <1>1, <1>2, <1>3, <1>4, <1>5, <1>6 DEF WriterNext

\* A deletion is on record, for the total and for a walk that goes on.
LEMMA SizeDeleted ==
  ASSUME DLQInv, SizeInv, NEW p \in Paths, Deleted(p)
  PROVE  SizeInv'
  <1> USE DEF sizeVars, loopVars, Deleted
  <1>1. /\ UNCHANGED <<limit, writer, attempt, newFiles, totalSize, measuring, warned, loop,
                       unvisited, walked, unsure>>
        /\ errors' = errors \cup {"deleted"}
        /\ walkErrors' = IF measuring THEN walkErrors \cup {"deleted"} ELSE {}
    BY DEF Meanwhile
  <1>2. disk'[p] = 0 /\ disk[p] > 0 /\ \A q \in Paths \ {p} : disk'[q] = disk[q]
    BY DEF SizeInv, SizeShape
  <1>3. SizeShape'
    BY <1>1 DEF SizeInv, SizeShape, Enabled
  <1>4. FileInv'
    <2>1. \A v \in Writes : /\ Path(v)' = Path(v) /\ Path(v) \in Paths
                            /\ writer[v] = "written" => Path(v) # p
                            /\ \A a \in 1..Attempts : <<v, a>> \in Paths
                                                      /\ (Fresh(v, a)' <=> Fresh(v, a))
      BY <1>1, PathsDiffer DEF DLQInv, Path, Fresh, Paths
    <2>2. \A q \in Paths : newFiles[q] = "done" => "deleted" \in errors' \cap walkErrors'
      BY <1>1 DEF DLQInv, ExactlyWritesTracked
    <2>3. \A q \in Paths : disk'[q] <= Size(q)
      BY <1>2, PathFacts DEF SizeInv, FileInv
    <2>4. \A q \in Paths : disk[q] = 0 => disk'[q] = 0
      BY <1>2
    <2> HIDE DEF Deleted
    <2> QED BY <1>1, <1>2, <2>1, <2>2, <2>3, <2>4 DEF SizeInv, FileInv
  <1>5. SumsInv'
    <2>1. CASE ~Enabled
      BY <1>1, <1>3, <2>1, SumsDisabled DEF Enabled
    <2>2. CASE Enabled
      <3>1. /\ totalSize' - totalSize = 0 /\ walked' - walked = 0
            /\ Worth'[p] - Worth[p] <= 0 /\ Worth'[p] <= Worth[p]
            /\ Seen'[p] - Seen[p] <= 0
        <4>1. Worth'[p] \in {Worth[p], 0} /\ Seen'[p] \in {Seen[p], 0}
          BY <1>1, <1>2 DEF Worth, Seen, Tracked
        <4> QED BY <1>1, <4>1, WorthFacts DEF SizeInv, SizeShape
      <3>2. SizeShape /\ SumsInv /\ (~TooSmall' => ~TooSmall)
        BY <1>1 DEF SizeInv, TooSmall
      <3>3. loop \in {"walking", "walked"} => measuring
        BY DEF SizeInv, SizeShape
      <3>4. /\ "deleted" \in errors'
            /\ loop' \in {"walking", "walked"} => "deleted" \in walkErrors'
            /\ loop' \in {"walking", "walked"} /\ walkErrors' \cap {"unread", "leaked"} = {}
                 => walkErrors \cap {"unread", "leaked"} = {}
        BY <1>1, <3>3
      <3> HIDE DEF Deleted
      <3> QED BY <1>1, <1>2, <1>3, <2>2, <3>1, <3>2, <3>4, SumsStep
    <2> QED BY <2>1, <2>2
  <1> QED BY <1>1, <1>3, <1>4, <1>5 DEF SizeInv, WarnedWhenReached

\* Steps that leave the files and their tracking alone.
LEMMA SameFiles ==
  ASSUME SizeInv, UNCHANGED <<writer, attempt, disk, newFiles>>,
         (\A p \in Paths : newFiles[p] # "done")
           \/ ("deleted" \in errors \cap walkErrors => "deleted" \in errors' \cap walkErrors')
  PROVE  FileInv'
  <1>1. \A v \in Writes : Path(v)' = Path(v)
                          /\ \A a \in 1..Attempts : Fresh(v, a)' <=> Fresh(v, a)
    BY DEF Path, Fresh
  <1> QED BY <1>1 DEF SizeInv, FileInv

\* A walk starts from nothing.
LEMMA SizeStarts ==
  ASSUME DLQInv, SizeInv, MeasureStarts
  PROVE  SizeInv'
  <1> USE DEF MeasureStarts
  <1>1. Enabled /\ ~measuring
    BY DEF SizeInv, SizeShape
  <1>2. SizeShape'
    BY <1>1 DEF SizeInv, SizeShape, Enabled
  <1>3. FileInv'
    BY <1>1, SameFiles DEF DLQInv, ExactlyWritesTracked
  <1>4. SeenSize' = 0
    <2>1. \A p \in Paths : Seen'[p] = 0 /\ Seen'[p] \in Int
      BY DEF Seen
    <2>2. SumFunctionOnSet(Seen', Paths) = SumFunctionOnSet(Seen', {})
      BY <2>1, PathFacts, SumSupport
    <2> QED BY <2>2, SumEmpty DEF SeenSize
  <1>5. TrueSize' = TrueSize
    BY SamePaths
  <1>6. SumsInv'
    BY <1>4, <1>5 DEF SizeInv, SumsInv, WalkInv, AccountingExact, WithinInv, Enabled, TooSmall
  <1> QED BY <1>2, <1>3, <1>6 DEF SizeInv, WarnedWhenReached

\* The walk counts the file that it reaches, unless it is tracked, or misses it.
LEMMA SizeVisited ==
  ASSUME DLQInv, SizeInv, NEW p \in Paths, Visit(p) \/ Skip(p)
  PROVE  SizeInv'
  <1> USE DEF sizeVars, histVars
  <1>1. /\ UNCHANGED <<limit, writer, attempt, disk, totalSize, newFiles, measuring, warned, loop,
                       errors, unsure>>
        /\ loop = "walking" /\ p \in unvisited /\ unvisited' = unvisited \ {p}
    BY DEF Visit, Skip
  <1>2. \/ UNCHANGED walkErrors /\ walked' = IF p \in Tracked THEN walked ELSE walked + disk[p]
        \/ UNCHANGED walked /\ walkErrors' = walkErrors \cup {"unread"}
    BY DEF Visit, Skip
  <1>3. SizeShape'
    BY <1>1, <1>2 DEF SizeInv, SizeShape, Enabled
  <1>4. FileInv'
    BY <1>1, <1>2, SameFiles
  <1>5. Enabled
    BY <1>1 DEF SizeInv, SizeShape
  <1>6. Worth' = Worth /\ Seen[p] = 0 /\ Seen'[p] = IF p \in Tracked THEN 0 ELSE disk[p]
    BY <1>1 DEF Worth, Seen, Tracked
  <1>7. /\ totalSize' - totalSize = 0 /\ Worth'[p] - Worth[p] = 0 /\ Worth'[p] <= Worth[p]
        /\ walked' - walked <= Seen'[p] - Seen[p]
        /\ "unread" \notin walkErrors' => walked' - walked = Seen'[p] - Seen[p]
        /\ Seen'[p] - Seen[p] \in Int
    <2>1. /\ Worth[p] \in Nat /\ Worth'[p] = Worth[p]
          /\ disk[p] \in Nat /\ totalSize \in Int /\ walked \in Int
      BY <1>6, WorthFacts DEF SizeInv, SizeShape
    <2>2. "unread" \notin walkErrors' =>
            walked' = IF p \in Tracked THEN walked ELSE walked + disk[p]
      BY <1>2
    <2> QED BY <1>1, <1>2, <1>6, <2>1, <2>2
  <1>8. SizeShape /\ SumsInv /\ (TooSmall' <=> TooSmall)
    BY <1>1 DEF SizeInv, TooSmall
  <1>9. /\ walkErrors' \cap {"unread", "leaked"} = {} =>
             walkErrors \cap {"unread", "leaked"} = {} /\ "unread" \notin walkErrors'
        /\ "deleted" \notin walkErrors' => "deleted" \notin walkErrors
    BY <1>2
  <1>10. \A q \in Paths \ {p} : q \in unvisited' <=> q \in unvisited
    BY <1>1
  <1>11. SumsInv'
    BY <1>1, <1>3, <1>5, <1>7, <1>8, <1>9, <1>10, SumsStep
  <1> QED BY <1>1, <1>3, <1>4, <1>11 DEF SizeInv, WarnedWhenReached

\* A complete walk and the tracked files make up the new total.
LEMMA MeasuredSum ==
  ASSUME SizeShape, unvisited = {}
  PROVE  /\ SumFunctionOnSet([p \in Paths |-> Size(p)], Tracked) \in Int
         /\ TrueSize = SeenSize + SumFunctionOnSet([p \in Paths |-> Size(p)], Tracked)
  <1> DEFINE sizes == [p \in Paths |-> Size(p)]
             part == [p \in Paths |-> IF p \in Tracked THEN Size(p) ELSE 0]
  <1>1. Tracked \in SUBSET Paths /\ IsFiniteSet(Tracked) /\ IsFiniteSet(Paths)
    BY PathFacts, FS_Subset DEF Tracked
  <1>2. /\ \A p \in Paths : /\ part[p] \in Int /\ Seen[p] \in Int
                            /\ Worth[p] = Seen[p] + part[p]
        /\ \A p \in Paths \ Tracked : part[p] = 0
        /\ \A p \in Tracked : sizes[p] = part[p] /\ sizes[p] \in Int
    <2>1. Tracked \subseteq Paths
      BY <1>1
    <2> QED BY <2>1, PathFacts DEF SizeShape, Seen, Worth
  <1> HIDE DEF sizes, part
  <1>3. SumFunctionOnSet(sizes, Tracked) = SumFunctionOnSet(part, Tracked)
    BY <1>1, <1>2, SumSame
  <1>4. SumFunctionOnSet(part, Paths) = SumFunctionOnSet(part, Tracked)
    BY <1>1, <1>2, SumSupport
  <1>5. SumFunctionOnSet(Worth, Paths)
          = SumFunctionOnSet(Seen, Paths) + SumFunctionOnSet(part, Paths)
    BY <1>1, <1>2, SumPlus
  <1>6. SumFunctionOnSet(sizes, Tracked) \in Int
    BY <1>1, <1>2, SumType
  <1> QED BY <1>3, <1>4, <1>5, <1>6, WorthFacts DEF SeenSize, sizes

\* Files that ended meanwhile count as they are on disk after a measurement.
LEMMA ForgottenWorth ==
  ASSUME SizeInv, SizeShape', UNCHANGED disk,
         newFiles' = [p \in Paths |-> IF newFiles[p] = "done" THEN "none" ELSE newFiles[p]]
  PROVE  /\ TrueSize' <= TrueSize
         /\ "deleted" \notin errors \cap walkErrors => TrueSize' = TrueSize
         /\ TrueSize' \in Int
  <1>1. \A p \in Paths : /\ Worth[p] \in Int /\ Worth'[p] \in Int
                         /\ Worth'[p] <= Worth[p]
                         /\ "deleted" \notin errors \cap walkErrors => Worth'[p] = Worth[p]
    <2> SUFFICES ASSUME NEW p \in Paths
                 PROVE  /\ Worth[p] \in Int /\ Worth'[p] \in Int
                        /\ Worth'[p] <= Worth[p]
                        /\ "deleted" \notin errors \cap walkErrors => Worth'[p] = Worth[p]
      OBVIOUS
    <2>1. /\ disk[p] \in Nat /\ Size(p) \in Nat /\ disk[p] <= Size(p)
          /\ newFiles[p] = "done" => disk[p] = Size(p) \/ "deleted" \in errors \cap walkErrors
      BY PathFacts DEF SizeInv, SizeShape, FileInv
    <2>2. /\ Worth[p] = IF newFiles[p] # "none" THEN Size(p) ELSE disk[p]
          /\ Worth'[p] = IF newFiles'[p] # "none" THEN Size(p) ELSE disk[p]
      BY DEF Worth, Tracked
    <2>3. newFiles'[p] = IF newFiles[p] = "done" THEN "none" ELSE newFiles[p]
      OBVIOUS
    <2> QED BY <2>1, <2>2, <2>3
  <1>2. SumFunctionOnSet(Worth', Paths) <= SumFunctionOnSet(Worth, Paths)
    BY <1>1, PathFacts, SumMonotone
  <1>3. "deleted" \notin errors \cap walkErrors =>
          SumFunctionOnSet(Worth', Paths) = SumFunctionOnSet(Worth, Paths)
    BY <1>1, PathFacts, SumSame
  <1>4. TrueSize = SumFunctionOnSet(Worth, Paths)
        /\ TrueSize' = SumFunctionOnSet(Worth', Paths)
    BY DEF TrueSize, SumFunction, Worth
  <1>5. SumFunctionOnSet(Worth', Paths) \in Int
    BY <1>1, PathFacts, SumType
  <1> QED BY <1>2, <1>3, <1>4, <1>5

\* A measurement that succeeds corrects the total; one that fails leaves it.
LEMMA SizeMeasured ==
  ASSUME DLQInv, SizeInv, MeasureEnds
  PROVE  SizeInv'
  <1> DEFINE ok == loop = "walked"
             tracked == SumFunctionOnSet([p \in Paths |-> Size(p)], Tracked)
  <1>1. /\ UNCHANGED <<limit, writer, attempt, disk, unvisited, unsure>>
        /\ loop \in {"walked", "failed", "interrupted"}
        /\ loop' \in {"idle", "release", "over"}
        /\ ~measuring' /\ walked' = 0 /\ walkErrors' = {}
        /\ newFiles' = [p \in Paths |-> IF newFiles[p] = "done" THEN "none" ELSE newFiles[p]]
        /\ totalSize' = IF ok THEN walked + tracked ELSE totalSize
        /\ errors' = IF ok THEN walkErrors ELSE errors
    BY DEF MeasureEnds, Measured
  <1>2. warned' = IF ok THEN limit.warnSize > 0 /\ walked + tracked >= limit.warnSize
                  ELSE warned
    BY DEF MeasureEnds, Measured
  <1>3. Enabled /\ SizeShape
    BY <1>1 DEF SizeInv, SizeShape
  <1>4. /\ ok => unvisited = {}
        /\ walked \in Int /\ totalSize \in Int /\ warned \in BOOLEAN
        /\ limit.warnSize \in Nat /\ limit.maxSize \in Nat
    BY DEF SizeInv, SizeShape
  <1>5. ok => tracked \in Int /\ TrueSize = SeenSize + tracked
    BY <1>3, <1>4, MeasuredSum
  <1> HIDE DEF tracked
  <1>6. SizeShape'
    <2>1. totalSize' \in Int
      BY <1>1, <1>4, <1>5
    <2>2. warned' \in BOOLEAN
      BY <1>2, <1>4
    <2>3. Enabled'
      BY <1>1, <1>3 DEF Enabled
    <2> QED BY <1>1, <1>3, <2>1, <2>2, <2>3 DEF SizeShape
  <1>7. FileInv'
    <2>1. \A v \in Writes : Path(v)' = Path(v)
                            /\ \A a \in 1..Attempts : Fresh(v, a)' <=> Fresh(v, a)
      BY <1>1 DEF Path, Fresh
    <2>2. \A p \in Paths : newFiles'[p] # "done" /\ (newFiles[p] = "none" => newFiles'[p] = "none")
      BY <1>1
    <2>3. \A v \in Writes, a \in 1..Attempts : <<v, a>> \in Paths
      BY DEF Paths
    <2>4. \A v \in Writes, a \in 1..Attempts :
            Fresh(v, a)' => disk'[<<v, a>>] = 0 /\ newFiles'[<<v, a>>] = "none"
      BY <1>1, <2>1, <2>2, <2>3 DEF SizeInv, FileInv
    <2> QED BY <1>1, <2>1, <2>2, <2>4 DEF SizeInv, FileInv
  <1>8. /\ TrueSize' <= TrueSize
        /\ "deleted" \notin errors \cap walkErrors => TrueSize' = TrueSize
        /\ TrueSize \in Int /\ SeenSize \in Int /\ TrueSize' \in Int
    BY <1>1, <1>3, <1>6, ForgottenWorth, WorthFacts
  <1>9. AccountingExact'
    <2>1. CASE ok
      <3>1. /\ walkErrors \cap {"unread", "leaked"} = {} => walked >= SeenSize
            /\ "deleted" \notin walkErrors => walked <= SeenSize
        BY <2>1 DEF SizeInv, SumsInv, WalkInv
      <3>2. totalSize' = walked + tracked /\ errors' = walkErrors
        BY <1>1, <2>1
      <3>3. ~TooSmall' => totalSize' >= TrueSize'
        BY <1>4, <1>5, <1>8, <2>1, <3>1, <3>2 DEF TooSmall
      <3>4. "deleted" \notin errors' => totalSize' <= TrueSize'
        BY <1>4, <1>5, <1>8, <2>1, <3>1, <3>2
      <3> QED BY <3>3, <3>4 DEF AccountingExact
    <2>2. CASE ~ok
      <3>1. totalSize' = totalSize /\ errors' = errors
        BY <1>1, <2>2
      <3>2. /\ ~TooSmall => totalSize >= TrueSize
            /\ "deleted" \notin errors => totalSize <= TrueSize
        BY <1>3 DEF SizeInv, SumsInv, AccountingExact
      <3>3. ~TooSmall' => totalSize' >= TrueSize'
        BY <1>4, <1>8, <3>1, <3>2 DEF TooSmall
      <3>4. "deleted" \notin errors' => totalSize' <= TrueSize'
        BY <1>4, <1>8, <3>1, <3>2
      <3> QED BY <3>3, <3>4 DEF AccountingExact
    <2> QED BY <2>1, <2>2
  <1>10. WalkInv'
    BY <1>1 DEF WalkInv
  <1>11. WithinInv'
    BY <1>1, <1>4, <1>8 DEF SizeInv, SumsInv, WithinInv
  <1>12. WarnedWhenReached'
    <2>1. CASE ok
      BY <1>1, <1>2, <2>1 DEF WarnedWhenReached
    <2>2. CASE ~ok
      BY <1>1, <1>2, <2>2 DEF SizeInv, WarnedWhenReached
    <2> QED BY <2>1, <2>2
  <1> QED BY <1>6, <1>7, <1>9, <1>10, <1>11, <1>12 DEF SizeInv, SumsInv

\* Steps of the loop between measurements, of Close, and of nobody.
LEMMA SizeElsewhere ==
  ASSUME SizeInv,
         UNCHANGED <<limit, writer, attempt, disk, totalSize, newFiles, measuring, warned,
                     walked, errors, walkErrors, unsure>>,
         \/ UNCHANGED <<loop, unvisited>>
         \/ WalkEnds
         \/ UNCHANGED unvisited /\ {loop, loop'} \subseteq {"release", "idle", "over"} /\ Enabled
  PROVE  SizeInv'
  <1>1. SizeShape'
    BY DEF SizeInv, SizeShape, WalkEnds, Enabled
  <1>2. FileInv'
    BY SameFiles
  <1>3. loop' \in {"walking", "walked"} => loop \in {"walking", "walked"} /\ UNCHANGED unvisited
    BY DEF WalkEnds
  <1>4. SumsInv'
    BY <1>3, SumsSame DEF SizeInv
  <1> QED BY <1>1, <1>2, <1>4 DEF SizeInv, WarnedWhenReached

\* Every step keeps the size accounting.
LEMMA SizeStep == DLQInv /\ SizeInv /\ [Next]_vars => SizeInv'
  <1> SUFFICES ASSUME DLQInv, SizeInv, [Next]_vars PROVE SizeInv'
    OBVIOUS
  <1> USE DEF sizeVars, loopVars, histVars
  <1>1. CASE \E w \in Writes : Send(w) \/ SendAfterClose(w) \/ WriterNext(w)
    BY <1>1, WriterSize
  <1>2. CASE LoopNext
    <2>1. CASE MeasureStarts
      BY <2>1, SizeStarts
    <2>2. CASE WalkEnds
      BY <2>2, SizeElsewhere DEF WalkEnds
    <2>3. CASE MeasureEnds
      BY <2>3, SizeMeasured
    <2>4. CASE ReleaseWrites \/ LoopEnds
      <3>1. Enabled
        BY <2>4 DEF ReleaseWrites, LoopEnds, SizeInv, SizeShape
      <3> QED BY <2>4, <3>1, SizeElsewhere DEF ReleaseWrites, LoopEnds
    <2>5. CASE \E p \in Paths : Visit(p) \/ Skip(p)
      BY <2>5, SizeVisited
    <2> QED BY <1>2, <2>1, <2>2, <2>3, <2>4, <2>5 DEF LoopNext
  <1>3. CASE CloseNext
    BY <1>3, SizeElsewhere DEF CloseNext, CloseCalled, CloseBegins, RootCloses, CloseReturns, dlqVars
  <1>4. CASE \E p \in Paths : Deleted(p)
    BY <1>4, SizeDeleted
  <1>5. CASE UNCHANGED vars
    BY <1>5, SizeElsewhere DEF vars, dlqVars
  <1> QED BY <1>1, <1>2, <1>3, <1>4, <1>5 DEF Next

-----------------------------------------------------------------------------
(* At startup.                                                             *)

\* The existing files are worth the sum of their sizes.
LEMMA ExistingSum ==
  ASSUME NEW f, \A p \in Paths : f[p] = IF p[2] = 0 THEN Size(p) ELSE 0
  PROVE  SumFunctionOnSet(f, Paths) = SumFunction([x \in Existing |-> SizeOf[x]])
  <1> DEFINE sizes == [x \in Existing |-> SizeOf[x]]
             name == [x \in Existing |-> <<x, 0>>]
             old == {name[x] : x \in Existing}
  <1>1. /\ IsFiniteSet(Existing)
        /\ \A x \in Existing : sizes[x] \in Int
    BY DLQAssumption DEF DLQAssumption
  <1>2. \A p \in Paths : f[p] \in Int
    BY PathFacts
  <1>3. /\ old \in SUBSET Paths
        /\ \A p \in Paths \ old : f[p] = 0
        /\ \A x \in Existing : f[name[x]] = sizes[x]
        /\ \A x, y \in Existing : name[x] = name[y] => x = y
    BY DEF Paths, Size
  <1>4. SumFunction(sizes) = SumFunctionOnSet(sizes, Existing)
    BY DEF SumFunction
  <1> HIDE DEF name, sizes
  <1>5. SumFunctionOnSet(f, old) = SumFunctionOnSet(sizes, Existing)
    BY <1>1, <1>3, SumReindex
  <1> HIDE DEF old
  <1>6. SumFunctionOnSet(f, Paths) = SumFunctionOnSet(f, old)
    BY <1>2, <1>3, PathFacts, SumSupport
  <1> QED BY <1>4, <1>5, <1>6 DEF sizes

\* Nothing is counted at startup, and existing files are on record as unread.
LEMMA SizeInit == Init => SizeInv
  <1> SUFFICES ASSUME Init PROVE SizeInv
    OBVIOUS
  <1> USE DEF Init
  <1>1. /\ limit \in [maxSize : Nat, warnSize : Nat]
        /\ disk \in [Paths -> Nat]
        /\ \A p \in Paths : disk[p] = IF p[2] = 0 THEN Size(p) ELSE 0
        /\ \A p \in Paths : newFiles[p] = "none"
    BY DLQAssumption, PathFacts DEF DLQAssumption
  <1>2. SizeShape
    <2>1. loop \in {"start", "over"} /\ (~Enabled => loop = "over")
      BY DEF Enabled
    <2>2. /\ ~measuring /\ unsure \in BOOLEAN /\ warned \in BOOLEAN
          /\ totalSize = 0 /\ walked = 0 /\ unvisited = {}
      OBVIOUS
    <2> HIDE DEF Init
    <2> QED BY <1>1, <2>1, <2>2 DEF SizeShape
  <1>3. FileInv
    <2>1. \A v \in Writes, a \in 1..Attempts : <<v, a>> \in Paths /\ a # 0
      BY DLQAssumption DEF Paths, DLQAssumption
    <2>2. \A v \in Writes, a \in 1..Attempts : disk[<<v, a>>] = 0 /\ newFiles[<<v, a>>] = "none"
      BY <1>1, <2>1
    <2> QED BY <1>1, <2>2, PathFacts DEF FileInv
  <1>4. \A p \in Paths : Worth[p] = IF p[2] = 0 THEN Size(p) ELSE 0
    BY <1>1 DEF Worth, Tracked
  <1>5. TrueSize = SumFunction([x \in Existing |-> SizeOf[x]])
    BY <1>2, <1>4, ExistingSum, WorthFacts
  <1>6. TrueSize \in Nat
    <2>1. \A p \in Paths : Worth[p] \in Nat
      BY <1>2, WorthFacts
    <2> QED BY <1>2, <2>1, PathFacts, SumType, WorthFacts
  <1>7. Existing = {} => TrueSize = 0
    <2>1. ASSUME Existing = {} PROVE TrueSize = 0
      <3>1. DOMAIN [x \in Existing |-> SizeOf[x]] = {}
        BY <2>1
      <3> QED BY <1>5, <3>1, SumEmpty DEF SumFunction
    <2> QED BY <2>1
  <1>8. AccountingExact
    BY <1>6, <1>7 DEF AccountingExact, TooSmall
  <1>9. WithinInv
    BY <1>5 DEF WithinInv
  <1>10. WalkInv
    BY DEF WalkInv
  <1>11. WarnedWhenReached
    BY <1>1 DEF WarnedWhenReached
  <1> QED BY <1>2, <1>3, <1>8, <1>9, <1>10, <1>11 DEF SizeInv, SumsInv

-----------------------------------------------------------------------------
(* The properties of the runs, for every instance.                         *)

\* The inductive invariant of the size accounting.
THEOREM SizeInvariance == Spec => []SizeInv
  BY SizeInit, SizeStep, Invariance, PTL DEF Spec

\* For every instance, and any interleaving of writes, failures, walks and
\* deletions, totalSize counts every file exactly once by its full size, up to the
\* deletions and the unmeasured files since the walk that it is based on.
THEOREM AccountingIsExact == Spec => []AccountingExact
  <1>1. SizeInv => AccountingExact
    BY DEF SizeInv, SumsInv
  <1> QED BY <1>1, SizeInvariance, PTL

\* For every instance, the files on disk, partial ones included, never exceed
\* maxSize unless they did at startup or a total that misses files was relied on.
THEOREM DiskStaysWithinMax == Spec => []DiskWithinMax
  <1>1. SizeInv => DiskWithinMax
    <2> SUFFICES ASSUME SizeInv, limit.maxSize > 0, ~unsure,
                        SumFunction([x \in Existing |-> SizeOf[x]]) <= limit.maxSize
                 PROVE  DiskSize <= limit.maxSize
      BY DEF DiskWithinMax
    <2>1. TrueSize <= limit.maxSize /\ TrueSize \in Int /\ limit.maxSize \in Int
      BY WorthFacts DEF SizeInv, SizeShape, SumsInv, WithinInv
    <2>2. \A p \in Paths : disk[p] \in Int /\ Worth[p] \in Int /\ disk[p] <= Worth[p]
      BY PathFacts DEF SizeInv, SizeShape, FileInv, Worth
    <2>3. SumFunctionOnSet(disk, Paths) <= SumFunctionOnSet(Worth, Paths)
      BY <2>2, PathFacts, SumMonotone
    <2>4. DiskSize = SumFunctionOnSet(disk, Paths) /\ DiskSize \in Int
      BY <2>2, PathFacts, SumType DEF DiskSize, SumFunction, SizeInv, SizeShape
    <2> QED BY <2>1, <2>3, <2>4, WorthFacts DEF SizeInv
  <1> QED BY <1>1, SizeInvariance, PTL

\* For every instance, the warning latch is never behind the accounted size.
THEOREM WarnsInTime == Spec => []WarnedWhenReached
  <1>1. SizeInv => WarnedWhenReached
    BY DEF SizeInv
  <1> QED BY <1>1, SizeInvariance, PTL
=============================================================================
