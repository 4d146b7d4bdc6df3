--------------------------- MODULE PipelineProofs ---------------------------
(***************************************************************************)
(* Proofs about Pipeline, for any collectors, receivers, senders and       *)
(* chunks: the type invariant, the order in which the parts close, and     *)
(* that a chunk is lost only if a part on its way gave up on it; and that  *)
(* this holds for any parts that keep their promises (Assembly).  Then     *)
(* about the smaller parts: Stdout, the sender that is no instance of      *)
(* State, is silent after its Close; the intervals of Backoff follow their *)
(* policy; and the search of Cron passes over no match.                    *)
(***************************************************************************)
EXTENDS Assembly, Stdout, Backoff, Cron, Sums, FiniteSetTheorems, TLAPS

Stopped == {"idle", "failed", "closed"}

ClosingSenders == {"closeSenders", "closeDLQ", "exit"}

\* What main knows about the collectors and the receivers: those that are not in its
\* lists have not started or have been closed, so waiting for the lists is enough.
SourcesKnown ==
  /\ main = "initCollectors" => \A r \in Receivers : source[r] = "idle"
  /\ main # "initCollectors" =>
       \A c \in Collectors : /\ source[c] # "starting"
                             /\ c \notin collectors => source[c] \in {"idle", "failed"}
  /\ main = "waitForInterrupt" => receivers = Receivers
  /\ main \in ClosingSenders \cup {"awaitSources"} =>
       \A r \in Receivers \ receivers : source[r] \in Stopped
  /\ main \in ClosingSenders => \A s \in Sources : source[s] \in Stopped
  /\ \A s \in Sources : s \in overdue => source[s] = "closed"

\* How far main has come with the senders.
SendersKnown ==
  /\ main \notin ClosingSenders => \A s \in Senders \cup {DLQ} : sender[s] = "open"
  /\ main = "closeSenders" => sender[DLQ] = "open"
  /\ main \in {"closeDLQ", "exit"} => \A s \in Senders : sender[s] = "closed"
  /\ main = "exit" => sender[DLQ] = "closed"
  /\ \A s \in Senders \cup {DLQ} : s \in overdue => sender[s] = "closed"

\* Work in progress belongs to a part that has not closed, or gave up on it.
WorkKnown ==
  \A x \in Chunks :
    /\ chunk[x] = "hand" => \/ source[Origin[x]] \in {"open", "closing"}
                            \/ source[Origin[x]] = "closed" /\ Origin[x] \in overdue
    /\ chunk[x] = "sender" => /\ Target[x] # DLQ
                              /\ sender[Target[x]] = "closed" => Target[x] \in overdue
    /\ chunk[x] = "dlq" => (sender[DLQ] = "closed" => DLQ \in overdue)
    /\ chunk[x] = "lost" => {Origin[x], Target[x]} \cap (overdue \ {DLQ}) # {}

IInv == TypeOK /\ SourcesKnown /\ SendersKnown /\ WorkKnown

-----------------------------------------------------------------------------
\* Every variable keeps its type.
LEMMA TypeStep == TypeOK /\ [Next]_vars => TypeOK'
<1> SUFFICES ASSUME TypeOK, [Next]_vars PROVE TypeOK'
  OBVIOUS
<1> USE PipelineAssumption DEF TypeOK, Mains, Phases, Places, Sources, mainVars
<1>1. CASE StartupNext
  <2>1. CASE CollectorsInvalid
    BY <2>1 DEF CollectorsInvalid, Abort
  <2>2. CASE CollectorsStarted
    BY <2>2 DEF CollectorsStarted, Abort
  <2>3. CASE ReceiversInvalid \/ ReceiversClosed
    BY <2>3 DEF ReceiversInvalid, ReceiversClosed, Abort
  <2>4. CASE ReceiversStarted
    BY <2>4 DEF ReceiversStarted
  <2>5. ASSUME NEW c \in Collectors, StartCollector(c) \/ CollectorStarts(c) PROVE TypeOK'
    BY <2>5 DEF StartCollector, CollectorStarts
  <2>6. ASSUME NEW r \in Receivers, StartReceiver(r) \/ CloseStartedReceiver(r) PROVE TypeOK'
    BY <2>6 DEF StartReceiver, CloseStartedReceiver
  <2> QED BY <1>1, <2>1, <2>2, <2>3, <2>4, <2>5, <2>6 DEF StartupNext
<1>2. CASE Interrupt
  BY <1>2 DEF Interrupt, Abort
<1>3. CASE ShutdownNext
  <2>1. CASE SourcesAwaited \/ CloseDLQ \/ Exit
    BY <2>1 DEF SourcesAwaited, CloseDLQ, Exit
  <2>2. ASSUME NEW r \in Receivers, CloseReceiver(r) PROVE TypeOK'
    BY <2>2 DEF CloseReceiver
  <2>3. ASSUME NEW s \in Senders, CloseSender(s) PROVE TypeOK'
    BY <2>3 DEF CloseSender
  <2> QED BY <1>3, <2>1, <2>2, <2>3 DEF ShutdownNext
<1>4. ASSUME NEW c \in Collectors, CollectorCloses(c) PROVE TypeOK'
  BY <1>4 DEF CollectorCloses
<1>5. ASSUME NEW s \in Sources, SourceClosed(s) PROVE TypeOK'
  BY <1>5 DEF SourceClosed
<1>6. ASSUME NEW s \in Senders \cup {DLQ}, SenderClosed(s) PROVE TypeOK'
  BY <1>6 DEF SenderClosed
<1>7. ASSUME NEW x \in Chunks, ChunkNext(x) PROVE TypeOK'
  BY <1>7 DEF ChunkNext, Take, Fail, Send, Deliver, Reject, Write, Move, DeadLetter
<1>8. CASE UNCHANGED vars
  BY <1>8 DEF vars
<1> QED BY <1>1, <1>2, <1>3, <1>4, <1>5, <1>6, <1>7, <1>8 DEF Next

\* main waits for every source that is running.
LEMMA SourcesStep == IInv /\ [Next]_vars => SourcesKnown'
<1> SUFFICES ASSUME IInv, [Next]_vars PROVE SourcesKnown'
  OBVIOUS
<1> USE PipelineAssumption DEF IInv, TypeOK, Mains, Phases, Places, Sources, mainVars,
                               SourcesKnown, Stopped, ClosingSenders
<1>1. CASE StartupNext
  <2>1. CASE CollectorsInvalid
    BY <2>1 DEF CollectorsInvalid, Abort
  <2>2. CASE CollectorsStarted
    BY <2>2 DEF CollectorsStarted, Abort
  <2>3. CASE ReceiversInvalid
    BY <2>3 DEF ReceiversInvalid, Abort
  <2>4. CASE ReceiversClosed
    BY <2>4 DEF ReceiversClosed, Abort
  <2>5. CASE ReceiversStarted
    BY <2>5 DEF ReceiversStarted
  <2>6. ASSUME NEW c \in Collectors, StartCollector(c) PROVE SourcesKnown'
    BY <2>6 DEF StartCollector
  <2>7. ASSUME NEW c \in Collectors, CollectorStarts(c) PROVE SourcesKnown'
    BY <2>7 DEF CollectorStarts
  <2>8. ASSUME NEW r \in Receivers, StartReceiver(r) PROVE SourcesKnown'
    BY <2>8 DEF StartReceiver
  <2>9. ASSUME NEW r \in Receivers, CloseStartedReceiver(r) PROVE SourcesKnown'
    BY <2>9 DEF CloseStartedReceiver
  <2> QED BY <1>1, <2>1, <2>2, <2>3, <2>4, <2>5, <2>6, <2>7, <2>8, <2>9 DEF StartupNext
<1>2. CASE Interrupt
  BY <1>2 DEF Interrupt, Abort
<1>3. CASE ShutdownNext
  <2>1. CASE SourcesAwaited
    BY <2>1 DEF SourcesAwaited
  <2>2. CASE CloseDLQ
    BY <2>2 DEF CloseDLQ
  <2>3. CASE Exit
    BY <2>3 DEF Exit
  <2>4. ASSUME NEW r \in Receivers, CloseReceiver(r) PROVE SourcesKnown'
    BY <2>4 DEF CloseReceiver
  <2>5. ASSUME NEW s \in Senders, CloseSender(s) PROVE SourcesKnown'
    BY <2>5 DEF CloseSender
  <2> QED BY <1>3, <2>1, <2>2, <2>3, <2>4, <2>5 DEF ShutdownNext
<1>4. ASSUME NEW c \in Collectors, CollectorCloses(c) PROVE SourcesKnown'
  BY <1>4 DEF CollectorCloses
<1>5. ASSUME NEW s \in Sources, SourceClosed(s) PROVE SourcesKnown'
  BY <1>5 DEF SourceClosed, InHand
<1>6. ASSUME NEW s \in Senders \cup {DLQ}, SenderClosed(s) PROVE SourcesKnown'
  BY <1>6 DEF SenderClosed, Inside
<1>7. ASSUME NEW x \in Chunks, ChunkNext(x) PROVE SourcesKnown'
  BY <1>7 DEF ChunkNext, Take, Fail, Send, Deliver, Reject, Write, Move, DeadLetter
<1>8. CASE UNCHANGED vars
  BY <1>8 DEF vars
<1> QED BY <1>1, <1>2, <1>3, <1>4, <1>5, <1>6, <1>7, <1>8 DEF Next

\* The senders close one stage after the other.
LEMMA SendersStep == IInv /\ [Next]_vars => SendersKnown'
<1> SUFFICES ASSUME IInv, [Next]_vars PROVE SendersKnown'
  OBVIOUS
<1> USE PipelineAssumption DEF IInv, TypeOK, Mains, Phases, Places, Sources, mainVars,
                               SendersKnown, ClosingSenders, Running
<1>1. CASE StartupNext
  <2>1. CASE CollectorsInvalid
    BY <2>1 DEF CollectorsInvalid, Abort
  <2>2. CASE CollectorsStarted
    BY <2>2 DEF CollectorsStarted, Abort
  <2>3. CASE ReceiversInvalid
    BY <2>3 DEF ReceiversInvalid, Abort
  <2>4. CASE ReceiversClosed
    BY <2>4 DEF ReceiversClosed, Abort
  <2>5. CASE ReceiversStarted
    BY <2>5 DEF ReceiversStarted
  <2>6. ASSUME NEW c \in Collectors, StartCollector(c) PROVE SendersKnown'
    BY <2>6 DEF StartCollector
  <2>7. ASSUME NEW c \in Collectors, CollectorStarts(c) PROVE SendersKnown'
    BY <2>7 DEF CollectorStarts
  <2>8. ASSUME NEW r \in Receivers, StartReceiver(r) PROVE SendersKnown'
    BY <2>8 DEF StartReceiver
  <2>9. ASSUME NEW r \in Receivers, CloseStartedReceiver(r) PROVE SendersKnown'
    BY <2>9 DEF CloseStartedReceiver
  <2> QED BY <1>1, <2>1, <2>2, <2>3, <2>4, <2>5, <2>6, <2>7, <2>8, <2>9 DEF StartupNext
<1>2. CASE Interrupt
  BY <1>2 DEF Interrupt, Abort
<1>3. CASE ShutdownNext
  <2>1. CASE SourcesAwaited
    BY <2>1 DEF SourcesAwaited
  <2>2. CASE CloseDLQ
    BY <2>2 DEF CloseDLQ
  <2>3. CASE Exit
    BY <2>3 DEF Exit
  <2>4. ASSUME NEW r \in Receivers, CloseReceiver(r) PROVE SendersKnown'
    BY <2>4 DEF CloseReceiver
  <2>5. ASSUME NEW s \in Senders, CloseSender(s) PROVE SendersKnown'
    BY <2>5 DEF CloseSender
  <2> QED BY <1>3, <2>1, <2>2, <2>3, <2>4, <2>5 DEF ShutdownNext
<1>4. ASSUME NEW c \in Collectors, CollectorCloses(c) PROVE SendersKnown'
  BY <1>4 DEF CollectorCloses
<1>5. ASSUME NEW s \in Sources, SourceClosed(s) PROVE SendersKnown'
  BY <1>5 DEF SourceClosed, InHand
<1>6. ASSUME NEW s \in Senders \cup {DLQ}, SenderClosed(s) PROVE SendersKnown'
  BY <1>6 DEF SenderClosed, Inside
<1>7. ASSUME NEW x \in Chunks, ChunkNext(x) PROVE SendersKnown'
  BY <1>7 DEF ChunkNext, Take, Fail, Send, Deliver, Reject, Write, Move, DeadLetter
<1>8. CASE UNCHANGED vars
  BY <1>8 DEF vars
<1> QED BY <1>1, <1>2, <1>3, <1>4, <1>5, <1>6, <1>7, <1>8 DEF Next

\* Work that a part gives up on is accounted for.
LEMMA WorkStep == IInv /\ [Next]_vars => WorkKnown'
<1> SUFFICES ASSUME IInv, [Next]_vars PROVE WorkKnown'
  OBVIOUS
<1> USE PipelineAssumption DEF IInv, TypeOK, Mains, Phases, Places, Sources, mainVars,
                               SourcesKnown, SendersKnown, WorkKnown, Stopped,
                               ClosingSenders
<1>1. CASE StartupNext
  <2>1. CASE CollectorsInvalid
    BY <2>1 DEF CollectorsInvalid, Abort
  <2>2. CASE CollectorsStarted
    BY <2>2 DEF CollectorsStarted, Abort
  <2>3. CASE ReceiversInvalid
    BY <2>3 DEF ReceiversInvalid, Abort
  <2>4. CASE ReceiversClosed
    BY <2>4 DEF ReceiversClosed, Abort
  <2>5. CASE ReceiversStarted
    BY <2>5 DEF ReceiversStarted
  <2>6. ASSUME NEW c \in Collectors, StartCollector(c) PROVE WorkKnown'
    BY <2>6 DEF StartCollector
  <2>7. ASSUME NEW c \in Collectors, CollectorStarts(c) PROVE WorkKnown'
    BY <2>7 DEF CollectorStarts
  <2>8. ASSUME NEW r \in Receivers, StartReceiver(r) PROVE WorkKnown'
    BY <2>8 DEF StartReceiver
  <2>9. ASSUME NEW r \in Receivers, CloseStartedReceiver(r) PROVE WorkKnown'
    BY <2>9 DEF CloseStartedReceiver
  <2> QED BY <1>1, <2>1, <2>2, <2>3, <2>4, <2>5, <2>6, <2>7, <2>8, <2>9 DEF StartupNext
<1>2. CASE Interrupt
  BY <1>2 DEF Interrupt, Abort
<1>3. CASE ShutdownNext
  <2>1. CASE SourcesAwaited
    BY <2>1 DEF SourcesAwaited
  <2>2. CASE CloseDLQ
    BY <2>2 DEF CloseDLQ
  <2>3. CASE Exit
    BY <2>3 DEF Exit
  <2>4. ASSUME NEW r \in Receivers, CloseReceiver(r) PROVE WorkKnown'
    BY <2>4 DEF CloseReceiver
  <2>5. ASSUME NEW s \in Senders, CloseSender(s) PROVE WorkKnown'
    BY <2>5 DEF CloseSender
  <2> QED BY <1>3, <2>1, <2>2, <2>3, <2>4, <2>5 DEF ShutdownNext
<1>4. ASSUME NEW c \in Collectors, CollectorCloses(c) PROVE WorkKnown'
  BY <1>4 DEF CollectorCloses
<1>5. ASSUME NEW s \in Sources, SourceClosed(s) PROVE WorkKnown'
  BY <1>5 DEF SourceClosed, InHand
<1>6. ASSUME NEW s \in Senders \cup {DLQ}, SenderClosed(s) PROVE WorkKnown'
  BY <1>6 DEF SenderClosed, Inside
<1>7. ASSUME NEW x \in Chunks, ChunkNext(x) PROVE WorkKnown'
  BY <1>7 DEF ChunkNext, Take, Fail, Send, Deliver, Reject, Write, Move, DeadLetter
<1>8. CASE UNCHANGED vars
  BY <1>8 DEF vars
<1> QED BY <1>1, <1>2, <1>3, <1>4, <1>5, <1>6, <1>7, <1>8 DEF Next

-----------------------------------------------------------------------------
\* The invariant holds before main starts the parts.
LEMMA InitIInv == Init => IInv
BY PipelineAssumption
DEF Init, IInv, TypeOK, Mains, Phases, Places, SourcesKnown, SendersKnown, WorkKnown,
    ClosingSenders, Sources

\* The inductive invariant.
THEOREM Invariance == Spec => []IInv
<1>1. IInv /\ [Next]_vars => IInv'
  BY TypeStep, SourcesStep, SendersStep, WorkStep DEF IInv
<1> QED BY InitIInv, <1>1, PTL DEF Spec

\* Type correctness of the process.
THEOREM TypeCorrect == Spec => []TypeOK
<1>1. IInv => TypeOK
  BY DEF IInv
<1> QED BY Invariance, <1>1, PTL

\* Senders begin to close (closeSenders of main.go) only after every collector and
\* receiver that was started has closed, whatever failed to start, and the DLQ only
\* after the senders.
THEOREM OrderOfClosing == Spec => []ClosedInOrder
<1>1. IInv => ClosedInOrder
  BY PipelineAssumption
  DEF IInv, TypeOK, SourcesKnown, SendersKnown, WorkKnown, ClosingSenders, Stopped,
      ClosedInOrder, InHand, Inside, Sources
<1> QED BY Invariance, <1>1, PTL

\* A chunk is lost, or left behind at exit, only if its own collector or receiver, its
\* own sender, or the DLQ that had accepted it gave up on it.
THEOREM LossesExplained == Spec => []LostOnlyIfLate
<1>1. IInv => LostOnlyIfLate
  BY PipelineAssumption
  DEF IInv, TypeOK, SourcesKnown, SendersKnown, WorkKnown, ClosingSenders, Stopped,
      LostOnlyIfLate, Sources
<1> QED BY Invariance, <1>1, PTL

-----------------------------------------------------------------------------
(* Any parts that keep their promises can take the place of Pipeline's.    *)

\* What a collector or a receiver does by itself is a step of Pipeline.
LEMMA SourceIsFree ==
  ASSUME IInv, Running, NEW s \in Sources, SourceStep(s)
  PROVE  Next
<1> USE PipelineAssumption DEF IInv, TypeOK, Sources, Phases
<1>1. CASE OnlySource(s) /\ AsSource(s)!Done
  <2>1. source[s] = "closing" /\ source'[s] = "closed"
    BY <1>1 DEF OnlySource, Started, AsSource!Done
  <2>2. s \in overdue' <=> InHand(s) # {}
    BY <1>1 DEF AsSource!Done, Work, InHand
  <2>3. SourceClosed(s)
    BY <1>1, <2>1, <2>2 DEF OnlySource, SourceClosed, SourcesKnown
  <2> QED BY <2>3 DEF Next
<1>2. CASE OnlySource(s) /\ s \in Collectors /\ AsSource(s)!BeginClose
  <2>1. source[s] = "open" /\ source'[s] = "closing"
    BY <1>2 DEF OnlySource, Started, AsSource!BeginClose
  <2>2. overdue' = overdue
    BY <1>2 DEF OnlySource, AsSource!BeginClose
  <2>3. CollectorCloses(s)
    BY <1>2, <2>1, <2>2 DEF OnlySource, CollectorCloses
  <2> QED BY <1>2, <2>3 DEF Next
<1>3. ASSUME NEW x \in Chunks, Origin[x] = s, Started(s), OnlyChunk(x),
             AsSource(s)!Take(x) \/ AsSource(s)!Drop(x)
      PROVE  Next
  <2>1. CASE AsSource(s)!Take(x)
    <3>1. source[s] = "open" /\ chunk[x] = "new" /\ chunk'[x] = "hand"
      BY <1>3, <2>1 DEF Started, AsSource!Take, AsSource!Become, Work
    <3>2. Take(x)
      BY <1>3, <3>1 DEF OnlyChunk, Take, Move
    <3> QED BY <3>2 DEF Next, ChunkNext
  <2>2. CASE AsSource(s)!Drop(x)
    <3>1. chunk[x] = "hand" /\ chunk'[x] = "void"
      BY <1>3, <2>2 DEF AsSource!Drop, AsSource!Become, Work
    <3>2. Fail(x)
      BY <1>3, <3>1 DEF OnlyChunk, Fail, Move
    <3> QED BY <3>2 DEF Next, ChunkNext
  <2> QED BY <1>3, <2>1, <2>2
<1> QED BY <1>1, <1>2, <1>3 DEF SourceStep

\* So is a hand-over, which is a step of a source and of a sender.
LEMMA HandOverIsFree ==
  ASSUME IInv, Running, NEW x \in Chunks, HandOver(x)
  PROVE  Next
<1> USE PipelineAssumption DEF IInv, TypeOK
<1>1. chunk[x] = "hand"
  BY DEF HandOver, AsSource!Give, Work
<1>2. CASE Target[x] # DLQ /\ AsHandoff(Target[x])!Accept({x})
  <2>1. sender[Target[x]] = "open" /\ chunk'[x] = "sender"
    BY <1>2 DEF AsHandoff!Accept, Inside
  <2> QED BY <1>1, <1>2, <2>1 DEF HandOver, OnlyChunk, Send, Move, Next, ChunkNext
<1>3. CASE Target[x] = DLQ /\ chunk'[x] = DeadLetter
  BY <1>1, <1>3 DEF HandOver, OnlyChunk, Send, Move, Next, ChunkNext
<1>4. CASE Target[x] # DLQ /\ AsHandoff(Target[x])!Refuse({x}) /\ chunk'[x] = DeadLetter
  <2>1. sender[Target[x]] # "open"
    BY <1>4 DEF AsHandoff!Refuse
  <2> QED BY <1>1, <1>4, <2>1 DEF HandOver, OnlyChunk, Send, Move, Next, ChunkNext
<1> QED BY <1>2, <1>3, <1>4 DEF HandOver

\* And what a sender does by itself.
LEMMA SenderIsFree ==
  ASSUME IInv, Running, NEW s \in Senders, SenderStep(s)
  PROVE  Next
<1> USE PipelineAssumption DEF IInv, TypeOK
<1>1. ASSUME sender[s] = "closing", OnlySender(s),
             AsHandoff(s)!Drained \/ (Inside(s) # {} /\ s \in overdue')
      PROVE  SenderClosed(s)
  <2>1. sender'[s] = "closed" /\ s \notin overdue
    BY <1>1 DEF OnlySender, SendersKnown
  <2>2. CASE AsHandoff(s)!Drained
    <3>1. Inside(s) = {} /\ s \notin overdue'
      BY <2>1, <2>2 DEF AsHandoff!Drained
    <3>2. overdue' = overdue
      BY <1>1, <2>1, <3>1 DEF OnlySender
    <3> QED BY <1>1, <3>1, <3>2 DEF OnlySender, SenderClosed
  <2>3. CASE Inside(s) # {} /\ s \in overdue'
    <3>1. overdue' = overdue \cup {s}
      BY <1>1, <2>3 DEF OnlySender
    <3> QED BY <1>1, <2>3, <3>1 DEF OnlySender, SenderClosed
  <2> QED BY <1>1, <2>2, <2>3
<1>2. ASSUME NEW x \in Chunks, OnlyChunk(x), AsHandoff(s)!Resolve({x}),
             chunk'[x] \in {"acked", DeadLetter}
      PROVE  Next
  <2>1. chunk[x] = "sender"
    BY <1>2 DEF AsHandoff!Resolve, Inside
  <2>2. Deliver(x) \/ Reject(x)
    BY <1>2, <2>1 DEF OnlyChunk, Deliver, Reject, Move
  <2> QED BY <2>2 DEF Next, ChunkNext
<1> QED BY <1>1, <1>2 DEF SenderStep, Next

\* Whatever the collectors, receivers and senders do that Source and Handoff allow, the
\* process is one that Pipeline describes: the contracts that the detailed models of
\* HTTPCollector, Receiver and Sender implement are all that its theorems need of them.
THEOREM PartsCompose == Assembled => Spec
<1>1. IInv /\ [MainNext \/ PartNext]_vars => [Next]_vars
  BY SourceIsFree, HandOverIsFree, SenderIsFree, Zenon DEF MainNext, PartNext, Next, ChunkNext
<1>2. IInv /\ [Next]_vars => IInv'
  BY TypeStep, SourcesStep, SendersStep, WorkStep DEF IInv
<1> QED BY <1>1, <1>2, InitIInv, PTL DEF Assembled, Spec

\* So in a process of such parts the senders close after all that feeds them, and data is
\* lost only with a part on its way that gave up on it.
THEOREM AssembledSafe == Assembled => []ClosedInOrder /\ []LostOnlyIfLate
BY PartsCompose, OrderOfClosing, LossesExplained, PTL

-----------------------------------------------------------------------------
(***************************************************************************)
(* The stdout sender.  Once Close has begun, whoever gets the mutex finds  *)
(* lameDuck set; the goroutine of Close gets it only when nobody is        *)
(* printing, so nobody is from then on.                                    *)
(***************************************************************************)
SilentInv ==
  /\ at = [g \in Printers \cup Closers |-> at[g]]
  /\ closing = "no" => locker = "none"
  /\ closing # "no" => lameDuck
  /\ closing = "done" => locker = "over"
  /\ locker \in {"holding", "over"} => lameDuck /\ \A g \in Printers : at[g] # "print"
  /\ locker = "waiting" => lameDuck

\* What ClosedIsSilent says of a step.
SilentStep ==
  /\ closing = "done" => printed' = printed
  /\ closing = "forced" => \A g \in Printers : at'[g] = "print" => at[g] = "print"

\* A goroutine of the stdout sender leaves the others where they are.
LEMMA GoFacts ==
  ASSUME SilentInv, NEW g \in Printers \cup Closers, NEW from, NEW to, Go(g, from, to)
  PROVE  /\ at[g] = from /\ at'[g] = to
         /\ \A h \in Printers \cup Closers : h # g => at'[h] = at[h]
         /\ at' = [h \in Printers \cup Closers |-> at'[h]]
  BY DEF SilentInv, Go

\* No step of the stdout sender lets one print that should not.
LEMMA StdoutSteps ==
  ASSUME SilentInv, [StdoutNext]_stdoutVars
  PROVE  SilentInv' /\ SilentStep
<1>1. ASSUME NEW g \in Printers, StdoutSend(g) \/ Lock(g) \/ Check(g)
      PROVE  SilentInv' /\ SilentStep
  <2>1. UNCHANGED <<lameDuck, closing, locker, printed>>
    BY <1>1 DEF StdoutSend, Lock, Check
  <2>2. PICK from, to : Go(g, from, to) /\ (to = "print" => ~lameDuck)
    <3>1. CASE StdoutSend(g)
      BY <3>1 DEF StdoutSend, Discard
    <3>2. CASE Lock(g)
      BY <3>2 DEF Lock
    <3>3. CASE Check(g)
      BY <3>3 DEF Check, Discard
    <3> QED BY <1>1, <3>1, <3>2, <3>3
  <2>3. \A h \in Printers : at'[h] = "print" => at[h] = "print" \/ ~lameDuck
    BY <2>2, GoFacts
  <2>4. at' = [h \in Printers \cup Closers |-> at'[h]]
    BY <2>2, GoFacts
  <2> QED BY <2>1, <2>3, <2>4 DEF SilentInv, SilentStep
<1>2. ASSUME NEW g \in Printers, StdoutWrite(g)
      PROVE  SilentInv' /\ SilentStep
  <2>1. /\ UNCHANGED <<lameDuck, closing, locker>>
        /\ Go(g, "print", "returned")
    BY <1>2 DEF StdoutWrite
  <2>2. /\ at[g] = "print" /\ at'[g] = "returned"
        /\ \A h \in Printers \cup Closers : h # g => at'[h] = at[h]
        /\ at' = [h \in Printers \cup Closers |-> at'[h]]
    BY <2>1, GoFacts
  <2>3. closing # "done"
    BY <2>2 DEF SilentInv
  <2> QED BY <2>1, <2>2, <2>3 DEF SilentInv, SilentStep
<1>3. ASSUME NEW g \in Closers, Close(g) \/ CloseReturns(g)
      PROVE  SilentInv' /\ SilentStep
  <2>1. \E from, to : Go(g, from, to) /\ to # "print"
    BY <1>3 DEF Close, CloseReturns
  <2>2. /\ \A h \in Printers : at'[h] = "print" => at[h] = "print"
        /\ at' = [h \in Printers \cup Closers |-> at'[h]]
    BY <2>1, GoFacts
  <2>3. CASE UNCHANGED <<lameDuck, closing, locker, printed>>
    BY <2>2, <2>3 DEF SilentInv, SilentStep
  <2>4. CASE /\ closing = "no" /\ closing' = "running" /\ lameDuck' /\ locker' = "waiting"
             /\ printed' = printed
    BY <2>2, <2>4 DEF SilentInv, SilentStep
  <2> QED BY <1>3, <2>3, <2>4 DEF Close, CloseReturns
<1>4. CASE LockerLocks
  BY <1>4 DEF LockerLocks, Unlocked, SilentInv, SilentStep
<1>5. CASE LockerUnlocks \/ CloseEnds \/ CloseTimesOut \/ Stall
  BY <1>5 DEF LockerUnlocks, CloseEnds, CloseTimesOut, Stall, SilentInv, SilentStep
<1>6. CASE UNCHANGED stdoutVars
  BY <1>6 DEF stdoutVars, SilentInv, SilentStep
<1> QED BY <1>1, <1>2, <1>3, <1>4, <1>5, <1>6 DEF StdoutNext

\* For any callers of Send and of Close of the stdout sender: after a Close in time nothing
\* is printed, and after one that gave up only the write that it waited for.
THEOREM StdoutIsSilent == StdoutSpec => ClosedIsSilent
<1>1. StdoutInit => SilentInv
  BY DEF StdoutInit, SilentInv
<1>2. SilentInv /\ [StdoutNext]_stdoutVars => SilentInv'
  BY StdoutSteps
<1>3. SilentInv /\ [StdoutNext]_stdoutVars => [SilentStep]_stdoutVars
  BY StdoutSteps
<1> QED BY <1>1, <1>2, <1>3, PTL DEF StdoutSpec, ClosedIsSilent, SilentStep

-----------------------------------------------------------------------------
(***************************************************************************)
(* The retry intervals.  First, Shifted satisfies its recursion: it does   *)
(* up to every number, and these solutions agree.                          *)
(***************************************************************************)
Shifts(g, n) == g = [k \in 0..n |-> IF k = 0 THEN 1 ELSE 2 * g[k - 1]]

\* The recursion has a solution up to every number.
LEMMA ShiftsExist ==
  ASSUME NEW n \in Nat
  PROVE  \E g : Shifts(g, n)
  <1> DEFINE Bad == {m \in Nat : ~\E g : Shifts(g, m)}
  <1> SUFFICES ASSUME Bad # {} PROVE FALSE
    OBVIOUS
  <1>1. PICK m \in Bad : \A k \in Bad : m <= k
    BY LeastNatural, Bad \subseteq Nat
  <1>2. m \in Nat /\ ~\E g : Shifts(g, m)
    BY <1>1
  <1>3. CASE m = 0
    <2> DEFINE h == [k \in 0..0 |-> 1]
    <2>1. h = [k \in 0..0 |-> IF k = 0 THEN 1 ELSE 2 * h[k - 1]]
      OBVIOUS
    <2> HIDE DEF h
    <2> QED BY <1>2, <1>3, <2>1 DEF Shifts
  <1>4. CASE m # 0
    <2>1. m - 1 \in Nat /\ m - 1 \notin Bad
      BY <1>1, <1>2, <1>4
    <2>2. PICK g : Shifts(g, m - 1)
      BY <2>1
    <2> DEFINE h == [k \in 0..m |-> IF k = 0 THEN 1 ELSE 2 * g[k - 1]]
    <2>3. \A k \in 0..(m - 1) : g[k] = IF k = 0 THEN 1 ELSE 2 * g[k - 1]
      BY <2>2, Zenon DEF Shifts
    <2>4. \A k \in 0..(m - 1) : k \in 0..m
      BY <1>2
    <2>5. \A k \in 0..(m - 1) : h[k] = g[k]
      BY <2>3, <2>4
    <2>6. \A k \in 0..m : k # 0 => k - 1 \in 0..(m - 1)
      BY <1>2
    <2>7. h = [k \in 0..m |-> IF k = 0 THEN 1 ELSE 2 * g[k - 1]]
      OBVIOUS
    <2> HIDE DEF h
    <2>8. h = [k \in 0..m |-> IF k = 0 THEN 1 ELSE 2 * h[k - 1]]
      BY <2>5, <2>6, <2>7
    <2> QED BY <1>2, <2>8 DEF Shifts
  <1> QED BY <1>3, <1>4

\* Two such solutions agree.
LEMMA ShiftsAgree ==
  ASSUME NEW m \in Nat, NEW n \in Nat, m <= n, NEW g, Shifts(g, m), NEW h, Shifts(h, n),
         NEW i \in 0..m
  PROVE  g[i] = h[i]
  <1> DEFINE Bad == {k \in 0..m : g[k] # h[k]}
  <1> SUFFICES ASSUME Bad # {} PROVE FALSE
    OBVIOUS
  <1>1. PICK k \in Bad : \A j \in Bad : k <= j
    BY LeastNatural, Bad \subseteq Nat
  <1>2. /\ \A j \in 0..m : g[j] = IF j = 0 THEN 1 ELSE 2 * g[j - 1]
        /\ \A j \in 0..n : h[j] = IF j = 0 THEN 1 ELSE 2 * h[j - 1]
    BY Zenon DEF Shifts
  <1>3. k \in 0..m /\ k \in 0..n /\ g[k] # h[k]
    BY <1>1
  <1>4. k # 0
    BY <1>2, <1>3
  <1>5. k - 1 \in 0..m /\ k - 1 \notin Bad
    BY <1>1, <1>3, <1>4
  <1> QED BY <1>2, <1>3, <1>4, <1>5

\* Shifted satisfies its recursion.
LEMMA ShiftedRecursion ==
  \A n \in Nat : Shifted[n] = IF n = 0 THEN 1 ELSE 2 * Shifted[n - 1]
  <1> DEFINE Sol(n) == CHOOSE g : Shifts(g, n)
             f == [n \in Nat |-> Sol(n)[n]]
  <1>1. \A n \in Nat : Shifts(Sol(n), n)
    BY ShiftsExist
  <1>2. ASSUME NEW n \in Nat
        PROVE  f[n] = IF n = 0 THEN 1 ELSE 2 * f[n - 1]
    <2>1. Shifts(Sol(n), n)
      BY <1>1
    <2>2. \A k \in 0..n : Sol(n)[k] = IF k = 0 THEN 1 ELSE 2 * Sol(n)[k - 1]
      BY <2>1, Zenon DEF Shifts
    <2>3. f[n] = Sol(n)[n] /\ n \in 0..n
      OBVIOUS
    <2>4. CASE n # 0
      <3>1. n - 1 \in Nat /\ n - 1 <= n /\ n - 1 \in 0..(n - 1)
        BY <2>4
      <3>2. Sol(n - 1)[n - 1] = Sol(n)[n - 1]
        BY <1>1, <3>1, ShiftsAgree
      <3>3. f[n - 1] = Sol(n - 1)[n - 1]
        BY <3>1
      <3> HIDE DEF f, Sol
      <3> QED BY <2>2, <2>3, <2>4, <3>2, <3>3
    <2> HIDE DEF f, Sol
    <2> QED BY <2>2, <2>3, <2>4
  <1>3. f = [n \in Nat |-> f[n]]
    OBVIOUS
  <1> HIDE DEF f
  <1>4. f = [n \in Nat |-> IF n = 0 THEN 1 ELSE 2 * f[n - 1]]
    BY <1>2, <1>3
  <1> DEFINE Rec(g) == g = [n \in Nat |-> IF n = 0 THEN 1 ELSE 2 * g[n - 1]]
  <1>5. Rec(Shifted)
    <2>1. Shifted = CHOOSE g : Rec(g)
      BY DEF Shifted
    <2>2. \E g : Rec(g)
      BY <1>4
    <2> HIDE DEF Rec
    <2> QED BY <2>1, <2>2
  <1> QED BY <1>5, Zenon

\* Shifting by one more doubles, so a shift exceeds its distance.
LEMMA ShiftedFacts ==
  /\ \A n \in Nat : Shifted[n] \in Nat /\ Shifted[n] > n
  /\ Shifted[0] = 1
  /\ \A n \in Nat : Shifted[n + 1] = 2 * Shifted[n]
  <1>1. Shifted[0] = 1
    BY ShiftedRecursion
  <1>2. \A n \in Nat : Shifted[n + 1] = 2 * Shifted[n]
    <2> SUFFICES ASSUME NEW n \in Nat PROVE Shifted[n + 1] = 2 * Shifted[n]
      OBVIOUS
    <2>1. n + 1 \in Nat /\ n + 1 # 0 /\ (n + 1) - 1 = n
      OBVIOUS
    <2>2. Shifted[n + 1] = IF n + 1 = 0 THEN 1 ELSE 2 * Shifted[(n + 1) - 1]
      BY <2>1, ShiftedRecursion
    <2> QED BY <2>1, <2>2
  <1> DEFINE Bad == {n \in Nat : ~(Shifted[n] \in Nat /\ Shifted[n] > n)}
  <1>3. Bad = {}
    <2> SUFFICES ASSUME Bad # {} PROVE FALSE
      OBVIOUS
    <2>1. PICK n \in Bad : \A m \in Bad : n <= m
      BY LeastNatural, Bad \subseteq Nat
    <2>2. n \in Nat /\ n # 0
      BY <1>1, <2>1
    <2>3. n - 1 \in Nat /\ n - 1 \notin Bad /\ (n - 1) + 1 = n
      BY <2>1, <2>2
    <2>4. Shifted[n - 1] \in Nat /\ Shifted[n - 1] > n - 1
      BY <2>3
    <2>5. Shifted[n] = 2 * Shifted[n - 1]
      BY <1>2, <2>3
    <2>6. Shifted[n] \in Nat /\ Shifted[n] > n
      BY <2>2, <2>4, <2>5
    <2> QED BY <2>1, <2>6
  <1> QED BY <1>1, <1>2, <1>3

\* A shift by more is at least as large.
LEMMA ShiftedMonotone ==
  ASSUME NEW m \in Nat, NEW n \in Nat, m <= n
  PROVE  Shifted[m] <= Shifted[n]
  <1> DEFINE Bad == {k \in Nat : m <= k /\ ~(Shifted[m] <= Shifted[k])}
  <1> SUFFICES ASSUME Bad # {} PROVE FALSE
    OBVIOUS
  <1>1. PICK k \in Bad : \A j \in Bad : k <= j
    BY LeastNatural, Bad \subseteq Nat
  <1>2. k \in Nat /\ m <= k /\ ~(Shifted[m] <= Shifted[k])
    BY <1>1
  <1>3. k # m
    BY <1>2, ShiftedFacts
  <1>4. k - 1 \in Nat /\ m <= k - 1 /\ k - 1 \notin Bad /\ (k - 1) + 1 = k
    BY <1>1, <1>2, <1>3
  <1>5. Shifted[m] <= Shifted[k - 1] /\ Shifted[k] = 2 * Shifted[k - 1]
    BY <1>4, ShiftedFacts
  <1> QED BY <1>2, <1>4, <1>5, ShiftedFacts

\* bits.Len64 is the number of bits.
LEMMA Len64Facts ==
  ASSUME NEW x \in Nat \ {0}
  PROVE  /\ Len64(x) \in Nat \ {0}
         /\ Shifted[Len64(x) - 1] <= x /\ x < Shifted[Len64(x)]
  <1> DEFINE Above == {n \in Nat : x < Shifted[n]}
  <1>1. x \in Above
    BY ShiftedFacts
  <1>2. PICK n \in Above : \A m \in Above : n <= m
    BY <1>1, LeastNatural, Above \subseteq Nat
  <1>3. n \in Nat /\ x < Shifted[n] /\ n <= x
    BY <1>1, <1>2
  <1>4. n # 0
    BY <1>3, ShiftedFacts
  <1>5. n - 1 \in Nat /\ n - 1 \notin Above
    BY <1>2, <1>3, <1>4
  <1>6. Shifted[n - 1] <= x
    BY <1>5, ShiftedFacts
  <1>7. \E k \in 1..x : Shifted[k - 1] <= x /\ x < Shifted[k]
    BY <1>3, <1>4, <1>6
  <1>8. Len64(x) = CHOOSE k \in 1..x : Shifted[k - 1] <= x /\ x < Shifted[k]
    BY DEF Len64
  <1>9. Len64(x) \in 1..x /\ Shifted[Len64(x) - 1] <= x /\ x < Shifted[Len64(x)]
    BY <1>7, <1>8
  <1> QED BY <1>9

\* What parseRetries guarantees of a policy that waits at all.
PolicyOK ==
  /\ retries.maxAttempts \in Int
  /\ retries.maxAttempts > 1 =>
       /\ retries.interval \in Nat
       /\ MinInterval <= retries.interval /\ retries.interval <= TopInterval
       /\ retries.coefficient = 2 =>
            retries.maxInterval \in Nat /\ retries.interval < retries.maxInterval

\* The last interval, of a policy that doubles them.
IntervalOK ==
  interval > 0 /\ retries.coefficient = 2 =>
    /\ attempt >= 1
    /\ interval = retries.interval * Shifted[(attempt - 1) % Iterations]

BackoffInv == attempt \in Nat /\ interval \in Int /\ PolicyOK /\ IntervalOK

\* The body of BackoffKept.
BackoffStep ==
  /\ interval > 0 /\ retries.coefficient = 2 =>
       interval' = IF 2 * interval <= retries.maxInterval THEN 2 * interval
                   ELSE retries.interval
  /\ wait' >= (9 * MinInterval) \div 10
  /\ 10 * wait' <= 11 * (IF retries.coefficient = 2 THEN retries.maxInterval
                         ELSE TopInterval)

\* parseRetries clamps what it is given.
LEMMA ParsedOK ==
  ASSUME BackoffInit
  PROVE  BackoffInv
  <1> USE BackoffAssumption
  <1>1. config \in Configs /\ retries = ParseRetries(config)
    BY DEF BackoffInit
  <1> DEFINE n == Clamp(config.maxAttempts, 1, MaxAttempts)
             i == Clamp(config.interval, MinInterval, TopInterval)
             max == Clamp(config.maxInterval, i, TopMaxInterval)
             static == config.type = "static" \/ max = i
  <1>2. config.maxAttempts \in Int /\ config.interval \in Int /\ config.maxInterval \in Int
    BY <1>1
  <1>3. n \in Int
    BY <1>2 DEF Clamp
  <1>4. i \in Nat /\ MinInterval <= i /\ i <= TopInterval
    BY <1>2 DEF Clamp
  <1>5. max \in Nat /\ i <= max
    BY <1>2, <1>4 DEF Clamp
  <1>6. \/ retries = Disabled
        \/ retries = [coefficient |-> IF static THEN 1 ELSE 2, maxAttempts |-> n,
                      interval |-> i, maxInterval |-> IF static THEN 0 ELSE max]
    BY <1>1, Zenon DEF ParseRetries
  <1> HIDE DEF n, i, max
  <1>7. PolicyOK
    BY <1>3, <1>4, <1>5, <1>6 DEF PolicyOK, Disabled
  <1> QED BY <1>7 DEF BackoffInit, BackoffInv, IntervalOK

\* Quotient and remainder.
LEMMA Division ==
  ASSUME NEW n \in Nat \ {0}, NEW a \in Int
  PROVE  a \div n \in Int /\ a % n \in 0..(n - 1) /\ a = n * (a \div n) + (a % n)
  BY Z3

\* There is only one quotient and one remainder.
LEMMA DivisionUnique ==
  ASSUME NEW n \in Nat \ {0}, NEW q \in Int, NEW r \in 0..(n - 1), NEW a, a = n * q + r
  PROVE  a \div n = q /\ a % n = r
  <1>1. a \in Int
    OBVIOUS
  <1> DEFINE p == a \div n
             s == a % n
  <1>2. p \in Int /\ s \in 0..(n - 1) /\ n * p + s = n * q + r
    BY <1>1, Division
  <1> HIDE DEF p, s
  <1>3. ~(p < q)
    <2> SUFFICES ASSUME p < q PROVE FALSE
      OBVIOUS
    <2>1. n * p + n <= n * q
      BY <1>2, Z3
    <2> QED BY <1>2, <2>1, Z3
  <1>4. ~(q < p)
    <2> SUFFICES ASSUME q < p PROVE FALSE
      OBVIOUS
    <2>1. n * q + n <= n * p
      BY <1>2, Z3
    <2> QED BY <1>2, <2>1, Z3
  <1>5. p = q
    BY <1>2, <1>3, <1>4
  <1>6. s = r
    BY <1>2, <1>5, Z3
  <1> QED BY <1>5, <1>6 DEF p, s

\* The shift of an attempt follows that of the one before, or starts over.
LEMMA NextShift ==
  ASSUME NEW n \in Nat \ {0}, NEW a \in Nat \ {0}
  PROVE  /\ (a - 1) % n \in 0..(n - 1)
         /\ a % n = IF (a - 1) % n = n - 1 THEN 0 ELSE ((a - 1) % n) + 1
  <1> DEFINE q == (a - 1) \div n
             r == (a - 1) % n
  <1>1. q \in Int /\ r \in 0..(n - 1) /\ a - 1 = n * q + r
    BY Division
  <1> HIDE DEF q, r
  <1>2. CASE r = n - 1
    <2>1. a = n * (q + 1) + 0 /\ q + 1 \in Int /\ 0 \in 0..(n - 1)
      BY <1>1, <1>2
    <2>2. a % n = 0
      BY <2>1, DivisionUnique
    <2> QED BY <1>1, <1>2, <2>2 DEF r
  <1>3. CASE r # n - 1
    <2>1. a = n * q + (r + 1) /\ r + 1 \in 0..(n - 1)
      BY <1>1, <1>3
    <2>2. a % n = r + 1
      <3> DEFINE t == r + 1
      <3>1. t \in 0..(n - 1) /\ a = n * q + t
        BY <2>1
      <3> HIDE DEF t
      <3>2. a % n = t
        BY <1>1, <3>1, DivisionUnique
      <3> QED BY <3>2 DEF t
    <2> QED BY <1>1, <1>3, <2>2 DEF r
  <1> QED BY <1>2, <1>3

\* The intervals double up to the maximum, and start over.
LEMMA IntervalsDouble ==
  ASSUME BackoffInv, retries.coefficient = 2, retries.maxAttempts > 1
  PROVE  /\ BackoffInterval \in Nat
         /\ retries.interval <= BackoffInterval /\ BackoffInterval <= retries.maxInterval
         /\ interval > 0 => BackoffInterval = IF 2 * interval <= retries.maxInterval
                                              THEN 2 * interval ELSE retries.interval
  <1> DEFINE i == retries.interval
             max == retries.maxInterval
             q == max \div i
             n == Iterations
             s(k) == Shifted[k]
  <1>1. i \in Nat \ {0} /\ max \in Nat /\ i < max /\ attempt \in Nat
    BY BackoffAssumption DEF BackoffInv, PolicyOK
  <1>2. q \in Nat \ {0} /\ i * q <= max /\ max < i * (q + 1)
    <2>1. q \in Int /\ max % i \in 0..(i - 1) /\ max = i * q + (max % i)
      <3> HIDE DEF i, max
      <3>1. i \in Nat \ {0} /\ max \in Int
        BY <1>1
      <3> QED BY <3>1, Division
    <2> HIDE DEF q
    <2>2. q >= 1
      <3> SUFFICES ASSUME q <= 0 PROVE FALSE
        BY <2>1
      <3>1. i * q <= 0
        BY <1>1, <2>1, Z3
      <3> QED BY <1>1, <2>1, <3>1
    <2> QED BY <1>1, <2>1, <2>2, Z3
  <1>3. n = Len64(q)
    BY DEF Iterations
  <1> HIDE DEF q, n
  <1>4. n \in Nat \ {0} /\ s(n - 1) <= q /\ q < s(n)
    BY <1>2, <1>3, Len64Facts
  <1>5. \A k \in 0..(n - 1) : s(k) \in Nat /\ s(k) >= 1 /\ s(k) <= q
    <2> SUFFICES ASSUME NEW k \in 0..(n - 1) PROVE s(k) \in Nat /\ s(k) >= 1 /\ s(k) <= q
      OBVIOUS
    <2>1. k \in Nat /\ n - 1 \in Nat /\ k <= n - 1
      BY <1>4
    <2>2. s(k) <= s(n - 1) /\ s(k) \in Nat /\ s(n - 1) \in Nat /\ s(k) > k
      BY <2>1, ShiftedMonotone, ShiftedFacts
    <2> QED BY <1>2, <1>4, <2>1, <2>2
  <1>6. \A k \in 0..(n - 1) : i * s(k) \in Nat /\ i <= i * s(k) /\ i * s(k) <= max
    <2> SUFFICES ASSUME NEW k \in 0..(n - 1)
                 PROVE  i * s(k) \in Nat /\ i <= i * s(k) /\ i * s(k) <= max
      OBVIOUS
    <2> DEFINE v == s(k)
    <2>1. v \in Nat /\ v >= 1 /\ v <= q
      BY <1>5
    <2> HIDE DEF v
    <2>2. i * v \in Nat /\ i <= i * v /\ i * v <= i * q
      BY <1>1, <1>2, <2>1, Z3
    <2> QED BY <1>1, <1>2, <2>2 DEF v
  <1>7. BackoffInterval = i * s(attempt % n) /\ attempt % n \in 0..(n - 1)
    BY <1>1, <1>4 DEF BackoffInterval, n
  <1>8. ASSUME interval > 0
        PROVE  BackoffInterval = IF 2 * interval <= max THEN 2 * interval ELSE i
    <2> DEFINE j == (attempt - 1) % n
    <2>1. attempt \in Nat \ {0} /\ interval = i * s(j)
      BY <1>1, <1>8 DEF BackoffInv, IntervalOK, n
    <2>2. j \in 0..(n - 1) /\ attempt % n = IF j = n - 1 THEN 0 ELSE j + 1
      BY <1>4, <2>1, NextShift
    <2> HIDE DEF j
    <2>3. j \in Nat /\ s(j) \in Nat /\ s(j + 1) = 2 * s(j)
      BY <2>2, ShiftedFacts
    <2> DEFINE v == s(j)
               w == s(j + 1)
    <2> HIDE DEF v, w
    <2>4. v \in Nat /\ w = 2 * v /\ w \in Nat
      BY <2>3 DEF v, w
    <2>5. 2 * interval = i * w /\ interval \in Nat
      BY <1>1, <2>1, <2>4, Z3 DEF v
    <2>6. CASE j = n - 1
      <3>1. w = s(n)
        BY <1>4, <2>6 DEF w
      <3>2. q + 1 <= w
        BY <1>2, <1>4, <2>4, <3>1
      <3>3. i * (q + 1) <= i * w
        BY <1>1, <1>2, <2>4, <3>2, Z3
      <3>4. max < 2 * interval
        BY <1>1, <1>2, <2>4, <2>5, <3>3
      <3>5. BackoffInterval = i
        BY <1>1, <1>7, <2>2, <2>6, ShiftedFacts
      <3> QED BY <1>1, <2>5, <3>4, <3>5
    <2>7. CASE j # n - 1
      <3>1. j + 1 \in 0..(n - 1) /\ attempt % n = j + 1
        BY <1>4, <2>2, <2>7
      <3>2. BackoffInterval = i * w /\ i * w <= max
        BY <1>6, <1>7, <3>1 DEF w
      <3> QED BY <2>5, <3>2
    <2> QED BY <2>6, <2>7
  <1> QED BY <1>6, <1>7, <1>8

\* The jitter keeps a wait within a tenth of its interval.
LEMMA JitterBounds ==
  ASSUME NEW i \in Nat, NEW low \in Nat, 5 <= low, low <= i, NEW jitter \in Jitters(i),
         NEW w, w = ((9 * i) \div 10) + jitter
  PROVE  w \in Int /\ w >= (9 * low) \div 10 /\ 10 * w <= 11 * i
  BY DEF Jitters

\* Every wait keeps the promise, and the invariant.
LEMMA BackoffSteps ==
  ASSUME BackoffInv, [BackoffNext]_backoffVars
  PROVE  BackoffInv' /\ [BackoffStep]_backoffVars
  <1>1. CASE WaitBeforeRetry
    <2>1. /\ attempt \in Nat /\ attempt' = attempt + 1 /\ retries' = retries
          /\ attempt < retries.maxAttempts - 1 /\ retries.maxAttempts \in Int
      BY <1>1 DEF WaitBeforeRetry, BackoffInv, PolicyOK
    <2>2. /\ retries.maxAttempts > 1 /\ retries.interval \in Nat
          /\ MinInterval <= retries.interval /\ retries.interval <= TopInterval
      BY <2>1 DEF BackoffInv, PolicyOK
    <2>3. attempt' \in Nat /\ PolicyOK' /\ Iterations' = Iterations
      BY <2>1 DEF BackoffInv, PolicyOK, Iterations
    <2>4. CASE retries.coefficient = 2
      <3>1. /\ interval' = BackoffInterval
            /\ \E jitter \in Jitters(interval') : wait' = ((9 * interval') \div 10) + jitter
        BY <1>1, <2>4 DEF WaitBeforeRetry
      <3>2. /\ interval' \in Nat /\ retries.interval <= interval'
            /\ interval' <= retries.maxInterval /\ retries.maxInterval \in Nat
            /\ interval > 0 => interval' = IF 2 * interval <= retries.maxInterval
                                           THEN 2 * interval ELSE retries.interval
        BY <2>2, <2>4, <3>1, IntervalsDouble DEF BackoffInv, PolicyOK
      <3>3. 5 <= MinInterval /\ MinInterval <= interval' /\ MinInterval \in Nat
        BY <2>2, <3>2, BackoffAssumption
      <3>4. wait' \in Int /\ wait' >= (9 * MinInterval) \div 10 /\ 10 * wait' <= 11 * interval'
        BY <3>1, <3>2, <3>3, JitterBounds
      <3>5. 10 * wait' <= 11 * retries.maxInterval
        <4> DEFINE w == wait'
                   i == interval'
                   max == retries.maxInterval
        <4>1. w \in Int /\ i \in Nat /\ max \in Nat /\ i <= max /\ 10 * w <= 11 * i
          BY <3>2, <3>4
        <4> HIDE DEF w, i, max
        <4>2. 10 * w <= 11 * max
          BY <4>1
        <4> QED BY <4>2 DEF w, max
      <3>6. attempt' >= 1 /\ attempt' - 1 = attempt
        BY <2>1
      <3>7. IntervalOK'
        BY <2>1, <2>3, <3>1, <3>6 DEF IntervalOK, BackoffInterval
      <3> QED BY <2>3, <2>4, <3>2, <3>4, <3>5, <3>7 DEF BackoffInv, BackoffStep
    <2>5. CASE retries.coefficient # 2
      <3>1. interval' = retries.interval /\ wait' = retries.interval
        BY <1>1, <2>5 DEF WaitBeforeRetry
      <3>2. MinInterval \in Nat /\ TopInterval \in Nat
        BY BackoffAssumption
      <3>3. wait' >= (9 * MinInterval) \div 10 /\ 10 * wait' <= 11 * TopInterval
        BY <2>2, <3>1, <3>2
      <3>4. IntervalOK'
        BY <2>1, <2>5 DEF IntervalOK
      <3> QED BY <2>2, <2>3, <2>5, <3>1, <3>3, <3>4 DEF BackoffInv, BackoffStep
    <2> QED BY <2>4, <2>5
  <1>2. CASE UNCHANGED backoffVars
    BY <1>2 DEF backoffVars, BackoffInv, PolicyOK, IntervalOK, Iterations
  <1> QED BY <1>1, <1>2 DEF BackoffNext

\* For every configuration of retries, and every limit: a backoff doubles its intervals as
\* long as they stay within the maximum, then starts over, and no wait leaves its bounds.
THEOREM BackoffIsKept == BackoffSpec => BackoffKept
  <1>1. BackoffInit => BackoffInv
    BY ParsedOK
  <1>2. BackoffInv /\ [BackoffNext]_backoffVars => BackoffInv'
    BY BackoffSteps
  <1>3. BackoffInv /\ [BackoffNext]_backoffVars => [BackoffStep]_backoffVars
    BY BackoffSteps
  <1> QED BY <1>1, <1>2, <1>3, PTL DEF BackoffSpec, BackoffKept, BackoffStep

-----------------------------------------------------------------------------
(***************************************************************************)
(* Cron.  First, division: an hour of the clock is a row of minutes, and a *)
(* day one of hours.                                                       *)
(***************************************************************************)
\* Where a quotient lies.
LEMMA DivisionBounds ==
  ASSUME NEW w \in Int, NEW m \in Nat \ {0}, NEW q \in Int
  PROVE  /\ w \div m = q <=> (m * q <= w /\ w < m * q + m)
         /\ w \div m < q <=> w < m * q
  BY Division, Z3

\* Larger numbers have larger quotients.
LEMMA DivisionMonotone ==
  ASSUME NEW v \in Int, NEW w \in Int, v <= w, NEW m \in Nat \ {0}
  PROVE  v \div m <= w \div m
  BY Division, Z3

\* Dividing by a product is dividing twice.
LEMMA DivisionTwice ==
  ASSUME NEW w \in Int, NEW m \in Nat \ {0}, NEW k \in Nat \ {0}
  PROVE  w \div (m * k) = (w \div m) \div k
  <1> DEFINE q == w \div m
             r == w % m
             p == q \div k
             s == q % k
             n == m * k
  <1>1. q \in Int /\ r \in 0..(m - 1) /\ w = m * q + r
    BY Division
  <1>2. p \in Int /\ s \in 0..(k - 1) /\ q = k * p + s
    BY <1>1, Division
  <1>3. n \in Nat \ {0}
    BY Z3
  <1> HIDE DEF q, r, p, s
  <1>4. m * s + r \in 0..(n - 1)
    <2>1. m * s >= 0 /\ m * s + m <= m * k /\ m * s \in Int
      BY <1>2, Z3
    <2> QED BY <1>1, <1>3, <2>1, Z3
  <1>5. w = n * p + (m * s + r)
    <2>1. m * (k * p + s) = (m * k) * p + m * s
      BY <1>2, Z3
    <2> QED BY <1>1, <1>2, <2>1, Z3
  <1> HIDE DEF n
  <1>6. w \div n = p
    BY <1>2, <1>3, <1>4, <1>5, DivisionUnique
  <1> QED BY <1>6 DEF n, p, q

\* The remainder of the next number.
LEMMA NextRemainder ==
  ASSUME NEW w \in Int, NEW m \in Nat \ {0}
  PROVE  (w + 1) % m = ((w % m) + 1) % m
  <1> DEFINE q == w \div m
             r == w % m
  <1>1. q \in Int /\ r \in 0..(m - 1) /\ w = m * q + r
    BY Division
  <1> HIDE DEF q, r
  <1>2. CASE r + 1 < m
    <2>1. r + 1 \in 0..(m - 1) /\ w + 1 = m * q + (r + 1) /\ r + 1 = m * 0 + (r + 1)
      BY <1>1, <1>2, Z3
    <2>2. (w + 1) % m = r + 1
      <3> DEFINE v == w + 1
                 u == r + 1
      <3>1. u \in 0..(m - 1) /\ v = m * q + u
        BY <2>1
      <3> HIDE DEF v, u
      <3>2. v % m = u
        BY <1>1, <3>1, DivisionUnique
      <3> QED BY <3>2 DEF v, u
    <2>3. (r + 1) % m = r + 1
      BY <2>1, DivisionUnique, 0 \in Int
    <2> QED BY <2>2, <2>3 DEF r
  <1>3. CASE r + 1 = m
    <2>1. 0 \in 0..(m - 1) /\ r + 1 = m * 1 + 0 /\ q + 1 \in Int
      BY <1>1, <1>3, Z3
    <2>3. m * (q + 1) + 0 = m * q + m
      BY <1>1, Z3
    <2>4. w + 1 = m * (q + 1) + 0
      BY <1>1, <1>3, <2>3, Z3
    <2>2. (w + 1) % m = 0 /\ (r + 1) % m = 0
      BY <1>1, <2>1, <2>4, DivisionUnique
    <2> QED BY <2>2 DEF r
  <1> QED BY <1>1, <1>2, <1>3

-----------------------------------------------------------------------------
(* The clock.                                                              *)

\* What is known of the time zone and its clock.
LEMMA ZoneFacts ==
  ASSUME zone \in Zones, OnTheHour(zone)
  PROVE  /\ zone.at \in Int /\ zone.before \in Int /\ zone.after \in Int
         /\ zone.unclear \in {zone.before, zone.after}
         /\ MinutesPerHour \in Nat \ {0} /\ HoursPerDay \in Nat \ {0}
         /\ (zone.at + zone.before) % MinutesPerHour = 0
         /\ zone.after - zone.before <= MinutesPerHour
         /\ zone.before - zone.after <= MinutesPerHour
         /\ (zone.at + zone.before) % MinutesPerDay = 0 /\ zone.after > zone.before
              => zone.after - zone.before = MinutesPerHour
         /\ MinutesPerDay \in Nat \ {0}
         /\ MinutesPerDay = MinutesPerHour * HoursPerDay
         /\ \A t \in Int : /\ Wall(t) \in Int
                           /\ t < zone.at => Wall(t) = t + zone.before
                           /\ t >= zone.at => Wall(t) = t + zone.after
  <1>1. MinutesPerHour \in Nat \ {0} /\ HoursPerDay \in Nat \ {0}
    BY CronAssumption
  <1>2. MinutesPerDay \in Nat \ {0} /\ MinutesPerDay = MinutesPerHour * HoursPerDay
    BY <1>1 DEF MinutesPerDay
  <1>3. /\ {zone.at, zone.before, zone.after} \subseteq Int
        /\ zone.unclear \in {zone.before, zone.after}
    BY ZoneAssumption, Zenon
  <1>4. /\ (zone.at + zone.before) % MinutesPerHour = 0
        /\ zone.after - zone.before \in (-MinutesPerHour)..MinutesPerHour
        /\ (zone.at + zone.before) % MinutesPerDay = 0 /\ zone.after > zone.before
             => zone.after - zone.before = MinutesPerHour
    BY Zenon DEF OnTheHour
  <1> HIDE DEF MinutesPerDay
  <1>5. zone.at \in Int /\ zone.before \in Int /\ zone.after \in Int
    BY <1>3
  <1>6. \A t \in Int : /\ Wall(t) \in Int
                       /\ t < zone.at => Wall(t) = t + zone.before
                       /\ t >= zone.at => Wall(t) = t + zone.after
    BY <1>5 DEF Wall
  <1> QED BY <1>1, <1>2, <1>3, <1>4, <1>5, <1>6

\* The day follows from the hour.
LEMMA DayOfHour ==
  ASSUME zone \in Zones, OnTheHour(zone), NEW t \in Int
  PROVE  DayNumber(t) = (Wall(t) \div MinutesPerHour) \div HoursPerDay
  <1>1. /\ Wall(t) \in Int /\ MinutesPerHour \in Nat \ {0} /\ HoursPerDay \in Nat \ {0}
        /\ MinutesPerDay = MinutesPerHour * HoursPerDay
    BY ZoneFacts
  <1>2. Wall(t) \div (MinutesPerHour * HoursPerDay) = (Wall(t) \div MinutesPerHour) \div HoursPerDay
    BY <1>1, DivisionTwice
  <1> QED BY <1>1, <1>2 DEF DayNumber

\* The hours of the wall clock do not go back: not even if the offset does.
LEMMA HoursAdvance ==
  ASSUME zone \in Zones, OnTheHour(zone), NEW m \in Int, NEW n \in Int, m <= n
  PROVE  /\ Wall(m) \div MinutesPerHour <= Wall(n) \div MinutesPerHour
         /\ DayNumber(m) <= DayNumber(n)
  <1> DEFINE H == MinutesPerHour
             W(t) == Wall(t)
             turn == zone.at
             before == zone.before
             after1 == zone.after
  <1>1. /\ turn \in Int /\ before \in Int /\ after1 \in Int /\ H \in Nat \ {0}
        /\ (turn + before) % H = 0 /\ before - after1 <= H
        /\ W(m) \in Int /\ W(n) \in Int
        /\ m < turn => W(m) = m + before
        /\ m >= turn => W(m) = m + after1
        /\ n < turn => W(n) = n + before
        /\ n >= turn => W(n) = n + after1
    BY ZoneFacts
  <1> HIDE DEF H, W, turn, before, after1
  <1>2. ASSUME W(m) <= W(n) PROVE W(m) \div H <= W(n) \div H
    BY <1>1, <1>2, DivisionMonotone
  <1>3. ASSUME W(n) < W(m) PROVE W(m) \div H <= W(n) \div H
    <2>1. m < turn /\ n >= turn /\ W(m) = m + before /\ W(n) = n + after1
      BY <1>1, <1>3
    <2> DEFINE q == (turn + before) \div H
    <2>2. q \in Int /\ turn + before = H * q
      <3>1. turn + before \in Int /\ (turn + before) % H = 0
        BY <1>1
      <3> DEFINE sum == turn + before
      <3> HIDE DEF sum
      <3>2. sum \in Int /\ sum % H = 0
        BY <3>1 DEF sum
      <3>3. sum \div H \in Int /\ sum = H * (sum \div H) + 0
        BY <1>1, <3>2, Division
      <3>4. H * (sum \div H) + 0 = H * (sum \div H)
        BY <1>1, <3>3
      <3> QED BY <3>3, <3>4 DEF sum
    <2> HIDE DEF q
    <2>3. W(m) < H * q
      BY <1>1, <2>1, <2>2
    <2>4. W(n) >= H * q - H
      <3> DEFINE p == H * q
      <3>1. p \in Int
        BY <1>1, <2>2
      <3> HIDE DEF p
      <3>2. p = turn + before
        BY <2>2 DEF p
      <3>3. W(n) >= p - H
        BY <1>1, <2>1, <3>1, <3>2
      <3> QED BY <3>3 DEF p
    <2>5. H * q - H = H * (q - 1)
      BY <1>1, <2>2, Z3
    <2>6. q - 1 \in Int
      BY <2>2
    <2>7. W(m) \div H < q
      BY <1>1, <2>2, <2>3, DivisionBounds
    <2>8. ~(W(n) \div H < q - 1)
      BY <1>1, <2>4, <2>5, <2>6, DivisionBounds
    <2>9. W(m) \div H \in Int /\ W(n) \div H \in Int
      BY <1>1, Division
    <2> QED BY <2>2, <2>7, <2>8, <2>9
  <1>4. W(m) \div H <= W(n) \div H
    BY <1>1, <1>2, <1>3
  <1>5. /\ DayNumber(m) = (W(m) \div H) \div HoursPerDay
        /\ DayNumber(n) = (W(n) \div H) \div HoursPerDay
    BY DayOfHour DEF H, W
  <1>6. W(m) \div H \in Int /\ W(n) \div H \in Int
    BY <1>1, Division
  <1>7. DayNumber(m) <= DayNumber(n)
    BY <1>4, <1>5, <1>6, ZoneFacts, DivisionMonotone
  <1> QED BY <1>4, <1>7 DEF H, W

\* Until the next full hour, the wall clock runs with the time.
LEMMA WithinHour ==
  ASSUME zone \in Zones, OnTheHour(zone), NEW n \in Int, NEW u \in Int,
         n <= u, u < n + MinutesPerHour - Minute(n)
  PROVE  /\ Minute(u) = Minute(n) + (u - n)
         /\ Hour(u) = Hour(n) /\ DayNumber(u) = DayNumber(n)
  <1> DEFINE H == MinutesPerHour
             wn == Wall(n)
             wu == Wall(u)
             turn == zone.at
             before == zone.before
             q == wn \div H
             r == wn % H
             p == (turn + before) \div H
  <1>1. /\ turn \in Int /\ before \in Int /\ H \in Nat \ {0}
        /\ (turn + before) % H = 0 /\ wn \in Int /\ wu \in Int
        /\ n < turn => wn = n + before
        /\ u < turn => wu = u + before
        /\ n >= turn => wn = n + zone.after
        /\ u >= turn => wu = u + zone.after
        /\ zone.after \in Int
    BY ZoneFacts
  <1>2. q \in Int /\ r \in 0..(H - 1) /\ wn = H * q + r
    BY <1>1, Division
  <1>3. p \in Int /\ turn + before = H * p
    <2>1. turn + before \in Int
      BY <1>1
    <2>2. p \in Int /\ turn + before = H * p + ((turn + before) % H)
      BY <1>1, <2>1, Division
    <2> QED BY <1>1, <2>2
  <1>4. u < n + H - r
    BY DEF Minute
  <1> HIDE DEF H, wn, wu, turn, before, q, r, p
  <1>5. ~(n < turn /\ turn <= u)
    <2> SUFFICES ASSUME n < turn, turn <= u PROVE FALSE
      OBVIOUS
    <2> DEFINE Hp == H * p
               Hq == H * q
    <2>1. Hp \in Int /\ Hq \in Int
      BY <1>1, <1>2, <1>3
    <2>2. Hq + r < Hp /\ Hp < Hq + H
      BY <1>1, <1>2, <1>3, <1>4, <2>1
    <2>3. H * q < H * p /\ H * p < H * q + H
      BY <1>1, <1>2, <2>1, <2>2
    <2>4. p <= q => H * p <= H * q
      BY <1>1, <1>2, <1>3, Z3
    <2>5. q < p => H * q + H <= H * p
      BY <1>1, <1>2, <1>3, Z3
    <2> QED BY <1>1, <1>2, <1>3, <2>1, <2>3, <2>4, <2>5
  <1>6. wu = wn + (u - n)
    BY <1>1, <1>5
  <1> DEFINE rest == r + (u - n)
             Hq == H * q
  <1>7. rest \in 0..(H - 1)
    BY <1>1, <1>2, <1>4
  <1>8. Hq \in Int /\ r \in Int /\ wn = Hq + r
    BY <1>1, <1>2
  <1> HIDE DEF Hq
  <1>9. wu = Hq + rest
    BY <1>6, <1>8
  <1> HIDE DEF rest
  <1>10. wu \div H = q /\ wu % H = rest
    <2>1. H \in Nat \ {0} /\ q \in Int /\ wu = H * q + rest
      BY <1>1, <1>2, <1>9 DEF Hq
    <2> QED BY <1>7, <2>1, DivisionUnique
  <1>11. Hour(u) = Hour(n) /\ Minute(u) = Minute(n) + (u - n)
    BY <1>10 DEF Hour, Minute, wu, wn, H, q, r, rest
  <1>12. /\ DayNumber(n) = (wn \div H) \div HoursPerDay
         /\ DayNumber(u) = (wu \div H) \div HoursPerDay
    BY DayOfHour DEF H, wn, wu
  <1> QED BY <1>10, <1>11, <1>12 DEF q

\* Whether a time matches depends on what the clock shows only.
LEMMA SameWall ==
  ASSUME NEW s, NEW t
  PROVE  /\ DayNumber(s) = DayNumber(t) =>
              (MonthMatches(s) <=> MonthMatches(t)) /\ (dayMatches(s) <=> dayMatches(t))
         /\ Wall(s) = Wall(t) => (Matches(s) <=> Matches(t))
  <1>1. ASSUME DayNumber(s) = DayNumber(t)
        PROVE  (MonthMatches(s) <=> MonthMatches(t)) /\ (dayMatches(s) <=> dayMatches(t))
    BY <1>1, Zenon DEF MonthMatches, dayMatches, Date, Weekday
  <1>2. ASSUME Wall(s) = Wall(t)
        PROVE  /\ DayNumber(s) = DayNumber(t)
               /\ Hour(s) = Hour(t) /\ Minute(s) = Minute(t)
    BY <1>2, Zenon DEF DayNumber, Hour, Minute
  <1> QED BY <1>1, <1>2, Zenon DEF Matches

-----------------------------------------------------------------------------
\* The minutes of a schedule are minutes of an hour.
LEMMA MinutesType ==
  ASSUME sched \in Schedules, sched.kind = "fields"
  PROVE  sched.minutes \subseteq 0..(MinutesPerHour - 1)
  <1>1. PICK spec \in Specs : sched = Parse(spec)
    BY DEF Schedules
  <1>2. sched.minutes = ParseField(spec.minutes, MinutesPerHour, FALSE, FALSE)
    BY <1>1 DEF Parse
  <1>3. MinutesPerHour \in Nat \ {0}
    BY CronAssumption
  <1>4. spec.minutes \subseteq [from : Int, to : Int, step : Nat]
    BY CronAssumption
  <1>5. ASSUME NEW part \in [from : Int, to : Int, step : Nat]
        PROVE  ParsePart(part, MinutesPerHour, FALSE, FALSE) \subseteq 0..(MinutesPerHour - 1)
    <2> DEFINE size == MinutesPerHour
               from == IF part.from = Star THEN 0 ELSE part.from
               to == CASE part.from = Star -> size - 1
                       [] part.to = Star   -> from
                       [] OTHER            -> part.to
               step == IF part.step = 0 THEN 1 ELSE part.step
    <2>1. from \in Int /\ to \in Int
      BY <1>3
    <2>2. \A i \in Int : i % size \in 0..(size - 1)
      BY <1>3, Division
    <2>3. ParsePart(part, size, FALSE, FALSE)
            \subseteq {i % size : i \in {j \in from..to : (j - from) % step = 0}}
      BY Zenon DEF ParsePart, ParseValue, Invalid
    <2>4. from..to \subseteq Int
      BY <2>1
    <2> HIDE DEF from, to, step, size
    <2>5. {i % size : i \in {j \in from..to : (j - from) % step = 0}} \subseteq 0..(size - 1)
      BY <2>2, <2>4, Zenon
    <2> QED BY <2>3, <2>5 DEF size
  <1>6. ParseField(spec.minutes, MinutesPerHour, FALSE, FALSE) \subseteq 0..(MinutesPerHour - 1)
    <2> DEFINE sets == {ParsePart(p, MinutesPerHour, FALSE, FALSE) : p \in spec.minutes}
    <2>1. \A x \in sets : x \subseteq 0..(MinutesPerHour - 1)
      BY <1>4, <1>5
    <2> HIDE DEF sets
    <2>2. UNION sets \subseteq 0..(MinutesPerHour - 1)
      BY <2>1
    <2> QED BY <2>2, Zenon DEF sets, ParseField, Invalid
  <1> QED BY <1>2, <1>6

-----------------------------------------------------------------------------
(* What the search may skip.                                               *)

\* From n, the search may go on at m: it passes over no match, unless package time takes
\* the second of two midnights.
Skippable(n, m) == FirstMidnight(zone) => \A t \in n..(m - 1) : ~Matches(t)

\* Two steps make one.
LEMMA SkippableSteps ==
  ASSUME NEW k \in Int, NEW n \in Int, NEW m \in Int, n <= m,
         Skippable(k, n), Skippable(n, m)
  PROVE  Skippable(k, m)
  <1> SUFFICES ASSUME FirstMidnight(zone), NEW t \in k..(m - 1) PROVE ~Matches(t)
    BY DEF Skippable
  <1>1. t \in k..(n - 1) \/ t \in n..(m - 1)
    OBVIOUS
  <1> QED BY <1>1 DEF Skippable

-----------------------------------------------------------------------------
(* Package time.                                                           *)

\* time.Date returns a time for which the clock shows what was asked for, if there is
\* just one, and else one of two, which the zone decides if there are two.
LEMMA InstantFacts ==
  ASSUME zone \in Zones, OnTheHour(zone), NEW w \in Int
  PROVE  LET early == w - zone.before
             late  == w - zone.after
         IN  /\ Instant(w) \in {early, late}
             /\ early < zone.at /\ late < zone.at => Instant(w) = early
             /\ early >= zone.at /\ late >= zone.at => Instant(w) = late
             /\ early < zone.at /\ late >= zone.at => Instant(w) = w - zone.unclear
  <1> DEFINE early == w - zone.before
             late == w - zone.after
             exact == {t \in {early, late} : Wall(t) = w}
  <1>1. /\ zone.at \in Int /\ zone.before \in Int /\ zone.after \in Int
        /\ zone.unclear \in {zone.before, zone.after}
        /\ \A t \in Int : /\ t < zone.at => Wall(t) = t + zone.before
                          /\ t >= zone.at => Wall(t) = t + zone.after
    BY ZoneFacts
  <1>2. Instant(w) = IF Cardinality(exact) = 1 THEN Max(exact) ELSE w - zone.unclear
    BY DEF Instant
  <1>3. w - zone.unclear \in {early, late} /\ early \in Int /\ late \in Int
    BY <1>1
  <1>4. \A x \in {early, late} : exact = {x} => Instant(w) = x
    <2> SUFFICES ASSUME NEW x \in {early, late}, exact = {x}
                 PROVE  Instant(w) = x
      OBVIOUS
    <2>1. Cardinality({x}) = 1
      BY FS_Singleton
    <2>2. x \in Int
      BY <1>3
    <2>3. Max({x}) = x
      BY <2>2 DEF Max
    <2> QED BY <1>2, <2>1, <2>3
  <1>5. ASSUME Cardinality(exact) = 1
        PROVE  \E x \in {early, late} : exact = {x}
    <2>1. IsFiniteSet(exact)
      <3>1. IsFiniteSet({early}) /\ {early, late} = {early} \cup {late}
        BY FS_Singleton
      <3>2. IsFiniteSet({early, late})
        BY <3>1, FS_AddElement
      <3>3. exact \subseteq {early, late}
        OBVIOUS
      <3> HIDE DEF exact, early, late
      <3> QED BY <3>2, <3>3, FS_Subset
    <2>2. PICK x : exact = {x}
      BY <1>5, <2>1, FS_Singleton
    <2>3. x \in exact
      BY <2>2
    <2> QED BY <2>2, <2>3
  <1>6. Instant(w) \in {early, late}
    <2>1. CASE Cardinality(exact) = 1
      BY <1>4, <1>5, <2>1
    <2>2. CASE Cardinality(exact) # 1
      BY <1>2, <1>3, <2>2
    <2> QED BY <2>1, <2>2
  <1>7. ASSUME early < zone.at, late < zone.at
        PROVE  Instant(w) = early
    <2>1. Wall(early) = w /\ (Wall(late) = w => late = early)
      BY <1>1, <1>3, <1>7
    <2>2. exact = {early}
      BY <2>1
    <2> QED BY <1>4, <2>2
  <1>8. ASSUME early >= zone.at, late >= zone.at
        PROVE  Instant(w) = late
    <2>1. Wall(late) = w /\ (Wall(early) = w => late = early)
      BY <1>1, <1>3, <1>8
    <2>2. exact = {late}
      BY <2>1
    <2> QED BY <1>4, <2>2
  <1>9. ASSUME early < zone.at, late >= zone.at
        PROVE  Instant(w) = w - zone.unclear
    <2>1. Wall(early) = w /\ Wall(late) = w /\ early # late
      BY <1>1, <1>3, <1>9
    <2>2. Cardinality(exact) # 1
      BY <1>5, <2>1
    <2> QED BY <1>2, <2>2
  <1> QED BY <1>6, <1>7, <1>8, <1>9

\* The dates of the cycle, one day after the other.
LEMMA CalendarFacts ==
  /\ CycleDays \in Nat \ {0}
  /\ \A k \in Int : k % CycleDays \in Days
  /\ \A k \in Days :
       /\ DateOf[k].day \in Nat /\ DateOf[k].length \in Nat
       /\ DateOf[k].day >= 1 /\ DateOf[k].day <= DateOf[k].length
       /\ DateOf[k].day < DateOf[k].length =>
            /\ DateOf[(k + 1) % CycleDays].day = DateOf[k].day + 1
            /\ DateOf[(k + 1) % CycleDays].month = DateOf[k].month
            /\ DateOf[(k + 1) % CycleDays].length = DateOf[k].length
  <1> DEFINE Record == [year : Nat, month : Nat, length : Nat, day : Nat]
  <1>1. CycleDays \in Nat \ {0}
    BY CalendarAssumption DEF CycleDays
  <1>2. \A k \in Int : k % CycleDays \in Days
    BY <1>1, Division DEF Days
  <1>3. \A k \in Days : DateOf[k] \in Record
    <2> SUFFICES ASSUME NEW k \in Days PROVE Calendar[k + 1] \in Record
      BY DEF DateOf
    <2>1. k + 1 \in 1..Len(Calendar)
      BY <1>1 DEF Days, CycleDays
    <2>2. Calendar \in Seq(Record)
      BY CalendarAssumption
    <2> HIDE DEF Record
    <2> QED BY <2>1, <2>2
  <1>4. ASSUME NEW k \in Days
        PROVE  /\ DateOf[k].day \in 1..DateOf[k].length
               /\ DateOf[k].day < DateOf[k].length =>
                    DateOf[(k + 1) % CycleDays] = [DateOf[k] EXCEPT !.day = @ + 1]
    BY CalendarAssumption, Zenon
  <1>5. ASSUME NEW k \in Days
        PROVE  /\ DateOf[k].day \in Nat /\ DateOf[k].length \in Nat
               /\ DateOf[k].day >= 1 /\ DateOf[k].day <= DateOf[k].length
               /\ DateOf[k].day < DateOf[k].length =>
                    /\ DateOf[(k + 1) % CycleDays].day = DateOf[k].day + 1
                    /\ DateOf[(k + 1) % CycleDays].month = DateOf[k].month
                    /\ DateOf[(k + 1) % CycleDays].length = DateOf[k].length
    <2> DEFINE today == DateOf[k]
               tomorrow == DateOf[(k + 1) % CycleDays]
    <2>1. /\ today \in Record /\ today.day \in 1..today.length
          /\ today.day < today.length => tomorrow = [today EXCEPT !.day = @ + 1]
      BY <1>3, <1>4
    <2> HIDE DEF today, tomorrow
    <2>2. /\ today.day \in Nat /\ today.length \in Nat
          /\ today.day >= 1 /\ today.day <= today.length
          /\ today.day < today.length => /\ tomorrow.day = today.day + 1
                                         /\ tomorrow.month = today.month
                                         /\ tomorrow.length = today.length
      BY <2>1
    <2> QED BY <2>2 DEF today, tomorrow
  <1> QED BY <1>1, <1>2, <1>5

\* Until the end of the month, the month stays the same.
LEMMA MonthGoesOn ==
  ASSUME NEW k \in Int, NEW j \in Nat,
         DateOf[k % CycleDays].day + j <= DateOf[k % CycleDays].length
  PROVE  DateOf[(k + j) % CycleDays].month = DateOf[k % CycleDays].month
  <1> DEFINE D(i) == DateOf[(k + i) % CycleDays]
             Same(i) == /\ D(i).month = D(0).month /\ D(i).length = D(0).length
                        /\ D(i).day = D(0).day + i
             Bad == {i \in 0..j : ~Same(i)}
  <1>1. /\ \A i \in Int : (k + i) % CycleDays \in Days
        /\ k + 0 = k /\ D(0).day \in Nat /\ D(0).length \in Nat
        /\ D(0).day + j <= D(0).length
    <2>1. \A i \in Int : (k + i) % CycleDays \in Days
      BY CalendarFacts
    <2>2. k + 0 = k
      OBVIOUS
    <2>3. D(0) = DateOf[k % CycleDays] /\ k % CycleDays \in Days
      BY <2>2, CalendarFacts
    <2> QED BY <2>1, <2>2, <2>3, CalendarFacts
  <1>2. \A i \in Nat : D(i + 1) = DateOf[(((k + i) % CycleDays) + 1) % CycleDays]
    <2> SUFFICES ASSUME NEW i \in Nat
                 PROVE  (k + (i + 1)) % CycleDays = (((k + i) % CycleDays) + 1) % CycleDays
      OBVIOUS
    <2> DEFINE w == k + i
    <2>1. w \in Int /\ k + (i + 1) = w + 1
      OBVIOUS
    <2> HIDE DEF w
    <2>2. (w + 1) % CycleDays = ((w % CycleDays) + 1) % CycleDays
      BY <2>1, CalendarFacts, NextRemainder
    <2> QED BY <2>1, <2>2 DEF w
  <1>3. \A i \in Nat : /\ D(i).day \in Nat /\ D(i).length \in Nat
                       /\ D(i).day < D(i).length =>
                            /\ D(i + 1).day = D(i).day + 1
                            /\ D(i + 1).month = D(i).month
                            /\ D(i + 1).length = D(i).length
    <2> SUFFICES ASSUME NEW i \in Nat
                 PROVE  /\ D(i).day \in Nat /\ D(i).length \in Nat
                        /\ D(i).day < D(i).length =>
                             /\ D(i + 1).day = D(i).day + 1
                             /\ D(i + 1).month = D(i).month
                             /\ D(i + 1).length = D(i).length
      OBVIOUS
    <2> DEFINE h == (k + i) % CycleDays
    <2>1. h \in Days /\ D(i) = DateOf[h] /\ D(i + 1) = DateOf[(h + 1) % CycleDays]
      BY <1>1, <1>2
    <2> HIDE DEF h, D
    <2> QED BY <2>1, CalendarFacts
  <1> HIDE DEF D
  <1>4. Bad = {}
    <2> SUFFICES ASSUME Bad # {} PROVE FALSE
      OBVIOUS
    <2>1. PICK i \in Bad : \A h \in Bad : i <= h
      BY LeastNatural, Bad \subseteq Nat
    <2>2. i \in Nat /\ i <= j /\ ~Same(i)
      BY <2>1
    <2>3. i # 0
      BY <1>1, <2>2
    <2>4. i - 1 \in Nat /\ i - 1 \in 0..j /\ i - 1 \notin Bad /\ (i - 1) + 1 = i
      BY <2>1, <2>2, <2>3
    <2>5. Same(i - 1)
      BY <2>4
    <2>6. D(i - 1).day < D(i - 1).length
      BY <1>1, <2>2, <2>4, <2>5
    <2>7. Same(i)
      BY <1>1, <1>3, <2>4, <2>5, <2>6
    <2> QED BY <2>2, <2>7
  <1>5. Same(j)
    BY <1>4
  <1> QED BY <1>1, <1>5 DEF D

-----------------------------------------------------------------------------
(* The steps of the search.                                                *)

\* From n to the start of a later day, with no match on the days in between.  Both
\* midnight and the change of the offset are full hours of the clock.  If midnight comes
\* twice, n is before both; if it does not come, n is before the change, which leads to
\* 1 AM.
LEMMA MidnightSkippable ==
  ASSUME zone \in Zones, OnTheHour(zone), NEW n \in Int, NEW day \in Int, DayNumber(n) < day,
         \A t \in Int : t >= n /\ Matches(t) => DayNumber(t) >= day,
         NEW m, m = IF At(day, 0) > n THEN At(day, 0) ELSE At(day, 1)
  PROVE  m \in Int /\ n < m /\ Skippable(n, m)
  <1> DEFINE H == MinutesPerHour
             start == day * MinutesPerDay
             turn == zone.at
             before == zone.before
             later == zone.after
             change == turn + before
             W(t) == Wall(t)
             early == start - before
             late == start - later
  <1>1. /\ turn \in Int /\ before \in Int /\ later \in Int /\ H \in Nat \ {0}
        /\ change % H = 0
        /\ later - before <= H /\ before - later <= H
        /\ MinutesPerDay \in Nat \ {0} /\ MinutesPerDay = H * HoursPerDay
        /\ HoursPerDay \in Nat \ {0}
        /\ change % MinutesPerDay = 0 /\ later > before => later - before = H
        /\ \A t \in Int : /\ W(t) \in Int
                          /\ t < turn => W(t) = t + before
                          /\ t >= turn => W(t) = t + later
    BY ZoneFacts
  <1>2. start \in Int /\ change \in Int
    BY <1>1
  <1>3. /\ start < change => start <= change - H
        /\ start > change => start >= change + H
    <2> DEFINE p == change \div H
               q == HoursPerDay * day
    <2>1. p \in Int /\ q \in Int
      BY <1>1, <1>2, Division
    <2>2. change = H * p
      <3>1. change = H * p + (change % H)
        BY <1>1, <1>2, Division
      <3> HIDE DEF change
      <3>2. H * p \in Int
        BY <1>1, <2>1
      <3> QED BY <1>1, <3>1, <3>2
    <2>3. start = H * q
      BY <1>1, Z3
    <2> HIDE DEF p, q, start, change, H
    <2>4. q < p => H * q + H <= H * p
      BY <1>1, <2>1, Z3
    <2>5. p < q => H * p + H <= H * q
      BY <1>1, <2>1, Z3
    <2>6. p = q => H * p = H * q
      OBVIOUS
    <2> QED BY <1>1, <1>2, <2>1, <2>2, <2>3, <2>4, <2>5, <2>6
  <1>4. start % MinutesPerDay = 0
    <2>1. start = MinutesPerDay * day + 0
      BY <1>1
    <2>2. MinutesPerDay \in Nat \ {0}
      BY <1>1
    <2> HIDE DEF start
    <2>3. 0 \in 0..(MinutesPerDay - 1)
      BY <2>2
    <2> QED BY <2>1, <2>2, <2>3, DivisionUnique
  <1>5. W(n) < start
    <2>1. Wall(n) < MinutesPerDay * day
      BY <1>1, DivisionBounds DEF DayNumber
    <2> QED BY <1>1, <2>1
  <1>6. \A t \in Int : t >= n /\ Matches(t) => W(t) >= start
    <2> SUFFICES ASSUME NEW t \in Int, DayNumber(t) >= day PROVE W(t) >= start
      OBVIOUS
    <2>1. DayNumber(t) \in Int
      BY <1>1, Division DEF DayNumber
    <2>2. Wall(t) \in Int /\ MinutesPerDay \in Nat \ {0}
      BY <1>1
    <2>3. ~(Wall(t) \div MinutesPerDay < day)
      BY <2>1 DEF DayNumber
    <2>4. Wall(t) \div MinutesPerDay < day <=> Wall(t) < MinutesPerDay * day
      BY <2>2, DivisionBounds
    <2> QED BY <1>1, <2>3, <2>4
  <1>7. /\ At(day, 0) \in {early, late}
        /\ early < turn /\ late < turn => At(day, 0) = early
        /\ early >= turn /\ late >= turn => At(day, 0) = late
        /\ early < turn /\ late >= turn => At(day, 0) = start - zone.unclear
    <2>1. At(day, 0) = Instant(start)
      <3>1. start + 0 * H = start
        BY <1>1, <1>2
      <3> QED BY <3>1 DEF At
    <2> QED BY <1>2, <2>1, InstantFacts
  <1>8. early + H >= turn /\ late + H >= turn => At(day, 1) = late + H
    <2> DEFINE w == start + H
    <2>1. w \in Int /\ At(day, 1) = Instant(w)
      <3>1. start + 1 * H = w /\ w \in Int
        BY <1>1, <1>2
      <3> QED BY <3>1 DEF At
    <2>2. w - before = early + H /\ w - later = late + H
      BY <1>1, <1>2
    <2> HIDE DEF w
    <2> QED BY <2>1, <2>2, InstantFacts
  <1>9. /\ early = start - before /\ late = start - later /\ change = turn + before
        /\ early \in Int /\ late \in Int
    BY <1>1, <1>2
  <1> HIDE DEF H, start, turn, before, later, change, W, early, late
  \* Where the search goes on.
  <1>10. \/ early < turn /\ late < turn /\ m = early /\ n < early
         \/ early >= turn /\ late >= turn /\ m = late /\ n < late
         \/ early < turn /\ late >= turn /\ n < early /\ n < late /\ m = At(day, 0)
         \/ early >= turn /\ late < turn /\ n < m /\ n < turn /\ (m = late \/ m = turn)
    <2>1. n < turn => W(n) = n + before
      BY <1>1
    <2>2. n >= turn => W(n) = n + later
      BY <1>1
    <2>3. CASE early < turn /\ late < turn
      <3>1. At(day, 0) = early
        BY <1>7, <2>3
      <3>2. n < early
        BY <1>1, <1>2, <1>5, <1>9, <2>1, <2>2, <2>3
      <3> QED BY <1>9, <2>3, <3>1, <3>2
    <2>4. CASE early >= turn /\ late >= turn
      <3>1. At(day, 0) = late
        BY <1>7, <2>4
      <3>2. n < late
        BY <1>1, <1>2, <1>5, <1>9, <2>1, <2>2, <2>4
      <3> QED BY <1>9, <2>4, <3>1, <3>2
    <2>5. CASE early < turn /\ late >= turn
      <3>1. start < change /\ start <= change - H
        BY <1>1, <1>2, <1>3, <1>9, <2>5
      <3>2. n < turn
        BY <1>1, <1>2, <1>5, <1>9, <2>2, <2>5, <3>1
      <3>3. n < early /\ n < late
        BY <1>1, <1>2, <1>5, <1>9, <2>1, <2>5, <3>2
      <3> QED BY <1>7, <1>9, <2>5, <3>3
    <2>6. CASE early >= turn /\ late < turn
      <3>1. start >= change /\ start < change + H /\ later > before
        BY <1>1, <1>2, <1>9, <2>6
      <3>2. start = change
        BY <1>1, <1>2, <1>3, <3>1
      <3>3. later - before = H
        BY <1>1, <1>4, <3>1, <3>2
      <3>4. early = turn /\ late = turn - H
        BY <1>1, <1>2, <1>9, <3>2, <3>3
      <3>5. n < turn
        BY <1>1, <1>2, <1>5, <1>9, <2>2, <3>2, <3>1
      <3>6. At(day, 1) = turn
        BY <1>1, <1>8, <1>9, <3>4
      <3>7. m = late \/ m = turn
        BY <1>7, <3>4, <3>6
      <3>8. n < m
        <4>1. CASE At(day, 0) > n
          BY <4>1
        <4>2. CASE ~(At(day, 0) > n)
          BY <3>5, <3>6, <4>2
        <4> QED BY <4>1, <4>2
      <3> QED BY <2>6, <3>5, <3>7, <3>8
    <2> QED BY <1>1, <1>9, <2>3, <2>4, <2>5, <2>6
  <1>11. m \in Int /\ n < m
    BY <1>1, <1>7, <1>9, <1>10
  <1>12. ASSUME FirstMidnight(zone), NEW t \in n..(m - 1), Matches(t)
         PROVE  FALSE
    <2>1. t \in Int /\ n <= t /\ t < m
      BY <1>11
    <2>2. W(t) >= start /\ (t < turn => W(t) = t + before) /\ (t >= turn => W(t) = t + later)
      BY <1>1, <1>6, <1>12, <2>1
    <2>3. /\ t < turn => t >= early
          /\ t >= turn => t >= late
      BY <1>1, <1>2, <1>9, <2>1, <2>2
    <2>4. early < turn /\ late >= turn /\ m = At(day, 0) /\ m = late
      BY <1>1, <1>7, <1>9, <1>10, <2>1, <2>3
    <2>5. zone.unclear # zone.before
      BY <1>1, <1>7, <1>9, <2>4 DEF before
    <2>6. start \in (turn + later)..(turn + before - 1)
      BY <1>1, <1>2, <1>9, <2>4
    <2> QED BY <1>4, <1>12, <2>5, <2>6 DEF FirstMidnight, turn, later, before
  <1> QED BY <1>11, <1>12 DEF Skippable

\* Up to the end of an hour that does not match.
LEMMA HourSkippable ==
  ASSUME zone \in Zones, OnTheHour(zone), NEW n \in Int, Hour(n) \notin sched.hours
  PROVE  LET m == n + MinutesPerHour - Minute(n)
         IN  m \in Int /\ n < m /\ Skippable(n, m)
  <1>1. /\ MinutesPerHour \in Nat \ {0} /\ Minute(n) \in 0..(MinutesPerHour - 1)
    BY ZoneFacts, Division DEF Minute
  <1> DEFINE m == n + MinutesPerHour - Minute(n)
  <1>2. m \in Int /\ n < m
    BY <1>1
  <1>3. ASSUME NEW t \in n..(m - 1)
        PROVE  ~Matches(t)
    <2>1. t \in Int /\ n <= t /\ t < m
      BY <1>2
    <2>2. Hour(t) = Hour(n)
      BY <2>1, WithinHour
    <2> QED BY <2>2 DEF Matches
  <1> QED BY <1>2, <1>3 DEF Skippable

\* Up to the next minute that matches, or the end of the hour.
LEMMA MinuteSkippable ==
  ASSUME zone \in Zones, OnTheHour(zone), sched \in Schedules, sched.kind = "fields",
         NEW n \in Int, Minute(n) \notin sched.minutes
  PROVE  LET rest == {i \in sched.minutes : i > Minute(n)}
             m == n - Minute(n) + (IF rest = {} THEN MinutesPerHour ELSE Min(rest))
         IN  m \in Int /\ n < m /\ Skippable(n, m)
  <1> DEFINE rest == {i \in sched.minutes : i > Minute(n)}
             end == IF rest = {} THEN MinutesPerHour ELSE Min(rest)
             m == n - Minute(n) + end
  <1>1. /\ MinutesPerHour \in Nat \ {0} /\ Minute(n) \in 0..(MinutesPerHour - 1)
    BY ZoneFacts, Division DEF Minute
  <1>2. sched.minutes \subseteq 0..(MinutesPerHour - 1)
    BY MinutesType
  <1>3. /\ end \in Int /\ end > Minute(n) /\ end <= MinutesPerHour
        /\ \A i \in sched.minutes : i <= Minute(n) \/ i >= end
    <2>1. CASE rest = {}
      BY <1>1, <1>2, <2>1
    <2>2. CASE rest # {}
      <3>1. rest \subseteq Nat
        BY <1>2
      <3>2. \E i \in rest : \A j \in rest : i <= j
        BY <2>2, <3>1, LeastNatural
      <3>3. Min(rest) \in rest /\ \A j \in rest : Min(rest) <= j
        BY <3>2, Zenon DEF Min
      <3>4. end = Min(rest)
        BY <2>2
      <3> HIDE DEF end
      <3>5. end \in sched.minutes /\ end > Minute(n) /\ \A j \in rest : end <= j
        BY <3>3, <3>4
      <3> QED BY <1>1, <1>2, <3>5
    <2> QED BY <2>1, <2>2
  <1> HIDE DEF end
  <1>4. m \in Int /\ n < m /\ m <= n + MinutesPerHour - Minute(n)
    BY <1>1, <1>3
  <1>5. ASSUME NEW t \in n..(m - 1)
        PROVE  ~Matches(t)
    <2>1. t \in Int /\ n <= t /\ t < m /\ t < n + MinutesPerHour - Minute(n)
      BY <1>1, <1>4
    <2>2. Minute(t) = Minute(n) + (t - n)
      BY <2>1, WithinHour
    <2>3. Minute(t) < end /\ (Minute(t) <= Minute(n) => Minute(t) = Minute(n))
      BY <1>1, <1>3, <2>1, <2>2
    <2>4. Minute(t) \in Int
      BY <1>1, <2>1, <2>2
    <2>5. Minute(t) \notin sched.minutes
      BY <1>3, <2>3, <2>4
    <2> QED BY <2>5 DEF Matches
  <1> QED BY <1>4, <1>5 DEF Skippable, end

\* Up to the end of a day that does not match.
LEMMA DaySkippable ==
  ASSUME zone \in Zones, OnTheHour(zone), NEW n \in Int, ~dayMatches(n)
  PROVE  /\ DayNumber(n) + 1 \in Int /\ DayNumber(n) < DayNumber(n) + 1
         /\ \A t \in Int : t >= n /\ Matches(t) => DayNumber(t) >= DayNumber(n) + 1
  <1>1. \A t \in Int : DayNumber(t) \in Int
    BY ZoneFacts, Division DEF DayNumber
  <1>2. ASSUME NEW t \in Int, t >= n, Matches(t)
        PROVE  DayNumber(t) >= DayNumber(n) + 1
    <2>1. DayNumber(t) # DayNumber(n)
      BY <1>2, SameWall DEF Matches
    <2>2. DayNumber(n) <= DayNumber(t)
      BY <1>2, HoursAdvance
    <2> QED BY <1>1, <2>1, <2>2
  <1> QED BY <1>1, <1>2

\* Up to the end of a month that does not match.
LEMMA MonthSkippable ==
  ASSUME zone \in Zones, OnTheHour(zone), NEW n \in Int, ~MonthMatches(n)
  PROVE  /\ NextMonth(n) \in Int /\ DayNumber(n) < NextMonth(n)
         /\ \A t \in Int : t >= n /\ Matches(t) => DayNumber(t) >= NextMonth(n)
  <1> DEFINE D(t) == DayNumber(t)
             date == DateOf[D(n) % CycleDays]
  <1>1. \A t \in Int : D(t) \in Int
    BY ZoneFacts, Division DEF DayNumber
  <1>2. Date(n) = date
    BY DEF Date
  <1>3. date.day \in Nat /\ date.length \in Nat /\ date.day <= date.length
    BY <1>1, CalendarFacts
  <1>4. NextMonth(n) = D(n) + 1 + date.length - date.day
    BY <1>2 DEF NextMonth
  <1>5. NextMonth(n) \in Int /\ D(n) < NextMonth(n)
    <2> HIDE DEF D, date
    <2> QED BY <1>1, <1>3, <1>4
  <1>6. ASSUME NEW t \in Int, t >= n, Matches(t), D(t) < NextMonth(n)
        PROVE  FALSE
    <2>1. D(n) <= D(t)
      BY <1>6, HoursAdvance
    <2> DEFINE j == D(t) - D(n)
    <2>2. j \in Nat /\ date.day + j <= date.length /\ D(n) + j = D(t)
      <3> HIDE DEF D, date
      <3> QED BY <1>1, <1>3, <1>4, <1>6, <2>1
    <2>3. DateOf[(D(n) + j) % CycleDays].month = date.month
      <3> HIDE DEF j
      <3>1. D(n) \in Int
        BY <1>1
      <3> HIDE DEF D
      <3> QED BY <2>2, <3>1, MonthGoesOn
    <2>4. DateOf[D(t) % CycleDays].month = date.month
      BY <2>2, <2>3
    <2>5. Date(t).month = Date(n).month
      BY <1>2, <2>4 DEF Date
    <2> QED BY <1>6, <2>5 DEF Matches, MonthMatches
  <1>7. \A t \in Int : t >= n /\ Matches(t) => D(t) >= NextMonth(n)
    <2> HIDE DEF D
    <2> QED BY <1>1, <1>5, <1>6
  <1> QED BY <1>5, <1>7

-----------------------------------------------------------------------------
\* Between after and next there is nothing but what the search may skip, if the offset
\* changes on the hour.
SearchInv ==
  /\ sched \in Schedules /\ zone \in Zones /\ OnTheHour(zone)
  /\ after \in Int /\ next \in Int
  /\ sched.kind = "fields" /\ pc # "idle" => after < next /\ Skippable(after + 1, next)
  /\ sched.kind = "fields" /\ pc = "returned" => Matches(next)
  /\ sched.kind = "fields" /\ pc = "none" => next >= limit
  /\ pc = "loop" => sched.kind = "fields"

\* The schedule and its time zone stay, so the same times match.
LEMMA SameMatches ==
  ASSUME sched' = sched, zone' = zone
  PROVE  /\ \A t : Matches(t)' <=> Matches(t)
         /\ FirstMidnight(zone)' <=> FirstMidnight(zone)
  <1>1. ASSUME NEW t PROVE Wall(t)' = Wall(t)
    BY Zenon DEF Wall
  <1>2. ASSUME NEW t PROVE Date(t)' = Date(t) /\ DayNumber(t)' = DayNumber(t)
    BY <1>1, Zenon DEF Date, DayNumber
  <1>3. ASSUME NEW t PROVE Matches(t)' <=> Matches(t)
    BY <1>1, <1>2, Zenon DEF Matches, MonthMatches, dayMatches, Hour, Minute, Weekday
  <1>4. FirstMidnight(zone)' <=> FirstMidnight(zone)
    BY Zenon DEF FirstMidnight
  <1> QED BY <1>3, <1>4

\* The search goes on at a later time, and may skip those in between.
LEMMA SkipKeepsInv ==
  ASSUME SearchInv, sched.kind = "fields", pc = "loop",
         UNCHANGED <<sched, oneTimeLeft, zone, pc, after, limit>>,
         next' \in Int, next < next', Skippable(next, next')
  PROVE  SearchInv'
  <1>1. /\ zone \in Zones /\ OnTheHour(zone)
        /\ after \in Int /\ next \in Int /\ after < next
        /\ Skippable(after + 1, next)
    BY DEF SearchInv
  <1>2. Skippable(after + 1, next')
    BY <1>1, SkippableSteps
  <1>3. Skippable(after + 1, next)'
    BY <1>2, SameMatches DEF Skippable
  <1> QED BY <1>1, <1>3 DEF SearchInv

\* Each of the four skips is such a step.
LEMMA SkipsAreSkippable ==
  ASSUME SearchInv, SkipMonth \/ SkipDay \/ SkipHour \/ SkipMinute
  PROVE  /\ pc = "loop" /\ sched.kind = "fields"
         /\ UNCHANGED <<sched, oneTimeLeft, zone, pc, after, limit>>
         /\ next' \in Int /\ next < next' /\ Skippable(next, next')
  <1>1. sched \in Schedules /\ zone \in Zones /\ OnTheHour(zone) /\ next \in Int
    BY DEF SearchInv
  <1>2. pc = "loop" /\ sched.kind = "fields"
    BY DEF SkipMonth, SkipDay, SkipHour, SkipMinute, Looking, SearchInv
  <1>3. ASSUME NEW day \in Int, SkipTo(day), DayNumber(next) < day,
               \A t \in Int : t >= next /\ Matches(t) => DayNumber(t) >= day
        PROVE  /\ UNCHANGED <<sched, oneTimeLeft, zone, pc, after, limit>>
               /\ next' \in Int /\ next < next' /\ Skippable(next, next')
    <2>1. /\ next' = IF At(day, 0) > next THEN At(day, 0) ELSE At(day, 1)
          /\ UNCHANGED <<sched, oneTimeLeft, zone, pc, after, limit>>
      BY <1>3 DEF SkipTo
    <2> QED BY <1>1, <1>3, <2>1, MidnightSkippable
  <1>4. CASE SkipMonth
    <2>1. ~MonthMatches(next) /\ SkipTo(NextMonth(next))
      BY <1>4 DEF SkipMonth
    <2> QED BY <1>1, <1>2, <1>3, <2>1, MonthSkippable
  <1>5. CASE SkipDay
    <2>1. ~dayMatches(next) /\ SkipTo(DayNumber(next) + 1)
      BY <1>5 DEF SkipDay
    <2> QED BY <1>1, <1>2, <1>3, <2>1, DaySkippable
  <1>6. CASE SkipHour
    <2>1. /\ Hour(next) \notin sched.hours
          /\ next' = next + MinutesPerHour - Minute(next)
          /\ UNCHANGED <<sched, oneTimeLeft, zone, pc, after, limit>>
      BY <1>6 DEF SkipHour
    <2> QED BY <1>1, <1>2, <2>1, HourSkippable
  <1>7. CASE SkipMinute
    <2> DEFINE rest == {m \in sched.minutes : m > Minute(next)}
    <2>1. /\ Minute(next) \notin sched.minutes
          /\ next' = next - Minute(next) + (IF rest = {} THEN MinutesPerHour ELSE Min(rest))
          /\ UNCHANGED <<sched, oneTimeLeft, zone, pc, after, limit>>
      BY <1>7 DEF SkipMinute
    <2> QED BY <1>1, <1>2, <2>1, MinuteSkippable
  <1> QED BY <1>4, <1>5, <1>6, <1>7

CronInv == OnTheHour(zone) => SearchInv

\* The invariant holds initially, and every step keeps it.
LEMMA CronInvInit ==
  CronInit => CronInv
  BY CronAssumption DEF CronInit, CronInv, SearchInv

LEMMA CronInvNext ==
  CronInv /\ [CronNext]_cronVars => CronInv'
  <1>0. [CronNext]_cronVars => zone' = zone
    BY DEF CronNext, Call, CallSimple, CronLoop, SkipMonth, SkipDay, SkipHour, SkipMinute,
           SkipTo, Found, NotFound, cronVars
  <1> SUFFICES ASSUME SearchInv, [CronNext]_cronVars PROVE SearchInv'
    BY <1>0 DEF CronInv, OnTheHour
  <1>1. /\ sched \in Schedules /\ zone \in Zones /\ OnTheHour(zone)
        /\ after \in Int /\ next \in Int
    BY DEF SearchInv
  <1>2. CASE Call
    <2>1. /\ sched' = sched /\ zone' = zone /\ pc' = "loop" /\ sched.kind = "fields"
          /\ after' = next /\ next' = next + 1
      BY <1>2 DEF Call
    <2>2. (after' + 1)..(next' - 1) = {}
      BY <1>1, <2>1
    <2>3. Skippable(after + 1, next)'
      BY <2>2 DEF Skippable
    <2> QED BY <1>1, <2>1, <2>3 DEF SearchInv
  <1>3. CASE CallSimple
    <2>1. sched' = sched /\ zone' = zone /\ after' = next
      BY <1>3 DEF CallSimple
    <2>2. sched.kind # "fields" /\ pc' # "loop"
      BY <1>3 DEF CallSimple
    <2>3. next' \in Int
      <3>1. CASE sched.kind = "every"
        <4>1. sched.interval \in Intervals
          <5>1. \A spec \in Specs : sched # Parse(spec)
            <6>1. \A spec \in Specs : Parse(spec).kind = "fields"
              BY DEF Parse
            <6> QED BY <3>1, <6>1
          <5>2. sched # [kind |-> "once"]
            BY <3>1
          <5>3. PICK i \in Intervals : sched = [kind |-> "every", interval |-> i]
            BY <1>1, <5>1, <5>2 DEF Schedules
          <5> QED BY <5>3
        <4>2. next' = next + sched.interval
          BY <1>3, <3>1 DEF CallSimple
        <4> QED BY <1>1, <4>1, <4>2, CronAssumption
      <3>2. CASE sched.kind # "every"
        <4>1. \E delay \in 0..1 : next' = next + delay \/ next' = next
          BY <1>3, <3>2 DEF CallSimple
        <4> QED BY <1>1, <4>1
      <3> QED BY <3>1, <3>2
    <2> QED BY <1>1, <2>1, <2>2, <2>3 DEF SearchInv
  <1>4. CASE SkipMonth \/ SkipDay \/ SkipHour \/ SkipMinute
    BY <1>4, SkipsAreSkippable, SkipKeepsInv
  <1>5. ASSUME UNCHANGED <<sched, zone, after, next, limit>>,
               \/ pc' = pc
               \/ pc = "loop" /\ pc' = "none" /\ next >= limit
               \/ pc = "loop" /\ pc' = "returned" /\ Matches(next)
        PROVE  SearchInv'
    <2>1. Skippable(after + 1, next)' <=> Skippable(after + 1, next)
      BY <1>5, SameMatches DEF Skippable
    <2>2. Matches(next)' <=> Matches(next)
      BY <1>5, SameMatches
    <2> QED BY <1>5, <2>1, <2>2 DEF SearchInv
  <1>6. CASE Found
    BY <1>5, <1>6 DEF Found, Looking
  <1>7. CASE NotFound
    BY <1>5, <1>7 DEF NotFound
  <1>8. CASE UNCHANGED cronVars
    BY <1>5, <1>8 DEF cronVars
  <1> QED BY <1>2, <1>3, <1>4, <1>6, <1>7, <1>8 DEF CronNext, CronLoop

\* Next returns the earliest match, for any schedule and calendar and any time zone whose
\* offset changes on the hour: no step of its search passes over a match, unless package
\* time takes the second of two midnights.
THEOREM NextFindsEarliest ==
  CronSpec => []NextIsEarliest
  <1>1. CronInv => NextIsEarliest
    BY DEF CronInv, SearchInv, NextIsEarliest, Earliest, Skippable
  <1> QED BY <1>1, CronInvInit, CronInvNext, PTL DEF CronSpec

\* Every step of the search of Next advances, also if there is no midnight: as many steps
\* as there are minutes up to its limit are enough.
THEOREM SearchAdvances ==
  CronSpec => [][OnTheHour(zone) /\ pc = "loop" /\ pc' = "loop" => next' > next]_next
  <1>1. ASSUME CronInv, [CronNext]_cronVars
        PROVE  [OnTheHour(zone) /\ pc = "loop" /\ pc' = "loop" => next' > next]_next
    <2>1. CASE SkipMonth \/ SkipDay \/ SkipHour \/ SkipMinute
      <3>1. ASSUME OnTheHour(zone) PROVE next \in Int /\ next' \in Int /\ next < next'
        BY <1>1, <2>1, <3>1, SkipsAreSkippable DEF SearchInv, CronInv
      <3> QED BY <3>1
    <2>2. CASE Found \/ NotFound
      BY <2>2 DEF Found, NotFound
    <2>3. CASE Call \/ CallSimple
      BY <2>3 DEF Call, CallSimple, CanCall
    <2>4. CASE UNCHANGED cronVars
      BY <2>4 DEF cronVars
    <2> QED BY <1>1, <2>1, <2>2, <2>3, <2>4 DEF CronNext, CronLoop
  <1> QED BY <1>1, CronInvInit, CronInvNext, PTL DEF CronSpec
=============================================================================
