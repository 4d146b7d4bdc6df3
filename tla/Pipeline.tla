------------------------------ MODULE Pipeline ------------------------------
(***************************************************************************)
(* The process (src/cmd/versi): main starts the collectors and then the    *)
(* receivers, waits for an interrupt, and shuts everything down in order.  *)
(* Any start may fail, and any part may give up on late work when it       *)
(* closes.  A part is free to do what it promises and no more (Assembly).  *)
(*                                                                         *)
(* A chunk is a unit of work of a collector or a receiver and the data it  *)
(* yields.  initSenders was successful: otherwise main exits before        *)
(* anything runs.  The same goes for a configuration without any sources.  *)
(***************************************************************************)
EXTENDS Naturals, FiniteSets

CONSTANTS
  Collectors, Receivers, Senders,
  DLQ,            \* the dead-letter queue, which closes after the other senders
  Chunks,
  Origin,         \* the collector or receiver of each chunk
  Target,         \* where it passes the chunk on to: a sender, or the DLQ
  Workers         \* GOMAXPROCS

Sources == Collectors \cup Receivers

ASSUME PipelineAssumption ==
  /\ Collectors \cap Receivers = {}
  /\ DLQ \notin Sources \cup Senders
  /\ Sources \cap Senders = {}
  /\ Origin \in [Chunks -> Sources]
  /\ Target \in [Chunks -> Senders \cup {DLQ}]
  /\ Workers \in Nat \ {0}

VARIABLES
  main,           \* where main is, see Mains
  cancelled,      \* the context of the collectors is cancelled
  collectors,     \* what initCollectors returned
  receivers,      \* what initReceivers returned
  source,         \* the phase of each collector and receiver
  sender,         \* the phase of each sender, and of the DLQ
  overdue,        \* the parts that closed although they had work in progress
  chunk           \* where each chunk is

mainVars == <<main, cancelled, collectors, receivers>>
vars == <<mainVars, source, sender, overdue, chunk>>

\* The functions that main is in, and the three steps of shutdown.
Mains == {"initCollectors", "initReceivers", "closeReceivers", "waitForInterrupt",
          "awaitSources", "closeSenders", "closeDLQ", "exit"}

Phases == {"idle", "starting", "failed", "open", "closing", "closed"}

\* dlq: accepted by the DLQ; saved: and written, or given up on with an error.
Places == {"new", "hand", "void", "sender", "acked", "dlq", "saved", "lost"}

Init ==
  /\ main = "initCollectors" /\ cancelled = FALSE
  /\ collectors = {} /\ receivers = {}
  /\ source = [s \in Sources |-> "idle"]
  /\ sender = [s \in Senders \cup {DLQ} |-> "open"]
  /\ overdue = {}
  /\ chunk = [x \in Chunks |-> "new"]

Running == main # "exit"

-----------------------------------------------------------------------------
(* Startup.                                                                *)

\* main cancels the context and calls shutdown.
Abort(cs) ==
  /\ cancelled' = TRUE
  /\ main' = "awaitSources"
  /\ collectors' = cs
  /\ UNCHANGED receivers

\* An error in the configuration of a collector: none is started.
CollectorsInvalid ==
  /\ main = "initCollectors"
  /\ \A c \in Collectors : source[c] = "idle"
  /\ Abort({})
  /\ UNCHANGED <<source, sender, overdue, chunk>>

\* startCollectorsAsync: a worker of the pool takes the next one.
StartCollector(c) ==
  /\ main = "initCollectors"
  /\ source[c] = "idle"
  /\ Cardinality({d \in Collectors : source[d] = "starting"}) < Workers
  /\ source' = [source EXCEPT ![c] = "starting"]
  /\ UNCHANGED <<mainVars, sender, overdue, chunk>>

\* startCollectorSafely: Start succeeds, or it fails or panics; it begins no work
\* before it is about to succeed.
CollectorStarts(c) ==
  /\ Running
  /\ source[c] = "starting"
  /\ \E phase \in {"open", "failed"} : source' = [source EXCEPT ![c] = phase]
  /\ UNCHANGED <<mainVars, sender, overdue, chunk>>

CollectorsStarted ==
  LET started == {c \in Collectors : source[c] # "failed"}
  IN  /\ main = "initCollectors"
      /\ \A c \in Collectors : source[c] \notin {"idle", "starting"}
      /\ IF started = Collectors
           THEN main' = "initReceivers" /\ collectors' = started
                /\ UNCHANGED <<cancelled, receivers>>
           ELSE Abort(started)
      /\ UNCHANGED <<source, sender, overdue, chunk>>

ReceiversInvalid ==
  /\ main = "initReceivers"
  /\ \A r \in Receivers : source[r] = "idle"
  /\ Abort(collectors)
  /\ UNCHANGED <<source, sender, overdue, chunk>>

\* One after the other; a receiver that cannot listen does not stop the next one.
StartReceiver(r) ==
  /\ main = "initReceivers"
  /\ source[r] = "idle"
  /\ \E phase \in {"open", "failed"} : source' = [source EXCEPT ![r] = phase]
  /\ UNCHANGED <<mainVars, sender, overdue, chunk>>

\* Mutant: the receivers that did start are not closed if another one did not.
ReceiversLeftOpen ==
  /\ main = "initReceivers"
  /\ \A r \in Receivers : source[r] # "idle"
  /\ IF \E r \in Receivers : source[r] = "failed"
       THEN Abort(collectors)
       ELSE main' = "waitForInterrupt" /\ receivers' = Receivers
            /\ UNCHANGED <<cancelled, collectors>>
  /\ UNCHANGED <<source, sender, overdue, chunk>>

ReceiversStarted ==
  /\ main = "initReceivers"
  /\ \A r \in Receivers : source[r] # "idle"
  /\ IF \E r \in Receivers : source[r] = "failed"
       THEN main' = "closeReceivers" /\ UNCHANGED receivers
       ELSE main' = "waitForInterrupt" /\ receivers' = Receivers
  /\ UNCHANGED <<cancelled, collectors, source, sender, overdue, chunk>>

\* Some did not start: initReceivers closes all of them, one after the other.
CloseStartedReceiver(r) ==
  /\ main = "closeReceivers"
  /\ source[r] \in {"open", "failed"}
  /\ \A q \in Receivers : source[q] # "closing"
  /\ source' = [source EXCEPT ![r] = "closing"]
  /\ UNCHANGED <<mainVars, sender, overdue, chunk>>

ReceiversClosed ==
  /\ main = "closeReceivers"
  /\ \A r \in Receivers : source[r] = "closed"
  /\ Abort(collectors)
  /\ UNCHANGED <<source, sender, overdue, chunk>>

Interrupt ==
  /\ main = "waitForInterrupt"
  /\ Abort(collectors)
  /\ UNCHANGED <<source, sender, overdue, chunk>>

-----------------------------------------------------------------------------
(* shutdown.                                                               *)

\* All receivers are closed in parallel.
CloseReceiver(r) ==
  /\ main = "awaitSources"
  /\ r \in receivers /\ source[r] = "open"
  /\ source' = [source EXCEPT ![r] = "closing"]
  /\ UNCHANGED <<mainVars, sender, overdue, chunk>>

\* Mutant: shutdown waits for collectors that never started.
AllAwaited ==
  /\ main = "awaitSources"
  /\ \A s \in Collectors \cup receivers : source[s] = "closed"
  /\ main' = "closeSenders"
  /\ UNCHANGED <<cancelled, collectors, receivers, source, sender, overdue, chunk>>

\* Every collector in the list is done, and every receiver is closed.
SourcesAwaited ==
  /\ main = "awaitSources"
  /\ \A s \in collectors \cup receivers : source[s] = "closed"
  /\ main' = "closeSenders"
  /\ UNCHANGED <<cancelled, collectors, receivers, source, sender, overdue, chunk>>

\* Mutant: the DLQ is closed together with the other senders.
CloseAnySender(s) ==
  /\ main = "closeSenders"
  /\ sender[s] = "open"
  /\ sender' = [sender EXCEPT ![s] = "closing", ![DLQ] = "closing"]
  /\ UNCHANGED <<mainVars, source, overdue, chunk>>

CloseSender(s) ==
  /\ main = "closeSenders"
  /\ sender[s] = "open"
  /\ sender' = [sender EXCEPT ![s] = "closing"]
  /\ UNCHANGED <<mainVars, source, overdue, chunk>>

CloseDLQ ==
  /\ main = "closeSenders"
  /\ \A s \in Senders : sender[s] = "closed"
  /\ main' = "closeDLQ"
  /\ sender' = [sender EXCEPT ![DLQ] = "closing"]
  /\ UNCHANGED <<cancelled, collectors, receivers, source, overdue, chunk>>

Exit ==
  /\ main = "closeDLQ"
  /\ sender[DLQ] = "closed"
  /\ main' = "exit"
  /\ UNCHANGED <<cancelled, collectors, receivers, source, sender, overdue, chunk>>

-----------------------------------------------------------------------------
(* The parts.                                                              *)

InHand(s) == {x \in Chunks : Origin[x] = s /\ chunk[x] = "hand"}

Inside(s) ==
  {x \in Chunks : IF s = DLQ THEN chunk[x] = "dlq" ELSE chunk[x] = "sender" /\ Target[x] = s}

\* A collector begins to close when its context is cancelled, or when its schedule has
\* no instance left, which may be at any time and with work in progress.
CollectorCloses(c) ==
  /\ Running
  /\ source[c] = "open"
  /\ source' = [source EXCEPT ![c] = "closing"]
  /\ UNCHANGED <<mainVars, sender, overdue, chunk>>

\* The work has ended, or the timeouts are over.
SourceClosed(s) ==
  /\ Running
  /\ source[s] = "closing"
  /\ source' = [source EXCEPT ![s] = "closed"]
  /\ overdue' = IF InHand(s) = {} THEN overdue ELSE overdue \cup {s}
  /\ UNCHANGED <<mainVars, sender, chunk>>

SenderClosed(s) ==
  /\ Running
  /\ sender[s] = "closing"
  /\ sender' = [sender EXCEPT ![s] = "closed"]
  /\ overdue' = IF Inside(s) = {} THEN overdue ELSE overdue \cup {s}
  /\ UNCHANGED <<mainVars, source, chunk>>

Move(x, place) ==
  /\ Running
  /\ chunk' = [chunk EXCEPT ![x] = place]
  /\ UNCHANGED <<mainVars, source, sender, overdue>>

\* Work begins, as long as its collector or receiver is open.
Take(x) == chunk[x] = "new" /\ source[Origin[x]] = "open" /\ Move(x, "hand")

\* It yields nothing.
Fail(x) == chunk[x] = "hand" /\ Move(x, "void")

\* What the DLQ does with a chunk.
DeadLetter == IF sender[DLQ] = "open" THEN "dlq" ELSE "lost"

\* Send: a sender that closes hands the chunk to its fallback, the DLQ.
Send(x) ==
  /\ chunk[x] = "hand"
  /\ Move(x, IF Target[x] # DLQ /\ sender[Target[x]] = "open" THEN "sender" ELSE DeadLetter)

Deliver(x) == chunk[x] = "sender" /\ Move(x, "acked")

Reject(x) == chunk[x] = "sender" /\ Move(x, DeadLetter)

Write(x) == chunk[x] = "dlq" /\ Move(x, "saved")

-----------------------------------------------------------------------------
StartupNext ==
  \/ CollectorsInvalid \/ CollectorsStarted
  \/ ReceiversInvalid \/ ReceiversStarted \/ ReceiversClosed
  \/ \E c \in Collectors : StartCollector(c) \/ CollectorStarts(c)
  \/ \E r \in Receivers : StartReceiver(r) \/ CloseStartedReceiver(r)

ShutdownNext ==
  \/ SourcesAwaited \/ CloseDLQ \/ Exit
  \/ \E r \in Receivers : CloseReceiver(r)
  \/ \E s \in Senders : CloseSender(s)

ChunkNext(x) ==
  Take(x) \/ Fail(x) \/ Send(x) \/ Deliver(x) \/ Reject(x) \/ Write(x)

Next ==
  \/ StartupNext \/ Interrupt \/ ShutdownNext
  \/ \E c \in Collectors : CollectorCloses(c)
  \/ \E s \in Sources : SourceClosed(s)
  \/ \E s \in Senders \cup {DLQ} : SenderClosed(s)
  \/ \E x \in Chunks : ChunkNext(x)

Spec == Init /\ [][Next]_vars

\* main goes on, starting and closing take bounded time (each has its timeouts),
\* and a collector notices that it is cancelled.  No work has to end.
Fairness ==
  /\ WF_vars(StartupNext) /\ WF_vars(ShutdownNext)
  /\ \A c \in Collectors : WF_vars(cancelled /\ CollectorCloses(c))
  /\ \A s \in Sources : WF_vars(SourceClosed(s))
  /\ \A s \in Senders \cup {DLQ} : WF_vars(SenderClosed(s))

FairSpec == Spec /\ Fairness

-----------------------------------------------------------------------------
(* Properties.                                                             *)

TypeOK ==
  /\ main \in Mains /\ cancelled \in BOOLEAN
  /\ collectors \subseteq Collectors /\ receivers \subseteq Receivers
  /\ source \in [Sources -> Phases]
  /\ sender \in [Senders \cup {DLQ} -> Phases]
  /\ overdue \subseteq Sources \cup Senders \cup {DLQ}
  /\ chunk \in [Chunks -> Places]

\* Data flows only into open parts: when a sender begins to close every collector and
\* receiver that ever started has closed, also those that main found by then to be
\* useless because another part failed to start, and has nothing in hand that it
\* did not give up on; the same holds for the senders when the DLQ closes.
ClosedInOrder ==
  /\ (\E s \in Senders \cup {DLQ} : sender[s] # "open")
       => \A s \in Sources :
            /\ source[s] \in {"idle", "failed", "closed"}
            /\ InHand(s) # {} => s \in overdue
  /\ sender[DLQ] # "open"
       => \A s \in Senders : sender[s] = "closed" /\ (Inside(s) # {} => s \in overdue)

\* A chunk is lost, or left behind when the process exits, only if a part on its own
\* way gave up on it: no other part's failure or delay costs it.
LostOnlyIfLate ==
  \A x \in Chunks :
    /\ chunk[x] = "lost" => {Origin[x], Target[x]} \cap (overdue \ {DLQ}) # {}
    /\ main = "exit" => /\ chunk[x] = "hand" => Origin[x] \in overdue
                        /\ chunk[x] = "sender" => Target[x] \in overdue
                        /\ chunk[x] = "dlq" => DLQ \in overdue

\* Once the collectors are cancelled, by an interrupt or a failed start, the process
\* exits.
ShutdownEnds == cancelled ~> main = "exit"
=============================================================================
