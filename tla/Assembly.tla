------------------------------ MODULE Assembly ------------------------------
(***************************************************************************)
(* The process, put together from main and from any parts that keep their  *)
(* promises: collectors and receivers that implement Source, senders that  *)
(* implement Handoff.  PipelineProofs shows that Pipeline allows all that  *)
(* these parts may do, so that what holds of Pipeline holds of the         *)
(* detailed models, which implement the same two specifications.           *)
(*                                                                         *)
(* A hand-over is one step of two parts, and a step of Handoff with        *)
(* several items is as many steps here.  The DLQ is the one of Pipeline.   *)
(***************************************************************************)
EXTENDS Pipeline

\* A chunk as its collector or receiver sees it.
Work(x) == IF chunk[x] \in {"new", "hand", "void"} THEN chunk[x] ELSE "given"

AsSource(s) == INSTANCE Source WITH
  Data <- {x \in Chunks : Origin[x] = s},
  phase <- IF source[s] = "closing" THEN "closing"
           ELSE IF source[s] = "closed" THEN "done" ELSE "open",
  late <- s \in overdue,
  work <- [x \in {y \in Chunks : Origin[y] = s} |-> Work(x)]

\* A sender that gives up just when nothing is left has drained, as main sees it.
AsHandoff(s) == INSTANCE Handoff WITH
  Items <- {x \in Chunks : Target[x] = s},
  phase <- IF sender[s] = "open" THEN "open"
           ELSE IF sender[s] = "closed" /\ s \notin overdue THEN "drained" ELSE "closing",
  inside <- Inside(s),
  acked <- {x \in Chunks : Target[x] = s /\ chunk[x] = "acked"},
  rejected <- {x \in Chunks : Target[x] = s /\ chunk[x] \in {"dlq", "saved", "lost"}}

-----------------------------------------------------------------------------
(* What a part leaves alone.                                               *)

Started(s) == source[s] \in {"open", "closing", "closed"}

OnlySource(s) ==
  /\ source' \in [Sources -> Phases] /\ Started(s) /\ Started(s)'
  /\ overdue' \in SUBSET (Sources \cup Senders \cup {DLQ})
  /\ \A t \in Sources \ {s} : source'[t] = source[t]
  /\ overdue' \ {s} = overdue \ {s}
  /\ UNCHANGED <<mainVars, sender, chunk>>

OnlySender(s) ==
  /\ sender' = [sender EXCEPT ![s] = "closed"]
  /\ overdue' \in SUBSET (Sources \cup Senders \cup {DLQ})
  /\ overdue' \ {s} = overdue \ {s}
  /\ UNCHANGED <<mainVars, source, chunk>>

OnlyChunk(x) ==
  /\ chunk' \in [Chunks -> Places]
  /\ \A y \in Chunks \ {x} : chunk'[y] = chunk[y]
  /\ UNCHANGED <<mainVars, source, sender, overdue>>

-----------------------------------------------------------------------------
(* What the promises leave open.                                           *)

\* A collector closes by itself, a receiver is closed by main.
SourceStep(s) ==
  \/ OnlySource(s) /\ (AsSource(s)!Done \/ (s \in Collectors /\ AsSource(s)!BeginClose))
  \/ \E x \in Chunks :
       /\ Origin[x] = s /\ Started(s)
       /\ OnlyChunk(x)
       /\ AsSource(s)!Take(x) \/ AsSource(s)!Drop(x)

HandOver(x) ==
  /\ Started(Origin[x])
  /\ OnlyChunk(x)
  /\ AsSource(Origin[x])!Give(x)
  /\ IF Target[x] = DLQ THEN chunk'[x] = DeadLetter
     ELSE \/ AsHandoff(Target[x])!Accept({x})
          \/ AsHandoff(Target[x])!Refuse({x}) /\ chunk'[x] = DeadLetter

\* Close returns because the sender has drained, or in spite of what is left.
SenderStep(s) ==
  \/ /\ sender[s] = "closing"
     /\ OnlySender(s)
     /\ AsHandoff(s)!Drained \/ (Inside(s) # {} /\ s \in overdue')
  \/ \E x \in Chunks :
       /\ OnlyChunk(x)
       /\ AsHandoff(s)!Resolve({x})
       /\ chunk'[x] \in {"acked", DeadLetter}

MainNext == StartupNext \/ Interrupt \/ ShutdownNext

PartNext ==
  /\ Running
  /\ \/ \E s \in Sources : SourceStep(s)
     \/ \E s \in Senders : SenderStep(s)
     \/ \E x \in Chunks : HandOver(x) \/ Write(x)
     \/ SenderClosed(DLQ)

Assembled == Init /\ [][MainNext \/ PartNext]_vars
=============================================================================
