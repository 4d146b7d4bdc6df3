------------------------------ MODULE Receiver ------------------------------
(***************************************************************************)
(* The HTTP receiver (src/pkg/http/receiver.go, server.go): each request   *)
(* is read into memory and passed on to the sender, or to the dead-letter  *)
(* queue, while Close shuts the server down, closes it, and waits for the  *)
(* handlers that are left.                                                 *)
(*                                                                         *)
(* A handler may outlive its request: http.TimeoutHandler answers the      *)
(* client and leaves the handler running.  The status that a handler       *)
(* writes is sent when the handler has returned.  net/http and quic-go are *)
(* external: what they do is modelled as the receiver uses them.           *)
(***************************************************************************)
EXTENDS State

CONSTANT Requests

VARIABLES
  timeout,        \* a timeout is configured (0 and less mean none)
  server,         \* the TCP or UDP server, see Servers
  started,        \* Start was called
  stage,          \* where the handler of each request is
  handed,         \* what became of its body
  status,         \* the status that the handler wrote
  answer,         \* what the client got
  expired,        \* shutdownCtx is done
  timely          \* no handler outlived Close

requestVars == <<stage, handed, status, answer>>
vars == <<stateVars, timeout, server, started, requestVars, expired, timely>>

\* none: not started, or it failed to listen; shutdown: Server.Shutdown waits.
Servers == {"none", "serving", "shutdown", "closed"}

Stages == {"none", "arrived", "granted", "reading", "read", "ended"}

\* empty: there is nothing to pass on.
Fates == {"no", "sent", "rejected", "empty"}

\* 400 stands for 413 too.
Statuses == {"none", "202", "400", "422", "503"}

\* gone: the client left; cut: the server closed the connection.
Answers == Statuses \cup {"gone", "cut"}

Init ==
  /\ StateInit
  /\ timeout \in BOOLEAN
  /\ server = "none" /\ started = FALSE
  /\ stage = [q \in Requests |-> "none"]
  /\ handed = [q \in Requests |-> "no"]
  /\ status = [q \in Requests |-> "none"]
  /\ answer = [q \in Requests |-> "none"]
  /\ expired = FALSE /\ timely = TRUE

\* Start: the server is up, or it cannot listen on its address.
Start ==
  /\ ~started
  /\ started' = TRUE
  /\ server' \in {"serving", "none"}
  /\ UNCHANGED <<stateVars, timeout, requestVars, expired, timely>>

-----------------------------------------------------------------------------
(* ServeHTTP.                                                              *)

Goto(q, s) == stage' = [stage EXCEPT ![q] = s]

\* The handler returns: InProgress.Done, if it was counted.
Return(q, s, fate) ==
  /\ Goto(q, "ended")
  /\ status' = [status EXCEPT ![q] = s]
  /\ handed' = [handed EXCEPT ![q] = fate]

\* What InProgress counts.
InProgress == {q \in Requests : stage[q] \in {"reading", "read"}}

\* The server calls the handler; even if it was closed since it read the headers.
Arrive(q) ==
  /\ server # "none"
  /\ stage[q] = "none"
  /\ Goto(q, "arrived")
  /\ answer' = IF server = "closed" THEN [answer EXCEPT ![q] = "cut"] ELSE answer
  /\ UNCHANGED <<stateVars, timeout, server, started, handed, status, expired, timely>>

Refuse(q) ==
  /\ stage[q] = "arrived"
  /\ Refused
  /\ Return(q, "503", "no")
  /\ UNCHANGED <<stateVars, timeout, server, started, answer, expired, timely>>

Grant(q) ==
  /\ stage[q] = "arrived"
  /\ Granted(q)
  /\ Goto(q, "granted")
  /\ UNCHANGED <<timeout, server, started, handed, status, answer, expired, timely>>

\* InProgress.Add, under the lock.
Register(q) ==
  /\ stage[q] = "granted"
  /\ RUnlock(q)
  /\ Goto(q, "reading")
  /\ UNCHANGED <<timeout, server, started, handed, status, answer, expired, timely>>

ReadRequest(q) ==
  /\ stage[q] = "reading"
  /\ Goto(q, "read")
  /\ UNCHANGED <<stateVars, timeout, server, started, handed, status, answer,
                 expired, timely>>

\* The body is too large, or its reading fails.
ReadFails(q) ==
  /\ stage[q] = "reading"
  /\ Return(q, "400", "no")
  /\ UNCHANGED <<stateVars, timeout, server, started, answer, expired, timely>>

\* A body whose connection is gone, or whose request was answered, cannot be read.
ReadBroken(q) == answer[q] # "none" /\ ReadFails(q)

\* sendRequest: the request or its body goes to the sender, if there is anything in
\* it; a body that is not in the configured format goes to the DLQ.
SendRequest(q) ==
  /\ stage[q] = "read"
  /\ \/ \E fate \in {"sent", "empty"} : Return(q, "202", fate)
     \/ Return(q, "422", "rejected")
  /\ UNCHANGED <<stateVars, timeout, server, started, answer, expired, timely>>

-----------------------------------------------------------------------------
(* What the client gets.                                                   *)

Answer(q, a) ==
  /\ stage[q] # "none" /\ answer[q] = "none"
  /\ answer' = [answer EXCEPT ![q] = a]
  /\ UNCHANGED <<stateVars, timeout, server, started, stage, handed, status,
                 expired, timely>>

Respond(q) == stage[q] = "ended" /\ Answer(q, status[q])

\* TimeoutHandler.
TimesOut(q) == timeout /\ Answer(q, "503")

ClientLeaves(q) == Answer(q, "gone")

-----------------------------------------------------------------------------
(* Close.                                                                  *)

CloseCalled ==
  /\ started
  /\ AwaitCloseLock
  /\ UNCHANGED <<timeout, server, started, requestVars, expired, timely>>

CloseBegins ==
  /\ BeginClose
  /\ server' = IF server = "serving" THEN "shutdown" ELSE server
  /\ UNCHANGED <<timeout, started, requestVars, expired, timely>>

CloseTimesOut ==
  /\ closer = "grace" /\ ~expired
  /\ expired' = TRUE
  /\ UNCHANGED <<stateVars, timeout, server, started, requestVars, timely>>

\* No connection is active.
Idle == \A q \in Requests : stage[q] # "none" => answer[q] # "none"

\* Mutant: the server is closed without a grace period.
ShutdownEndsAtOnce == server = "shutdown"

\* Server.Shutdown returns.
ShutdownEnds == server = "shutdown" /\ (Idle \/ expired)

\* Mutant: the server is not closed after Shutdown.
LeaveOpen ==
  /\ ShutdownEnds
  /\ server' = "closed"
  /\ UNCHANGED <<stateVars, timeout, started, requestVars, expired, timely>>

\* Server.Close: the connections that are still active are closed.
ServerCloses ==
  /\ ShutdownEnds
  /\ server' = "closed"
  /\ answer' = [q \in Requests |-> IF stage[q] # "none" /\ answer[q] = "none"
                                     THEN "cut" ELSE answer[q]]
  /\ UNCHANGED <<stateVars, timeout, started, stage, handed, status, expired, timely>>

\* Mutant: idle connections are taken for the end of all handlers.
CloseReturnsWhenIdle ==
  /\ closer = "grace"
  /\ server \in {"none", "closed"}
  /\ timely' = ~expired
  /\ FinishClose("returned")
  /\ UNCHANGED <<timeout, server, started, requestVars, expired>>

CloseReturns ==
  /\ closer = "grace"
  /\ server \in {"none", "closed"}
  /\ InProgress = {} \/ expired
  /\ timely' = (InProgress = {})
  /\ FinishClose("returned")
  /\ UNCHANGED <<timeout, server, started, requestVars, expired>>

-----------------------------------------------------------------------------
HandlerNext(q) ==
  \/ Refuse(q) \/ Grant(q) \/ Register(q)
  \/ ReadRequest(q) \/ ReadFails(q) \/ SendRequest(q)

CloseNext == CloseBegins \/ CloseTimesOut \/ ServerCloses \/ CloseReturns

Next ==
  \/ Start \/ CloseCalled \/ CloseNext
  \/ \E q \in Requests :
       Arrive(q) \/ HandlerNext(q) \/ Respond(q) \/ TimesOut(q) \/ ClientLeaves(q)

Spec == Init /\ [][Next]_vars

\* Handlers and Close go on, timers fire, and Send returns; clients may send nothing,
\* so that only a broken connection ends the reading of a body.
Fairness ==
  /\ WF_vars(CloseNext)
  /\ \A q \in Requests :
       /\ WF_vars(Refuse(q) \/ Grant(q) \/ Register(q) \/ SendRequest(q))
       /\ WF_vars(ReadBroken(q))
       /\ WF_vars(Respond(q) \/ TimesOut(q))

FairSpec == Spec /\ Fairness

-----------------------------------------------------------------------------
(* Properties.                                                             *)

TypeOK ==
  /\ StateTypeOK(Requests)
  /\ timeout \in BOOLEAN /\ started \in BOOLEAN
  /\ expired \in BOOLEAN /\ timely \in BOOLEAN
  /\ server \in Servers
  /\ stage \in [Requests -> Stages]
  /\ handed \in [Requests -> Fates]
  /\ status \in [Requests -> Statuses]
  /\ answer \in [Requests -> Answers]

Passed == {q \in Requests : handed[q] \in {"sent", "rejected"}}

\* What a request is to main: work from when it is counted until its handler returns.
Work(q) == CASE stage[q] \in {"reading", "read"} -> "hand"
             [] handed[q] \in {"sent", "rejected"} -> "given"
             [] status[q] \in {"202", "400"} -> "void"
             [] OTHER -> "new"

\* What Close promises to main: no request is let in once it closes, and after it
\* returned nothing is passed on to the sender or to the DLQ, not even by handlers whose
\* clients were answered by a timeout, unless one of them outlived Close.
AsSource == INSTANCE Source WITH
              Data <- Requests,
              phase <- IF closed THEN "done" ELSE IF closing THEN "closing" ELSE "open",
              late <- ~timely,
              work <- [q \in Requests |-> Work(q)]

ImplementsSource == AsSource!Spec

\* A client can rely on what it is told: 202 and 422 mean that the data is with the
\* sender or the DLQ, and every refusal that is not due to a timeout means that it
\* is not.  A client whose data was passed on is cut off, without an answer, only
\* when Close ran out of time.
ClientsKnow ==
  \A q \in Requests :
    /\ answer[q] = "202" => handed[q] \in {"sent", "empty"}
    /\ answer[q] = "422" => handed[q] = "rejected"
    /\ answer[q] = "400" => handed[q] = "no"
    /\ answer[q] = "503" => timeout \/ handed[q] = "no"
    /\ answer[q] = "cut" /\ q \in Passed => expired

\* Close returns, although a client may keep its connection busy forever, and the
\* handlers that it leaves behind end.
CloseEnds ==
  /\ closer = "locking" ~> closed
  /\ server = "closed" ~> InProgress = {}
=============================================================================
