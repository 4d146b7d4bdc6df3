--------------------------- MODULE ReceiverProofs ---------------------------
(***************************************************************************)
(* Proofs about Receiver, for any number of requests: the type invariant,  *)
(* what clients can rely on, and that the receiver implements Source.      *)
(***************************************************************************)
EXTENDS Receiver, TLAPS

\* How far Close has come; the server stops only in Close.
CloseKnown ==
  /\ closer \in {"open", "locking"} => ~closing
  /\ closer = "grace" => closing /\ ~closed
  /\ closed <=> closer = "returned"
  /\ closed => closing
  /\ server \in {"shutdown", "closed"} => closing

\* A handler that was let in holds the lock until it is counted, so that Close either
\* waits for it or was not called in time to refuse it.
HandlersKnown ==
  /\ \A q \in Requests : stage[q] = "granted" => q \in readers
  /\ closing => readers = {}
  /\ closed /\ timely => \A q \in Requests : stage[q] \notin {"reading", "read"}

\* What the status says is what became of the body.
StatusKnown ==
  \A q \in Requests :
    /\ stage[q] # "ended" => status[q] = "none" /\ handed[q] = "no"
    /\ stage[q] = "ended" =>
         \/ status[q] = "202" /\ handed[q] \in {"sent", "empty"}
         \/ status[q] = "422" /\ handed[q] = "rejected"
         \/ status[q] \in {"400", "503"} /\ handed[q] = "no"

\* What the answer says is what the status says, unless there was a timeout; and a
\* client that was cut off in time was not served.
AnswersKnown ==
  \A q \in Requests :
    /\ answer[q] \in {"202", "422", "400"} => stage[q] = "ended" /\ answer[q] = status[q]
    /\ answer[q] = "503" => timeout \/ (stage[q] = "ended" /\ status[q] = "503")
    /\ answer[q] = "cut" =>
         expired \/ (closing /\ handed[q] = "no" /\ stage[q] \in {"arrived", "ended"})

IInv == TypeOK /\ CloseKnown /\ HandlersKnown /\ StatusKnown /\ AnswersKnown

-----------------------------------------------------------------------------
\* Every variable keeps its type.
LEMMA TypeStep == TypeOK /\ [Next]_vars => TypeOK'
<1> SUFFICES ASSUME TypeOK, [Next]_vars PROVE TypeOK'
  OBVIOUS
<1> USE DEF TypeOK, StateTypeOK, Closers, Servers, Stages, Fates, Statuses, Answers,
            stateVars, requestVars
<1>1. CASE Start
  BY <1>1 DEF Start
<1>2. CASE CloseCalled
  BY <1>2 DEF CloseCalled, AwaitCloseLock
<1>3. CASE CloseBegins
  BY <1>3 DEF CloseBegins, BeginClose
<1>4. CASE CloseTimesOut
  BY <1>4 DEF CloseTimesOut
<1>5. CASE ServerCloses
  BY <1>5 DEF ServerCloses, ShutdownEnds, Idle
<1>6. CASE CloseReturns
  BY <1>6 DEF CloseReturns, FinishClose, InProgress
<1>7. ASSUME NEW q \in Requests, Arrive(q) PROVE TypeOK'
  BY <1>7 DEF Arrive, Goto
<1>8. ASSUME NEW q \in Requests, Refuse(q) PROVE TypeOK'
  BY <1>8 DEF Refuse, Return, Goto, Refused
<1>9. ASSUME NEW q \in Requests, Grant(q) PROVE TypeOK'
  BY <1>9 DEF Grant, Goto, Granted
<1>10. ASSUME NEW q \in Requests, Register(q) PROVE TypeOK'
  BY <1>10 DEF Register, Goto, RUnlock
<1>11. ASSUME NEW q \in Requests, ReadRequest(q) PROVE TypeOK'
  BY <1>11 DEF ReadRequest, Goto
<1>12. ASSUME NEW q \in Requests, ReadFails(q) PROVE TypeOK'
  BY <1>12 DEF ReadFails, Return, Goto
<1>13. ASSUME NEW q \in Requests, SendRequest(q) PROVE TypeOK'
  BY <1>13 DEF SendRequest, Return, Goto
<1>14. ASSUME NEW q \in Requests, Respond(q) PROVE TypeOK'
  BY <1>14 DEF Respond, Answer
<1>15. ASSUME NEW q \in Requests, TimesOut(q) PROVE TypeOK'
  BY <1>15 DEF TimesOut, Answer
<1>16. ASSUME NEW q \in Requests, ClientLeaves(q) PROVE TypeOK'
  BY <1>16 DEF ClientLeaves, Answer
<1>17. CASE UNCHANGED vars
  BY <1>17 DEF vars
<1> QED
  BY <1>1, <1>2, <1>3, <1>4, <1>5, <1>6, <1>7, <1>8, <1>9,
     <1>10, <1>11, <1>12, <1>13, <1>14, <1>15, <1>16, <1>17
  DEF Next, CloseNext, HandlerNext

\* Close begins, and ends, once.
LEMMA CloseStep == IInv /\ [Next]_vars => CloseKnown'
<1> SUFFICES ASSUME IInv, [Next]_vars PROVE CloseKnown'
  OBVIOUS
<1> USE DEF IInv, TypeOK, StateTypeOK, Closers, Servers, Stages, Fates, Statuses, Answers,
            stateVars, requestVars, CloseKnown
<1>1. CASE Start
  BY <1>1 DEF Start
<1>2. CASE CloseCalled
  BY <1>2 DEF CloseCalled, AwaitCloseLock
<1>3. CASE CloseBegins
  BY <1>3 DEF CloseBegins, BeginClose
<1>4. CASE CloseTimesOut
  BY <1>4 DEF CloseTimesOut
<1>5. CASE ServerCloses
  BY <1>5 DEF ServerCloses, ShutdownEnds, Idle
<1>6. CASE CloseReturns
  BY <1>6 DEF CloseReturns, FinishClose, InProgress
<1>7. ASSUME NEW q \in Requests, Arrive(q) PROVE CloseKnown'
  BY <1>7 DEF Arrive, Goto
<1>8. ASSUME NEW q \in Requests, Refuse(q) PROVE CloseKnown'
  BY <1>8 DEF Refuse, Return, Goto, Refused
<1>9. ASSUME NEW q \in Requests, Grant(q) PROVE CloseKnown'
  BY <1>9 DEF Grant, Goto, Granted
<1>10. ASSUME NEW q \in Requests, Register(q) PROVE CloseKnown'
  BY <1>10 DEF Register, Goto, RUnlock
<1>11. ASSUME NEW q \in Requests, ReadRequest(q) PROVE CloseKnown'
  BY <1>11 DEF ReadRequest, Goto
<1>12. ASSUME NEW q \in Requests, ReadFails(q) PROVE CloseKnown'
  BY <1>12 DEF ReadFails, Return, Goto
<1>13. ASSUME NEW q \in Requests, SendRequest(q) PROVE CloseKnown'
  BY <1>13 DEF SendRequest, Return, Goto
<1>14. ASSUME NEW q \in Requests, Respond(q) PROVE CloseKnown'
  BY <1>14 DEF Respond, Answer
<1>15. ASSUME NEW q \in Requests, TimesOut(q) PROVE CloseKnown'
  BY <1>15 DEF TimesOut, Answer
<1>16. ASSUME NEW q \in Requests, ClientLeaves(q) PROVE CloseKnown'
  BY <1>16 DEF ClientLeaves, Answer
<1>17. CASE UNCHANGED vars
  BY <1>17 DEF vars
<1> QED
  BY <1>1, <1>2, <1>3, <1>4, <1>5, <1>6, <1>7, <1>8, <1>9,
     <1>10, <1>11, <1>12, <1>13, <1>14, <1>15, <1>16, <1>17
  DEF Next, CloseNext, HandlerNext

\* No handler is counted after Close has begun.
LEMMA HandlersStep == IInv /\ [Next]_vars => HandlersKnown'
<1> SUFFICES ASSUME IInv, [Next]_vars PROVE HandlersKnown'
  OBVIOUS
<1> USE DEF IInv, TypeOK, StateTypeOK, Closers, Servers, Stages, Fates, Statuses, Answers,
            stateVars, requestVars, CloseKnown, HandlersKnown
<1>1. CASE Start
  BY <1>1 DEF Start
<1>2. CASE CloseCalled
  BY <1>2 DEF CloseCalled, AwaitCloseLock
<1>3. CASE CloseBegins
  BY <1>3 DEF CloseBegins, BeginClose
<1>4. CASE CloseTimesOut
  BY <1>4 DEF CloseTimesOut
<1>5. CASE ServerCloses
  BY <1>5 DEF ServerCloses, ShutdownEnds, Idle
<1>6. CASE CloseReturns
  BY <1>6 DEF CloseReturns, FinishClose, InProgress
<1>7. ASSUME NEW q \in Requests, Arrive(q) PROVE HandlersKnown'
  BY <1>7 DEF Arrive, Goto
<1>8. ASSUME NEW q \in Requests, Refuse(q) PROVE HandlersKnown'
  BY <1>8 DEF Refuse, Return, Goto, Refused
<1>9. ASSUME NEW q \in Requests, Grant(q) PROVE HandlersKnown'
  BY <1>9 DEF Grant, Goto, Granted
<1>10. ASSUME NEW q \in Requests, Register(q) PROVE HandlersKnown'
  BY <1>10 DEF Register, Goto, RUnlock
<1>11. ASSUME NEW q \in Requests, ReadRequest(q) PROVE HandlersKnown'
  BY <1>11 DEF ReadRequest, Goto
<1>12. ASSUME NEW q \in Requests, ReadFails(q) PROVE HandlersKnown'
  BY <1>12 DEF ReadFails, Return, Goto
<1>13. ASSUME NEW q \in Requests, SendRequest(q) PROVE HandlersKnown'
  BY <1>13 DEF SendRequest, Return, Goto
<1>14. ASSUME NEW q \in Requests, Respond(q) PROVE HandlersKnown'
  BY <1>14 DEF Respond, Answer
<1>15. ASSUME NEW q \in Requests, TimesOut(q) PROVE HandlersKnown'
  BY <1>15 DEF TimesOut, Answer
<1>16. ASSUME NEW q \in Requests, ClientLeaves(q) PROVE HandlersKnown'
  BY <1>16 DEF ClientLeaves, Answer
<1>17. CASE UNCHANGED vars
  BY <1>17 DEF vars
<1> QED
  BY <1>1, <1>2, <1>3, <1>4, <1>5, <1>6, <1>7, <1>8, <1>9,
     <1>10, <1>11, <1>12, <1>13, <1>14, <1>15, <1>16, <1>17
  DEF Next, CloseNext, HandlerNext

\* A handler returns once.
LEMMA StatusStep == IInv /\ [Next]_vars => StatusKnown'
<1> SUFFICES ASSUME IInv, [Next]_vars PROVE StatusKnown'
  OBVIOUS
<1> USE DEF IInv, TypeOK, StateTypeOK, Closers, Servers, Stages, Fates, Statuses, Answers,
            stateVars, requestVars, StatusKnown
<1>1. CASE Start
  BY <1>1 DEF Start
<1>2. CASE CloseCalled
  BY <1>2 DEF CloseCalled, AwaitCloseLock
<1>3. CASE CloseBegins
  BY <1>3 DEF CloseBegins, BeginClose
<1>4. CASE CloseTimesOut
  BY <1>4 DEF CloseTimesOut
<1>5. CASE ServerCloses
  BY <1>5 DEF ServerCloses, ShutdownEnds, Idle
<1>6. CASE CloseReturns
  BY <1>6 DEF CloseReturns, FinishClose, InProgress
<1>7. ASSUME NEW q \in Requests, Arrive(q) PROVE StatusKnown'
  BY <1>7 DEF Arrive, Goto
<1>8. ASSUME NEW q \in Requests, Refuse(q) PROVE StatusKnown'
  BY <1>8 DEF Refuse, Return, Goto, Refused
<1>9. ASSUME NEW q \in Requests, Grant(q) PROVE StatusKnown'
  BY <1>9 DEF Grant, Goto, Granted
<1>10. ASSUME NEW q \in Requests, Register(q) PROVE StatusKnown'
  BY <1>10 DEF Register, Goto, RUnlock
<1>11. ASSUME NEW q \in Requests, ReadRequest(q) PROVE StatusKnown'
  BY <1>11 DEF ReadRequest, Goto
<1>12. ASSUME NEW q \in Requests, ReadFails(q) PROVE StatusKnown'
  BY <1>12 DEF ReadFails, Return, Goto
<1>13. ASSUME NEW q \in Requests, SendRequest(q) PROVE StatusKnown'
  BY <1>13 DEF SendRequest, Return, Goto
<1>14. ASSUME NEW q \in Requests, Respond(q) PROVE StatusKnown'
  BY <1>14 DEF Respond, Answer
<1>15. ASSUME NEW q \in Requests, TimesOut(q) PROVE StatusKnown'
  BY <1>15 DEF TimesOut, Answer
<1>16. ASSUME NEW q \in Requests, ClientLeaves(q) PROVE StatusKnown'
  BY <1>16 DEF ClientLeaves, Answer
<1>17. CASE UNCHANGED vars
  BY <1>17 DEF vars
<1> QED
  BY <1>1, <1>2, <1>3, <1>4, <1>5, <1>6, <1>7, <1>8, <1>9,
     <1>10, <1>11, <1>12, <1>13, <1>14, <1>15, <1>16, <1>17
  DEF Next, CloseNext, HandlerNext

\* A client gets one answer.
LEMMA AnswersStep == IInv /\ [Next]_vars => AnswersKnown'
<1> SUFFICES ASSUME IInv, [Next]_vars PROVE AnswersKnown'
  OBVIOUS
<1> USE DEF IInv, TypeOK, StateTypeOK, Closers, Servers, Stages, Fates, Statuses, Answers,
            stateVars, requestVars, CloseKnown, HandlersKnown, StatusKnown, AnswersKnown
<1>1. CASE Start
  BY <1>1 DEF Start
<1>2. CASE CloseCalled
  BY <1>2 DEF CloseCalled, AwaitCloseLock
<1>3. CASE CloseBegins
  BY <1>3 DEF CloseBegins, BeginClose
<1>4. CASE CloseTimesOut
  BY <1>4 DEF CloseTimesOut
<1>5. CASE ServerCloses
  BY <1>5 DEF ServerCloses, ShutdownEnds, Idle
<1>6. CASE CloseReturns
  BY <1>6 DEF CloseReturns, FinishClose, InProgress
<1>7. ASSUME NEW q \in Requests, Arrive(q) PROVE AnswersKnown'
  BY <1>7 DEF Arrive, Goto
<1>8. ASSUME NEW q \in Requests, Refuse(q) PROVE AnswersKnown'
  BY <1>8 DEF Refuse, Return, Goto, Refused
<1>9. ASSUME NEW q \in Requests, Grant(q) PROVE AnswersKnown'
  BY <1>9 DEF Grant, Goto, Granted
<1>10. ASSUME NEW q \in Requests, Register(q) PROVE AnswersKnown'
  BY <1>10 DEF Register, Goto, RUnlock
<1>11. ASSUME NEW q \in Requests, ReadRequest(q) PROVE AnswersKnown'
  BY <1>11 DEF ReadRequest, Goto
<1>12. ASSUME NEW q \in Requests, ReadFails(q) PROVE AnswersKnown'
  BY <1>12 DEF ReadFails, Return, Goto
<1>13. ASSUME NEW q \in Requests, SendRequest(q) PROVE AnswersKnown'
  BY <1>13 DEF SendRequest, Return, Goto
<1>14. ASSUME NEW q \in Requests, Respond(q) PROVE AnswersKnown'
  BY <1>14 DEF Respond, Answer
<1>15. ASSUME NEW q \in Requests, TimesOut(q) PROVE AnswersKnown'
  BY <1>15 DEF TimesOut, Answer
<1>16. ASSUME NEW q \in Requests, ClientLeaves(q) PROVE AnswersKnown'
  BY <1>16 DEF ClientLeaves, Answer
<1>17. CASE UNCHANGED vars
  BY <1>17 DEF vars
<1> QED
  BY <1>1, <1>2, <1>3, <1>4, <1>5, <1>6, <1>7, <1>8, <1>9,
     <1>10, <1>11, <1>12, <1>13, <1>14, <1>15, <1>16, <1>17
  DEF Next, CloseNext, HandlerNext

-----------------------------------------------------------------------------
\* The invariant holds before the receiver starts.
LEMMA InitIInv == Init => IInv
BY DEF Init, StateInit, IInv, TypeOK, StateTypeOK, Closers, Servers, Stages, Fates,
       Statuses, Answers, CloseKnown, HandlersKnown, StatusKnown, AnswersKnown

\* The inductive invariant.
THEOREM Invariance == Spec => []IInv
<1>1. IInv /\ [Next]_vars => IInv'
  BY TypeStep, CloseStep, HandlersStep, StatusStep, AnswersStep DEF IInv
<1> QED BY InitIInv, <1>1, PTL DEF Spec

\* Type correctness of the receiver.
THEOREM TypeCorrect == Spec => []TypeOK
<1>1. IInv => TypeOK
  BY DEF IInv
<1> QED BY Invariance, <1>1, PTL

\* The status that ServeHTTP writes tells the client what became of its request, and
\* only a Close that ran out of time cuts off a client whose request was passed on.
THEOREM ClientsInformed == Spec => []ClientsKnow
<1>1. IInv => ClientsKnow
  BY DEF IInv, TypeOK, StatusKnown, AnswersKnown, ClientsKnow, Passed
<1> QED BY Invariance, <1>1, PTL

-----------------------------------------------------------------------------
(* The receiver implements Source.                                         *)

\* Nothing changes that main sees.
LEMMA Unseen ==
  ASSUME UNCHANGED <<closing, closed, timely>>, \A q \in Requests : Work(q)' = Work(q)
  PROVE  UNCHANGED AsSource!sourceVars
BY DEF AsSource!sourceVars

\* A request that is counted is work in hand.
LEMMA CountedIsWork ==
  ASSUME StatusKnown
  PROVE  \A q \in Requests : Work(q) = "hand" <=> q \in InProgress
BY DEF StatusKnown, Work, InProgress

\* The work that a request is changes, and nothing else that main sees.
LEMMA WorkChanges ==
  ASSUME NEW q \in Requests, UNCHANGED <<closing, closed, timely>>, TypeOK,
         \A p \in Requests : p # q =>
           stage'[p] = stage[p] /\ handed'[p] = handed[p] /\ status'[p] = status[p]
  PROVE  AsSource!Become(q, Work(q)')
<1>1. \A p \in Requests : p # q => Work(p)' = Work(p)
  BY DEF Work
<1> QED BY <1>1 DEF AsSource!Become

\* Every step is one of Source, or leaves unchanged what main sees of the receiver.
LEMMA SourceStep == IInv /\ [Next]_vars => [AsSource!Next]_(AsSource!sourceVars)
<1> SUFFICES ASSUME IInv, [Next]_vars PROVE [AsSource!Next]_(AsSource!sourceVars)
  OBVIOUS
<1> DEFINE Goal == [AsSource!Next]_(AsSource!sourceVars)
<1> USE DEF IInv, TypeOK, StateTypeOK, stateVars, requestVars
<1>1. CASE Start \/ CloseCalled \/ CloseTimesOut \/ ServerCloses
  BY <1>1, Unseen DEF Start, CloseCalled, AwaitCloseLock, CloseTimesOut, ServerCloses, Work
<1>2. CASE CloseBegins
  <2>1. \A q \in Requests : Work(q)' = Work(q)
    BY <1>2 DEF CloseBegins, Work
  <2> QED
    BY <1>2, <2>1
    DEF CloseBegins, BeginClose, CloseKnown, AsSource!Next, AsSource!BeginClose
<1>3. CASE CloseReturns
  <2>1. \A q \in Requests : Work(q)' = Work(q)
    BY <1>3 DEF CloseReturns, Work
  <2>2. ~timely' <=> \E q \in Requests : Work(q) = "hand"
    <3>1. ~timely' <=> InProgress # {}
      BY <1>3 DEF CloseReturns
    <3> QED BY <3>1, CountedIsWork DEF InProgress
  <2>3. closing /\ ~closed /\ closed'
    BY <1>3 DEF CloseReturns, FinishClose, CloseKnown
  <2>4. AsSource!Done
    BY <2>1, <2>2, <2>3 DEF AsSource!Done
  <2> QED BY <2>4 DEF AsSource!Next
<1>4. ASSUME NEW q \in Requests,
             \/ Arrive(q) \/ Grant(q) \/ ReadRequest(q) \/ Refuse(q)
             \/ Respond(q) \/ TimesOut(q) \/ ClientLeaves(q)
      PROVE  Goal
  <2>1. UNCHANGED <<closing, closed, timely>>
    BY <1>4
    DEF Arrive, Grant, Granted, ReadRequest, Refuse, Respond, TimesOut, ClientLeaves, Answer
  <2>2. \A p \in Requests : Work(p)' = Work(p)
    BY <1>4
    DEF Arrive, Grant, ReadRequest, Refuse, Return, Goto, Respond, TimesOut, ClientLeaves,
        Answer, StatusKnown, Work
  <2> QED BY <2>1, <2>2, Unseen
<1>5. ASSUME NEW q \in Requests, Register(q) PROVE Goal
  <2>1. ~closing /\ ~closed
    BY <1>5 DEF Register, HandlersKnown, CloseKnown
  <2>2. Work(q) = "new" /\ Work(q)' = "hand"
    BY <1>5 DEF Register, Goto, StatusKnown, Work
  <2>3. AsSource!Become(q, Work(q)')
    BY <1>5, WorkChanges DEF Register, RUnlock, Goto
  <2> QED BY <2>1, <2>2, <2>3 DEF AsSource!Take, AsSource!Next
<1>6. ASSUME NEW q \in Requests, ReadFails(q) \/ SendRequest(q) PROVE Goal
  <2>1. Work(q) = "hand" /\ Work(q)' \in {"given", "void"}
    BY <1>6 DEF ReadFails, SendRequest, Return, Goto, Work, StatusKnown
  <2>2. AsSource!Become(q, Work(q)')
    BY <1>6, WorkChanges DEF ReadFails, SendRequest, Return, Goto
  <2> QED BY <2>1, <2>2 DEF AsSource!Give, AsSource!Drop, AsSource!Next
<1>7. CASE UNCHANGED vars
  BY <1>7, Unseen DEF vars, Work
<1> QED
  BY <1>1, <1>2, <1>3, <1>4, <1>5, <1>6, <1>7 DEF Next, CloseNext, HandlerNext

\* No request is let in once the receiver closes, and after a Close that ended in time no
\* handler passes anything on to the sender or to the DLQ (the guarantee that shutdown in main.go relies on).
THEOREM ReceiverIsSource == Spec => ImplementsSource
<1>1. Init => AsSource!Init
  BY DEF Init, StateInit, Work, AsSource!Init
<1> QED BY <1>1, SourceStep, Invariance, PTL DEF Spec, ImplementsSource, AsSource!Spec
=============================================================================
