------------------------------- MODULE Stdout -------------------------------
(***************************************************************************)
(* The sender that prints its data (src/pkg/dest/stdout.go): Send writes   *)
(* inline, under a mutex, so that a stalled pipe blocks it; Close waits    *)
(* for the mutex, but not for long.  What is not printed is discarded      *)
(* (src/pkg/dest/discard.go).  Write errors are only logged, so they are   *)
(* not told apart from writes.                                             *)
(***************************************************************************)
EXTENDS Naturals

CONSTANTS
  Printers,       \* goroutines that call Send, once each
  Closers         \* goroutines that call Close

VARIABLES
  at,             \* where each goroutine is
  lameDuck,
  closing,        \* closeOnce: no, running, done, or forced: done by the timeout
  locker,         \* the goroutine of Close: none, waiting, holding, over
  stalled,        \* nobody reads the pipe
  printed         \* the goroutines whose data was printed

stdoutVars == <<at, lameDuck, closing, locker, stalled, printed>>

StdoutInit ==
  /\ at = [g \in Printers \cup Closers |-> "idle"]
  /\ lameDuck = FALSE
  /\ closing = "no" /\ locker = "none"
  /\ stalled = FALSE
  /\ printed = {}

\* The mutex is free.
Unlocked == locker # "holding" /\ \A g \in Printers : at[g] \notin {"check", "print"}

Go(g, from, to) == at[g] = from /\ at' = [at EXCEPT ![g] = to]

-----------------------------------------------------------------------------
(* Send.                                                                   *)

\* Discard.Send, and return.
Discard(g, from) == Go(g, from, "discarded")

\* Send looks at lameDuck before it waits for the mutex.
StdoutSend(g) ==
  /\ IF lameDuck THEN Discard(g, "idle") ELSE Go(g, "idle", "lock")
  /\ UNCHANGED <<lameDuck, closing, locker, stalled, printed>>

Lock(g) ==
  /\ Unlocked /\ Go(g, "lock", "check")
  /\ UNCHANGED <<lameDuck, closing, locker, stalled, printed>>

\* Mutant: Send does not look again.
CheckNothing(g) ==
  /\ Go(g, "check", "print")
  /\ UNCHANGED <<lameDuck, closing, locker, stalled, printed>>

\* It looks again when it has the mutex.
Check(g) ==
  /\ IF lameDuck THEN Discard(g, "check") ELSE Go(g, "check", "print")
  /\ UNCHANGED <<lameDuck, closing, locker, stalled, printed>>

StdoutWrite(g) ==
  /\ ~stalled /\ Go(g, "print", "returned")
  /\ printed' = printed \cup {g}
  /\ UNCHANGED <<lameDuck, closing, locker, stalled>>

\* The reader of the pipe stops, or goes on.
Stall ==
  /\ stalled' = ~stalled
  /\ UNCHANGED <<at, lameDuck, closing, locker, printed>>

-----------------------------------------------------------------------------
(* Close.                                                                  *)

\* The first caller starts the goroutine that locks the mutex.
Close(g) ==
  /\ Go(g, "idle", "close")
  /\ IF closing = "no"
     THEN closing' = "running" /\ lameDuck' = TRUE /\ locker' = "waiting"
     ELSE UNCHANGED <<closing, lameDuck, locker>>
  /\ UNCHANGED <<stalled, printed>>

LockerLocks ==
  /\ locker = "waiting" /\ Unlocked
  /\ locker' = "holding"
  /\ UNCHANGED <<at, lameDuck, closing, stalled, printed>>

\* It closes the channel and unlocks the mutex.
LockerUnlocks ==
  /\ locker = "holding"
  /\ locker' = "over"
  /\ UNCHANGED <<at, lameDuck, closing, stalled, printed>>

\* The channel is closed.
CloseEnds ==
  /\ closing = "running" /\ locker = "over"
  /\ closing' = "done"
  /\ UNCHANGED <<at, lameDuck, locker, stalled, printed>>

\* After a second, or when main gives up.
CloseTimesOut ==
  /\ closing = "running"
  /\ closing' = "forced"
  /\ UNCHANGED <<at, lameDuck, locker, stalled, printed>>

\* All callers wait for closeOnce.
CloseReturns(g) ==
  /\ closing \in {"done", "forced"} /\ Go(g, "close", "returned")
  /\ UNCHANGED <<lameDuck, closing, locker, stalled, printed>>

StdoutNext ==
  \/ \E g \in Printers : StdoutSend(g) \/ Lock(g) \/ Check(g) \/ StdoutWrite(g)
  \/ \E g \in Closers : Close(g) \/ CloseReturns(g)
  \/ LockerLocks \/ LockerUnlocks \/ CloseEnds \/ CloseTimesOut
  \/ Stall

StdoutSpec == StdoutInit /\ [][StdoutNext]_stdoutVars

-----------------------------------------------------------------------------
(* Properties.                                                             *)

\* Once a Close has returned in time, nothing is printed any more; and if it gave up,
\* no other Send than the one it waited for is: not one that found lameDuck unset and
\* still waits for the mutex.
ClosedIsSilent ==
  [][/\ closing = "done" => printed' = printed
     /\ closing = "forced" => \A g \in Printers : at'[g] = "print" => at[g] = "print"
    ]_stdoutVars
=============================================================================
