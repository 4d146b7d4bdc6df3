------------------------------- MODULE State -------------------------------
(***************************************************************************)
(* config.State (src/pkg/config/state.go): the part of every collector,    *)
(* receiver and sender that decides who may still start work while the     *)
(* component closes.  Components EXTEND this module and build their own    *)
(* actions from its operations.                                            *)
(*                                                                         *)
(* CloseMu is a Go RWMutex: a writer that waits for it keeps new readers   *)
(* out.  CloseOnce lets one call of Close through, so there is one closer. *)
(***************************************************************************)
EXTENDS Naturals

VARIABLES
  readers,        \* who holds a read lock of CloseMu
  closer,         \* where Close is: see Closers
  closing,        \* the channel Closing is closed
  closed          \* the channel Closed is closed

stateVars == <<readers, closer, closing, closed>>

\* open: not called; locking: BeginClose waits for the write lock; grace: waits
\* for the work in progress; abort: waits for the stragglers; returned.
Closers == {"open", "locking", "grace", "abort", "returned"}

StateInit ==
  readers = {} /\ closer = "open" /\ closing = FALSE /\ closed = FALSE

StateTypeOK(threads) ==
  /\ readers \subseteq threads
  /\ closer \in Closers
  /\ closing \in BOOLEAN /\ closed \in BOOLEAN

\* IfClosingElseLock returns TRUE: closing was seen before or under the lock.
Refused == closing

\* Mutant: the state is not checked again under the lock, so a caller that was
\* kept out by the closing writer goes ahead.
GrantedUnchecked(t) ==
  /\ closer # "locking"
  /\ readers' = readers \cup {t}
  /\ UNCHANGED <<closer, closing, closed>>

\* IfClosingElseLock returns FALSE, and IfNotClosing calls its function: the
\* read lock is held, and closing was checked under it.
Granted(t) ==
  /\ closer # "locking"
  /\ ~closing
  /\ readers' = readers \cup {t}
  /\ UNCHANGED <<closer, closing, closed>>

RUnlock(t) ==
  /\ readers' = readers \ {t}
  /\ UNCHANGED <<closer, closing, closed>>

\* Close reaches BeginClose, which waits for the write lock.
AwaitCloseLock ==
  /\ closer = "open"
  /\ closer' = "locking"
  /\ UNCHANGED <<readers, closing, closed>>

BeginClose ==
  /\ closer = "locking"
  /\ readers = {}
  /\ closing' = TRUE
  /\ closer' = "grace"
  /\ UNCHANGED <<readers, closed>>

FinishClose(next) ==
  /\ closed' = TRUE
  /\ closer' = next
  /\ UNCHANGED <<readers, closing>>
=============================================================================
