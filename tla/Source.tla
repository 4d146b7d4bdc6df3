------------------------------- MODULE Source -------------------------------
(***************************************************************************)
(* What a collector or a receiver promises to main (the comments of        *)
(* State.FinishClose in src/pkg/config/state.go and of shutdown in         *)
(* src/cmd/versi/main.go): it begins no work once it closes, and when it   *)
(* is done all of its work has ended, so that the senders can be closed,   *)
(* unless it had to give up on work that is late.                          *)
(***************************************************************************)
CONSTANT Data             \* units of work, and what they may hand over

VARIABLES phase,          \* "open", "closing" or "done"
          late,           \* it gave up on work that may still go on
          work            \* of each unit: "new", in "hand", and in the end "given", to a
                          \* sender or to the DLQ, or "void"

sourceVars == <<phase, late, work>>

Init == phase = "open" /\ late = FALSE /\ work = [d \in Data |-> "new"]

Become(d, w) == work' = [work EXCEPT ![d] = w] /\ UNCHANGED <<phase, late>>

Take(d) == phase = "open" /\ work[d] = "new" /\ Become(d, "hand")

Give(d) == work[d] = "hand" /\ Become(d, "given")

Drop(d) == work[d] = "hand" /\ Become(d, "void")

BeginClose == phase = "open" /\ phase' = "closing" /\ UNCHANGED <<late, work>>

Done ==
  /\ phase = "closing"
  /\ phase' = "done"
  /\ late' = (\E d \in Data : work[d] = "hand")
  /\ UNCHANGED work

Next == BeginClose \/ Done \/ \E d \in Data : Take(d) \/ Give(d) \/ Drop(d)

Spec == Init /\ [][Next]_sourceVars
=============================================================================
