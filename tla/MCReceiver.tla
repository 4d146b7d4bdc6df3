----------------------------- MODULE MCReceiver -----------------------------
(* An instance of Receiver for TLC. *)
EXTENDS Receiver

CONSTANTS q1, q2

MCRequests == {q1, q2}
=============================================================================
