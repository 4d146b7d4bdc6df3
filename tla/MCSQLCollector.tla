--------------------------- MODULE MCSQLCollector ---------------------------
(* Instances of SQLCollector for TLC. *)
EXTENDS SQLCollector

CONSTANT t1

MCTimers == {t1}
=============================================================================
