-------------------------- MODULE MCHTTPCollector --------------------------
(* Instances of HTTPCollector for TLC. *)
EXTENDS HTTPCollector
=============================================================================
