------------------------------ MODULE Handoff ------------------------------
(***************************************************************************)
(* What a sender promises to the collectors and receivers that feed it     *)
(* (the comments of Sender.Send and Sender.Close in src/pkg/http/sender.go *)
(* and of config.State): a chunk is accepted or refused as a whole; every  *)
(* item is resolved exactly once, by a successful delivery or by handing   *)
(* it to the fallback; nothing is accepted after the sender begins to      *)
(* close, and it reports that it has drained only when nothing is left.    *)
(***************************************************************************)
CONSTANT Items

VARIABLES phase,          \* "open", "closing" or "drained"
          inside,         \* items that were accepted and are not resolved yet
          acked,          \* items whose delivery succeeded
          rejected        \* items that were handed to the fallback

handoffVars == <<phase, inside, acked, rejected>>

Seen == inside \cup acked \cup rejected

Init == phase = "open" /\ inside = {} /\ acked = {} /\ rejected = {}

Accept(S) ==
  /\ phase = "open"
  /\ S \cap Seen = {}
  /\ inside' = inside \cup S
  /\ UNCHANGED <<phase, acked, rejected>>

Refuse(S) ==
  /\ phase # "open"
  /\ S \cap Seen = {}
  /\ rejected' = rejected \cup S
  /\ UNCHANGED <<phase, inside, acked>>

Resolve(S) ==
  /\ S \subseteq inside
  /\ inside' = inside \ S
  /\ \/ acked' = acked \cup S /\ UNCHANGED rejected
     \/ rejected' = rejected \cup S /\ UNCHANGED acked
  /\ UNCHANGED phase

BeginClose ==
  phase = "open" /\ phase' = "closing" /\ UNCHANGED <<inside, acked, rejected>>

Drained ==
  /\ phase = "closing" /\ inside = {}
  /\ phase' = "drained"
  /\ UNCHANGED <<inside, acked, rejected>>

Next ==
  \/ BeginClose \/ Drained
  \/ \E S \in (SUBSET Items) \ {{}} : Accept(S) \/ Refuse(S) \/ Resolve(S)

Spec == Init /\ [][Next]_handoffVars
=============================================================================
