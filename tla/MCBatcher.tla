----------------------------- MODULE MCBatcher -----------------------------
(* Instances of Batcher for TLC. *)
EXTENDS Batcher, TLC

CONSTANTS c1, c2, i1, i2, i3

MCCallers == {c1, c2}
MCItems == {i1, i2, i3}
\* One small item, one that reaches MaxBytes = 3 with it, and one beyond it.
MCSizeOf == i1 :> 1 @@ i2 :> 2 @@ i3 :> 4

\* Passthrough, each limit alone, and both, with and without a window; a guard
\* that may refuse where there is a callback to refuse.
MCLimits ==
  {l \in [maxItems : {0, 2}, maxBytes : {0, 3}, window : BOOLEAN, refuses : BOOLEAN] :
     l.refuses => l.window}
=============================================================================
