------------------------- MODULE MCDeadLetterQueue -------------------------
(* Instances of DeadLetterQueue for TLC. *)
EXTENDS DeadLetterQueue, TLC

CONSTANTS w1, w2, e1

MCWrites == {w1, w2}
MCExisting == {e1}
MCSizeOf == w1 :> 1 @@ w2 :> 2 @@ e1 :> 1
\* Both writes and the existing file together exceed maxSize = 3.
MCThresholds == {[maxSize |-> 3, warnSize |-> 2], [maxSize |-> 0, warnSize |-> 2],
                 [maxSize |-> 0, warnSize |-> 0]}

\* A single write, which can be retried.
MCOneWrite == {w2}
MCOneSizeOf == w2 :> 2 @@ e1 :> 1
MCMaxSizeOnly == {[maxSize |-> 3, warnSize |-> 0]}
=============================================================================
