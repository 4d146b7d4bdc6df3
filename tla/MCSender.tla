------------------------------ MODULE MCSender ------------------------------
(* An instance of Sender for TLC. *)
EXTENDS Sender

CONSTANTS c1, c2, i1, i2, i3, i4, json, rows, raw

MCClients == {c1, c2}
MCItems == {i1, i2, i3, i4}
MCFormats == {json, rows}
\* Two items that share a batcher, one of another, and one that is sent as it is.
MCFormatOf == i1 :> json @@ i2 :> json @@ i3 :> rows @@ i4 :> raw
=============================================================================
