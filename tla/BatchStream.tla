---------------------------- MODULE BatchStream ----------------------------
(***************************************************************************)
(* What a batcher (src/pkg/flow/batcher.go) promises to its owner: an item *)
(* that was handed to it stays held until it leaves, exactly once, in one  *)
(* batch.  How batches are cut, by whom they are dispatched and in which   *)
(* order is left open.                                                     *)
(***************************************************************************)
EXTENDS Integers, Sequences, Functions

CONSTANT Items            \* what is batched

VARIABLES held,           \* items inside the batcher, or being added to it
          emitted         \* the batches that were passed to dispatch

streamVars == <<held, emitted>>

EmittedItems == UNION {Range(b) : b \in emitted}

Init == held = {} /\ emitted = {}

\* A caller hands over items that the batcher has never seen.
Accept(S) ==
  /\ S # {}
  /\ S \cap (held \cup EmittedItems) = {}
  /\ held' = held \cup S
  /\ UNCHANGED emitted

\* One batch leaves: all of its items are held, and none of them stays.
Emit(b) ==
  /\ b # << >>
  /\ Range(b) \subseteq held
  /\ IsInjective(b)
  /\ held' = held \ Range(b)
  /\ emitted' = emitted \cup {b}

Next ==
  \/ \E S \in SUBSET Items : Accept(S)
  \/ \E b \in emitted' : Emit(b)

Spec == Init /\ [][Next]_streamVars
=============================================================================
