----------------------------- MODULE MCSlotGate -----------------------------
(* Requests of several instances over one channel. *)
EXTENDS SlotGate, TLC

Symmetry == Permutations(Reqs)
=============================================================================
