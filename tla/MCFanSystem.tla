----------------------------- MODULE MCFanSystem -----------------------------
(* FanSystem on small instances.  Helpers and manual policies are            *)
(* interchangeable.                                                          *)
EXTENDS FanSystem, TLC

Symmetry == Permutations(Helpers) \cup Permutations(Manual)
=============================================================================
