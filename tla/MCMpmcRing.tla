---------------------------- MODULE MCMpmcRing ----------------------------
(***************************************************************************)
(* MpmcRing for TLC.  Items, producers and consumers are interchangeable:  *)
(* no definition and no property of MpmcRing tells one from another.       *)
(***************************************************************************)
EXTENDS MpmcRing, TLC

Symmetry ==
  Permutations(Data) \cup Permutations(Producers) \cup Permutations(Consumers)
=============================================================================
