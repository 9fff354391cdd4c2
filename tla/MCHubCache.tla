---------------------------- MODULE MCHubCache ----------------------------
(***************************************************************************)
(* Instances of HubCache for TLC.  Slots of the same kind are              *)
(* interchangeable: nothing in the specification or in the safety          *)
(* properties names one of them.                                           *)
(***************************************************************************)
EXTENDS HubCache, TLC

SlotSymmetry == Permutations(Requests) \cup Permutations(Tasks)
=============================================================================
