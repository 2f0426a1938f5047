----------------------------- MODULE MCSendPath ------------------------------
(* Small instances of SendPath for TLC. *)
EXTENDS SendPath, TLC

CONSTANTS l1, l2, d1, d2

OneLoopPerDevice == l1 :> d1 @@ l2 :> d2
TwoLoopsOneDevice == l1 :> d1 @@ l2 :> d1
SingleLoop == l1 :> d1

AllFaults == FaultKinds
NoFaults == {}

SlotSymmetry == Permutations(Requests) \cup Permutations(Workers)
=============================================================================
