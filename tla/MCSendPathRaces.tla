--------------------------- MODULE MCSendPathRaces ----------------------------
(* A small instance of SendPathRaces for TLC. *)
EXTENDS SendPathRaces, TLC

CONSTANTS l1, l2, d1, d2

OneLoopPerDevice == l1 :> d1 @@ l2 :> d2

RequestSymmetry == Permutations(Requests)
=============================================================================
