--------------------------- MODULE MCCurationDag ---------------------------
(* TLC instances of CurationDag: a dataset with a row, and an empty one     *)
(* beside it where the properties tell datasets apart.                      *)
EXTENDS CurationDag, TLC

CONSTANTS observations, slots

MCRows == observations :> 1 @@ slots :> 0
OneRow == observations :> 1
RecordSymmetry == Permutations(Records)
=============================================================================
