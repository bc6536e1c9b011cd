------------------------------ MODULE MCRecords ------------------------------
(* Symmetry.                                                               *)
EXTENDS Records, TLC

MCSymmetry == Permutations(Holds) \cup Permutations(DocRequests) \cup Permutations(HoldRequests)

=============================================================================
