------------------------------ MODULE MCUpload ------------------------------
(* What clients send, and the symmetry of the requests.                    *)
EXTENDS Upload, TLC

\* A partChecksum makes no difference for a part that is as it was sent.
Anything == Chunk \ {[bytes |-> "right", checked |-> TRUE]}

MCSymmetry == Permutations(Chunkers) \cup Permutations(Completers)

=============================================================================
