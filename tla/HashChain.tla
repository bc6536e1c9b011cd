------------------------------ MODULE HashChain ------------------------------
(***************************************************************************)
(* The rows of a hash-chained audit table, as both audit services verify   *)
(* them.  SHA-256 is taken to be injective, so a row's id stands for its   *)
(* eventHash, and 0 for a null previousHash.  A row is sound when hashing  *)
(* its columns as they are stored yields its eventHash.                    *)
(***************************************************************************)
EXTENDS Naturals, FiniteSets

Row == [id : Nat \ {0}, seq : Nat, prev : Nat, sound : BOOLEAN]

Tip == [hash : Nat, seq : Nat]

NoTip == [hash |-> 0, seq |-> 0]

Before(rows, e) == {f \in rows : f.seq < e.seq}

\* e points at the row that the ORDER BY puts in front of it.
FollowsPredecessor(rows, e) ==
    IF Before(rows, e) = {}
    THEN e.prev = 0
    ELSE \E f \in Before(rows, e) :
            e.prev = f.id /\ \A g \in Before(rows, e) : g.seq <= f.seq

\* ORDER BY sequenceNumber ASC, take limit.
Taken(rows, limit) == {e \in rows : Cardinality(Before(rows, e)) < limit}

\* verifyHashChain.  Two rows with the same number cannot both follow.
Verifies(rows, limit) ==
    \A e \in Taken(rows, limit) :
        /\ e.sound
        /\ FollowsPredecessor(rows, e)
        /\ \A f \in Taken(rows, limit) : f.seq = e.seq => f = e

\* A row links to a row numbered one less, or is the first: the hash and the
\* number of a tip always come from the same row.
Linked(rows, e) ==
    IF e.seq = 1 THEN e.prev = 0
                 ELSE \E f \in rows : f.id = e.prev /\ f.seq = e.seq - 1

=============================================================================
