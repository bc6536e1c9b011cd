------------------------------ MODULE HoldPolicy ------------------------------
(***************************************************************************)
(* What legal holds promise the rest of the system (spec section 9.7 as    *)
(* LegalHoldService and DocumentService implement it), with no flag, no    *)
(* transaction and no request in between: a document that an active hold   *)
(* covers is not destroyed.                                                *)
(***************************************************************************)
CONSTANTS Docs, Holds

VARIABLES
    state,      \* state[h]: "unplaced", "active" or "released"
    scope,      \* scope[h]: the documents hold h covers
    destroyed   \* the documents that were deleted or shredded

Covered(d) == \E h \in Holds : state[h] = "active" /\ d \in scope[h]

PolicyInit ==
    /\ state = [h \in Holds |-> "unplaced"]
    /\ scope = [h \in Holds |-> {}]
    /\ destroyed = {}

Place(h, D) ==
    /\ state[h] = "unplaced"
    /\ D \cap destroyed = {}
    /\ state' = [state EXCEPT ![h] = "active"]
    /\ scope' = [scope EXCEPT ![h] = D]
    /\ UNCHANGED destroyed

Extend(h, d) ==
    /\ state[h] = "active"
    /\ d \notin destroyed
    /\ scope' = [scope EXCEPT ![h] = @ \cup {d}]
    /\ UNCHANGED <<state, destroyed>>

Withdraw(h, d) ==
    /\ d \in scope[h]
    /\ scope' = [scope EXCEPT ![h] = @ \ {d}]
    /\ UNCHANGED <<state, destroyed>>

Lift(h) ==
    /\ state[h] = "active"
    /\ state' = [state EXCEPT ![h] = "released"]
    /\ UNCHANGED <<scope, destroyed>>

Destroy(d) ==
    /\ ~Covered(d)
    /\ destroyed' = destroyed \cup {d}
    /\ UNCHANGED <<state, scope>>

PolicyNext ==
    \/ \E h \in Holds, D \in SUBSET Docs : Place(h, D)
    \/ \E h \in Holds, d \in Docs : Extend(h, d) \/ Withdraw(h, d)
    \/ \E h \in Holds : Lift(h)
    \/ \E d \in Docs : Destroy(d)

PolicySpec == PolicyInit /\ [][PolicyNext]_<<state, scope, destroyed>>

=============================================================================
