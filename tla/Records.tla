------------------------------- MODULE Records -------------------------------
(***************************************************************************)
(* Documents under legal hold: the document and the legal-hold endpoints   *)
(* run side by side on the same rows.                                      *)
(***************************************************************************)
EXTENDS DocumentService, LegalHoldService

Next ==
    \/ DocNext
    \/ HoldNext
    \/ \E r \in Requests : Abandon(r)

Spec == Init /\ [][Next]_vars

-----------------------------------------------------------------------------

TypeOK ==
    /\ doc \in [Docs -> DocRow]
    /\ hold \in [Holds -> HoldRow]
    /\ req \in [Requests -> Request]

\* d is under legal hold: some active hold references it.
UnderHold(d) == \E h \in Holds : hold[h].state = "active" /\ d \in hold[h].documents

\* The version rows of a document are numbered 1, 2, ... without a gap and
\* the current one is the newest, although restoreVersion picks the number
\* from a read made before its transaction: two restores never share a
\* number, and none moves currentVersionId back.
VersionsInOrder == \A d \in Docs : doc[d].versions = 1 .. doc[d].current

\* The requests that place a hold or put a document under one may overlap; one
\* that detaches or releases has the legal-hold endpoints to itself, for it
\* counts holds that another one may not have committed yet.
OnlyPlacingOverlaps ==
    \A r, s \in HoldRequests :
        r # s /\ Idle \notin {req[r], req[s]} =>
            {req[r].step, req[s].step} \subseteq {"create", "attachDoc", "attach"}

\* legalHoldActive says exactly whether an active hold references the
\* document.  It holds while OnlyPlacingOverlaps does, whatever the document
\* requests do meanwhile.
FlagInSync == \A d \in Docs : doc[d].legalHoldActive <=> UnderHold(d)

\* A released hold covers no new document, while OnlyPlacingOverlaps holds
\* (attachDocument's transaction does not look at isActive again).
ReleasedHoldClosed ==
    [][\A h \in Holds : hold[h].state = "released" =>
          hold'[h].documents \subseteq hold[h].documents]_vars

\* One request at a time: legal hold freezes a document.  No delete, shred or
\* restore gets through while the flag is up.
HeldDocumentFrozen ==
    [][\A d \in Docs : doc[d].legalHoldActive =>
          /\ doc'[d].deleted = doc[d].deleted
          /\ doc'[d].versions = doc[d].versions]_vars

\* One request at a time: while a user has a document checked out, nobody
\* else edits, restores or deletes it (shredding ignores the checkout).
CheckoutRespected ==
    [][\A r \in DocRequests, d \in Docs :
          /\ req[r].step \in {"restore", "update", "delete"}
          /\ req[r].doc = d
          /\ doc'[d] # doc[d]
          => doc[d].lockedBy \in {None, req[r].user}]_vars

-----------------------------------------------------------------------------
(* One request at a time: the denormalised flag implements the policy.     *)

Policy == INSTANCE HoldPolicy WITH
    state <- [h \in Holds |-> hold[h].state],
    scope <- [h \in Holds |-> hold[h].documents],
    destroyed <- {d \in Docs : doc[d].deleted}

\* The services implement the abstract legal-hold policy: a document that an
\* active hold covers is never destroyed, and a hold never covers a document
\* that was already destroyed when it was added.
ImplementsPolicy == Policy!PolicySpec

=============================================================================
