--------------------------- MODULE LegalHoldService ---------------------------
(***************************************************************************)
(* LegalHoldService: creating and releasing holds, attaching and detaching *)
(* documents, and keeping Document.legalHoldActive, the flag every other   *)
(* service reads, in step with the join table.                             *)
(***************************************************************************)
EXTENDS DocumentStore

\* Faulty: the count forgets to leave the hold itself out.
OtherOrSelf(h, d) ==
    \E g \in Holds : hold[g].state = "active" /\ d \in hold[g].documents

\* Another active hold than h references d: the count in detach and release.
OtherActive(h, d) ==
    \E g \in Holds \ {h} : hold[g].state = "active" /\ d \in hold[g].documents

SetFlag(D, value) ==
    doc' = [d \in Docs |->
              IF d \in D THEN [doc[d] EXCEPT !.legalHoldActive = value]
                         ELSE doc[d]]

-----------------------------------------------------------------------------
(* createHold: the documents are validated before the transaction.         *)

CreateRead(r, h, D) ==
    /\ hold[h].state = "unplaced"
    /\ \A d \in D : ~doc[d].deleted
    /\ Begin(r, [Idle EXCEPT !.step = "create", !.hold = h, !.docs = D])

CreateCommit(r) ==
    LET h == req[r].hold  D == req[r].docs IN
    /\ req[r].step = "create"
    /\ hold[h].state = "unplaced"
    /\ hold' = [hold EXCEPT ![h] = [state |-> "active", documents |-> D]]
    /\ SetFlag(D, TRUE)
    /\ Reply(r)

\* @@unique([tenantId, code]) rolls a second creator of the same code back.
CreateConflict(r) ==
    /\ req[r].step = "create"
    /\ hold[req[r].hold].state # "unplaced"
    /\ Reply(r)
    /\ UNCHANGED <<doc, hold>>

(* attachDocument: reads the hold, reads the document, then connects. *)

\* Faulty: attaching to a hold that was released.
AttachReadReleased(r, h, d) ==
    /\ hold[h].state # "unplaced"
    /\ d \notin hold[h].documents
    /\ Begin(r, [Idle EXCEPT !.step = "attachDoc", !.hold = h, !.doc = d])

AttachRead(r, h, d) ==
    /\ hold[h].state = "active"
    /\ d \notin hold[h].documents
    /\ Begin(r, [Idle EXCEPT !.step = "attachDoc", !.hold = h, !.doc = d])

AttachDocRead(r) ==
    /\ req[r].step = "attachDoc"
    /\ ~doc[req[r].doc].deleted
    /\ req' = [req EXCEPT ![r].step = "attach"]
    /\ UNCHANGED <<doc, hold>>

\* "document not found"
AttachRefused(r) ==
    /\ req[r].step = "attachDoc"
    /\ doc[req[r].doc].deleted
    /\ Reply(r)
    /\ UNCHANGED <<doc, hold>>

AttachCommit(r) ==
    LET h == req[r].hold  d == req[r].doc IN
    /\ req[r].step = "attach"
    /\ hold' = [hold EXCEPT ![h].documents = @ \cup {d}]
    /\ SetFlag({d}, TRUE)
    /\ Reply(r)

(* detachDocument: inside the transaction the disconnect comes first, then *)
(* the count, then the flag.                                               *)

DetachRead(r, h, d) ==
    /\ hold[h].state # "unplaced"
    /\ d \in hold[h].documents
    /\ Begin(r, [Idle EXCEPT !.step = "detachCount", !.hold = h, !.doc = d])

DetachCount(r) ==
    LET h == req[r].hold  d == req[r].doc IN
    /\ req[r].step = "detachCount"
    /\ req' = [req EXCEPT ![r].step = "detach",
                          ![r].unblock = IF OtherActive(h, d) THEN {} ELSE {d}]
    /\ UNCHANGED <<doc, hold>>

DetachCommit(r) ==
    /\ req[r].step = "detach"
    /\ hold' = [hold EXCEPT ![req[r].hold].documents = @ \ {req[r].doc}]
    /\ SetFlag(req[r].unblock, FALSE)
    /\ Reply(r)

(* releaseHold: the list of documents is read before the transaction, which *)
(* counts and clears document by document and ends with the commit.  The   *)
(* row lock an early flag UPDATE takes makes a later attach wait; the      *)
(* attach that the model lets through instead could also have come just    *)
(* before that UPDATE.                                                     *)

ReleaseRead(r, h) ==
    /\ hold[h].state = "active"
    /\ Begin(r, [Idle EXCEPT !.step = "release", !.hold = h,
                             !.docs = hold[h].documents])

ReleaseCount(r) ==
    /\ req[r].step = "release"
    /\ \E d \in req[r].docs :
         req' = [req EXCEPT ![r].docs = @ \ {d},
                            ![r].unblock = IF OtherActive(req[r].hold, d)
                                           THEN @ ELSE @ \cup {d}]
    /\ UNCHANGED <<doc, hold>>

\* Faulty: the release clears the flag of every document it had listed.
ReleaseCommitAll(r) ==
    /\ req[r].step = "release"
    /\ req[r].docs = {}
    /\ hold' = [hold EXCEPT ![req[r].hold].state = "released"]
    /\ SetFlag(hold[req[r].hold].documents, FALSE)
    /\ Reply(r)

ReleaseCommit(r) ==
    /\ req[r].step = "release"
    /\ req[r].docs = {}
    /\ hold' = [hold EXCEPT ![req[r].hold].state = "released"]
    /\ SetFlag(req[r].unblock, FALSE)
    /\ Reply(r)

-----------------------------------------------------------------------------

HoldRead(r) ==
    \E h \in Holds :
        \/ \E D \in SUBSET Docs : CreateRead(r, h, D)
        \/ \E d \in Docs : AttachRead(r, h, d)
        \/ \E d \in Docs : DetachRead(r, h, d)
        \/ ReleaseRead(r, h)

HoldWrite(r) ==
    \/ CreateCommit(r)
    \/ CreateConflict(r)
    \/ AttachDocRead(r)
    \/ AttachRefused(r)
    \/ AttachCommit(r)
    \/ DetachCount(r)
    \/ DetachCommit(r)
    \/ ReleaseCount(r)
    \/ ReleaseCommit(r)

HoldNext == \E r \in HoldRequests : HoldRead(r) \/ HoldWrite(r)

=============================================================================
