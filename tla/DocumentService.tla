--------------------------- MODULE DocumentService ---------------------------
(***************************************************************************)
(* The operations of DocumentService, CryptoShreddingService and           *)
(* MalwareScanService that change a document after its upload.  Each reads *)
(* the document, decides, and writes it back with an UPDATE that repeats   *)
(* none of the conditions it decided on.                                   *)
(***************************************************************************)
EXTENDS DocumentStore

Ask(r, step, d, u) ==
    Begin(r, [Idle EXCEPT !.step = step, !.doc = d, !.user = u])

\* "document is locked by another user"
MayEdit(d, u) == doc[d].lockedBy \in {None, u}

Latest(d) == CHOOSE n \in doc[d].versions : \A m \in doc[d].versions : m <= n

-----------------------------------------------------------------------------
(* restoreVersion: a new version row that points at the blob of an old one. *)

RestoreRead(r, d, u) ==
    /\ ~doc[d].deleted
    /\ ~doc[d].legalHoldActive
    /\ MayEdit(d, u)
    /\ Latest(d) < MaxVersions
    /\ Begin(r, [Idle EXCEPT !.step = "restore", !.doc = d, !.user = u,
                             !.version = Latest(d) + 1])

\* Faulty: no unique constraint on (documentId, versionNumber).
RestoreCommitUnchecked(r) ==
    LET d == req[r].doc  n == req[r].version IN
    WriteRow(r, "restore",
             [doc[d] EXCEPT !.versions = @ \cup {n}, !.current = n,
                            !.status = "ACTIVE"])

RestoreCommit(r) ==
    LET d == req[r].doc  n == req[r].version IN
    /\ req[r].step = "restore"
    /\ n \notin doc[d].versions
    /\ WriteRow(r, "restore",
                [doc[d] EXCEPT !.versions = @ \cup {n}, !.current = n,
                               !.status = "ACTIVE"])

\* @@unique([documentId, versionNumber]) rolls a second writer of the same
\* number back.
RestoreConflict(r) ==
    /\ req[r].step = "restore"
    /\ req[r].version \in doc[req[r].doc].versions
    /\ Reply(r)
    /\ UNCHANGED <<doc, hold>>

(* updateDocument (PATCH). *)

\* Faulty: PATCH forgets the checkout.
UpdateReadUnlocked(r, d, u) == ~doc[d].deleted /\ Ask(r, "update", d, u)

UpdateRead(r, d, u) ==
    /\ ~doc[d].deleted
    /\ MayEdit(d, u)
    /\ Ask(r, "update", d, u)

UpdateWrite(r) ==
    WriteRow(r, "update", [doc[req[r].doc] EXCEPT !.title = req[r].user])

(* lockDocument and unlockDocument (checkout and checkin). *)

LockRead(r, d, u) ==
    /\ ~doc[d].deleted
    /\ doc[d].lockedBy = None
    /\ Ask(r, "lock", d, u)

LockWrite(r) ==
    WriteRow(r, "lock", [doc[req[r].doc] EXCEPT !.lockedBy = req[r].user])

UnlockRead(r, d, u) ==
    /\ ~doc[d].deleted
    /\ doc[d].lockedBy # None
    /\ doc[d].lockedBy = u \/ u \in Admins
    /\ Ask(r, "unlock", d, u)

UnlockWrite(r) ==
    WriteRow(r, "unlock", [doc[req[r].doc] EXCEPT !.lockedBy = None])

(* deleteDocument: the soft delete. *)

\* Faulty: the delete forgets the legal hold.
DeleteReadHeld(r, d, u) ==
    ~doc[d].deleted /\ MayEdit(d, u) /\ Ask(r, "delete", d, u)

DeleteRead(r, d, u) ==
    /\ ~doc[d].deleted
    /\ ~doc[d].legalHoldActive
    /\ MayEdit(d, u)
    /\ Ask(r, "delete", d, u)

DeleteWrite(r) ==
    WriteRow(r, "delete",
             [doc[req[r].doc] EXCEPT !.deleted = TRUE, !.status = "DELETED"])

(* declareAsRecord. *)

DeclareRead(r, d, u) ==
    /\ ~doc[d].deleted
    /\ ~doc[d].isRecord
    /\ Ask(r, "declare", d, u)

DeclareWrite(r) ==
    WriteRow(r, "declare",
             [doc[req[r].doc] EXCEPT !.isRecord = TRUE, !.status = "RECORD"])

(* shredDocument.  No code calls encryptVersion, so encryptionKeyRef is null *)
(* in every version row and the loop that destroys the keys skips them all.  *)

ShredRead(r, d, u) ==
    /\ ~doc[d].legalHoldActive
    /\ Ask(r, "shred", d, u)

ShredWrite(r) ==
    WriteRow(r, "shred",
             [doc[req[r].doc] EXCEPT !.deleted = TRUE, !.status = "DELETED"])

(* scanDocument: reads the version row only, then downloads the blob; the  *)
(* model keeps the scans that find a threat.                               *)

ScanRead(r, d, u) == Ask(r, "quarantine", d, u)

ScanWrite(r) ==
    WriteRow(r, "quarantine", [doc[req[r].doc] EXCEPT !.status = "QUARANTINED"])

-----------------------------------------------------------------------------

DocRead(r) ==
    \E d \in Docs, u \in Users :
        \/ RestoreRead(r, d, u)
        \/ UpdateRead(r, d, u)
        \/ LockRead(r, d, u)
        \/ UnlockRead(r, d, u)
        \/ DeleteRead(r, d, u)
        \/ DeclareRead(r, d, u)
        \/ ShredRead(r, d, u)
        \/ ScanRead(r, d, u)

DocWrite(r) ==
    \/ RestoreCommit(r)
    \/ RestoreConflict(r)
    \/ UpdateWrite(r)
    \/ LockWrite(r)
    \/ UnlockWrite(r)
    \/ DeleteWrite(r)
    \/ DeclareWrite(r)
    \/ ShredWrite(r)
    \/ ScanWrite(r)

DocNext == \E r \in DocRequests : DocRead(r) \/ DocWrite(r)

=============================================================================
