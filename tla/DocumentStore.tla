---------------------------- MODULE DocumentStore ----------------------------
(***************************************************************************)
(* The PostgreSQL rows of one tenant that DocumentService,                 *)
(* LegalHoldService, CryptoShreddingService and MalwareScanService share,  *)
(* and the HTTP requests that are between two of their database calls.     *)
(*                                                                         *)
(* A handler is a sequence of awaited database calls.  Every call is an    *)
(* action of its own: what a handler read in an earlier call stays in      *)
(* req[r], and other requests run in between.  A $transaction runs at      *)
(* READ COMMITTED (nothing in the backend sets an isolation level): its    *)
(* reads see what is committed when they run, its writes become visible    *)
(* together when it commits.                                               *)
(***************************************************************************)
EXTENDS Naturals, FiniteSets

CONSTANTS
    Docs,          \* documents whose upload has completed
    Holds,         \* legal holds, by their unique code
    Users,
    Admins,        \* the users with the admin role
    DocRequests,   \* handlers of document endpoints that may be in flight
    HoldRequests,  \* handlers of legal-hold endpoints that may be in flight
    MaxVersions,   \* bound: versions of one document
    None

ASSUME StoreAssumption ==
    /\ Admins \subseteq Users
    /\ MaxVersions \in Nat \ {0}
    /\ None \notin Docs \cup Holds \cup Users

VARIABLES
    doc,    \* doc[d]: the documents row of d with its document_versions rows
    hold,   \* hold[h]: the legal_holds row of h with its join-table rows
    req     \* req[r]: what the handler r has read so far and does next

vars == <<doc, hold, req>>

Requests == DocRequests \cup HoldRequests

Status == {"ACTIVE", "RECORD", "DELETED", "QUARANTINED"}

\* title stands for all of the metadata that PATCH writes: the user who wrote
\* it last.  lockedBy = None is isLocked = false.
DocRow ==
    [status: Status, deleted: BOOLEAN, lockedBy: Users \cup {None},
     isRecord: BOOLEAN, legalHoldActive: BOOLEAN, title: Users \cup {None},
     versions: SUBSET Nat, current: Nat]

\* A hold that was never created is "unplaced"; isActive splits the others.
HoldRow == [state: {"unplaced", "active", "released"}, documents: SUBSET Docs]

DocSteps == {"restore", "update", "lock", "unlock", "delete", "declare",
             "shred", "quarantine"}
HoldSteps == {"create", "attachDoc", "attach", "detachCount", "detach",
              "release"}

Request ==
    [step: DocSteps \cup HoldSteps \cup {"idle"}, doc: Docs \cup {None},
     hold: Holds \cup {None}, user: Users \cup {None}, version: Nat,
     docs: SUBSET Docs, unblock: SUBSET Docs]

Idle == [step |-> "idle", doc |-> None, hold |-> None, user |-> None,
         version |-> 0, docs |-> {}, unblock |-> {}]

\* What uploadComplete leaves behind: an ACTIVE document with version 1.
Uploaded ==
    [status |-> "ACTIVE", deleted |-> FALSE, lockedBy |-> None,
     isRecord |-> FALSE, legalHoldActive |-> FALSE, title |-> None,
     versions |-> {1}, current |-> 1]

Init ==
    /\ doc = [d \in Docs |-> Uploaded]
    /\ hold = [h \in Holds |-> [state |-> "unplaced", documents |-> {}]]
    /\ req = [r \in Requests |-> Idle]

-----------------------------------------------------------------------------

\* A handler passes its checks and goes on to its next database call.
Begin(r, q) ==
    /\ req[r] = Idle
    /\ req' = [req EXCEPT ![r] = q]
    /\ UNCHANGED <<doc, hold>>

Reply(r) == req' = [req EXCEPT ![r] = Idle]

\* The last database call of a handler of one document: write its row, answer.
WriteRow(r, step, row) ==
    /\ req[r].step = step
    /\ doc' = [doc EXCEPT ![req[r].doc] = row]
    /\ Reply(r)
    /\ UNCHANGED hold

\* A database call rejects, or the process dies: the handler writes nothing
\* (no handler here writes before its last call or outside a transaction).
Abandon(r) ==
    /\ req[r] # Idle
    /\ Reply(r)
    /\ UNCHANGED <<doc, hold>>

=============================================================================
