---------------------------- MODULE RecordsProofs ----------------------------
(***************************************************************************)
(* Theorems about Records, for any sets of documents, holds, users and     *)
(* requests.                                                               *)
(***************************************************************************)
EXTENDS Records, TLAPS

\* A request that is past its checks names the rows it will write.
WellFormed(q) ==
    /\ q \in Request
    /\ q.step \in DocSteps => q.doc \in Docs /\ q.user \in Users
    /\ q.step \in HoldSteps => q.hold \in Holds
    /\ q.step \in {"attachDoc", "attach", "detachCount", "detach"} => q.doc \in Docs

\* A document has a version, and a restore in flight chose a number that is
\* at most one past the newest version.
Rows ==
    /\ doc \in [Docs -> DocRow]
    /\ hold \in [Holds -> HoldRow]
    /\ \A d \in Docs : doc[d].current >= 1 /\ doc[d].versions = 1 .. doc[d].current

InFlight ==
    /\ req \in [Requests -> Request]
    /\ \A r \in Requests :
         /\ WellFormed(req[r])
         /\ req[r].step = "restore" =>
              req[r].version \in 1 .. doc[req[r].doc].current + 1

Inv == Rows /\ InFlight

\* No step takes a document's newest version away.
Grows == \A d \in Docs : doc'[d].current >= doc[d].current

-----------------------------------------------------------------------------

LEMMA IdleWellFormed == WellFormed(Idle) /\ Idle.step = "idle"
  BY SMT DEF WellFormed, Idle, Request, DocSteps, HoldSteps

\* Taking a request to a well-formed state keeps the invariant.
LEMMA RequestStep ==
  ASSUME Inv, Rows', Grows, NEW r \in Requests, NEW q, WellFormed(q),
         req' = [req EXCEPT ![r] = q],
         q.step = "restore" => q.version \in 1 .. doc'[q.doc].current + 1
  PROVE  Inv'
<1>1. req' \in [Requests -> Request]
  BY DEF Inv, InFlight, WellFormed
<1>2. ASSUME NEW s \in Requests PROVE WellFormed(req'[s])
  BY DEF Inv, InFlight, WellFormed
<1>3. ASSUME NEW s \in Requests, req'[s].step = "restore"
      PROVE  req'[s].version \in 1 .. doc'[req'[s].doc].current + 1
  <2>1. CASE s = r
    BY <1>3, <2>1 DEF Inv, InFlight
  <2>2. CASE s # r
    <3>1. req'[s] = req[s]
      BY <2>2 DEF Inv, InFlight
    <3>2. /\ req[s].version \in 1 .. doc[req[s].doc].current + 1
          /\ req[s].doc \in Docs
          /\ req[s].version \in Nat
      BY <3>1, <1>3 DEF Inv, InFlight, WellFormed, DocSteps, Request
    <3>3. doc[req[s].doc].current \in Nat /\ doc'[req[s].doc].current \in Nat
      BY <3>2 DEF Inv, Rows, DocRow
    <3> QED BY <3>1, <3>2, <3>3 DEF Grows
  <2> QED BY <2>1, <2>2
<1> QED BY <1>1, <1>2, <1>3 DEF Inv, InFlight, WellFormed

\* A step that leaves the rows alone.
LEMMA SameRows ==
  ASSUME Inv, UNCHANGED <<doc, hold>>
  PROVE  Rows' /\ Grows
  BY SMT DEF Inv, Rows, Grows, DocRow

LEMMA BeginStep ==
  ASSUME Inv, NEW r \in Requests, NEW q, WellFormed(q), Begin(r, q),
         q.step = "restore" => q.version \in 1 .. doc[q.doc].current + 1
  PROVE  Inv'
<1>1. Rows' /\ Grows BY SameRows DEF Begin
<1> QED BY <1>1, RequestStep DEF Begin

LEMMA ReplyStep ==
  ASSUME Inv, Rows', Grows, NEW r \in Requests, Reply(r)
  PROVE  Inv'
  BY RequestStep, IdleWellFormed DEF Reply

LEMMA RefuseStep ==
  ASSUME Inv, NEW r \in Requests, Reply(r), UNCHANGED <<doc, hold>>
  PROVE  Inv'
  BY SameRows, ReplyStep

\* Writing one document row that has its versions in order.
LEMMA WriteRowStep ==
  ASSUME Inv, NEW r \in Requests, NEW step, NEW row \in DocRow,
         req[r].doc \in Docs, row.current >= doc[req[r].doc].current,
         row.versions = 1 .. row.current, WriteRow(r, step, row)
  PROVE  Inv'
<1>1. \A d \in Docs : doc'[d] = IF d = req[r].doc THEN row ELSE doc[d]
  BY DEF WriteRow, Inv, Rows
<1>2. \A d \in Docs : doc[d].current \in Nat /\ row.current \in Nat
  BY DEF Inv, Rows, DocRow
<1>3. doc' \in [Docs -> DocRow] /\ hold' = hold
  BY DEF WriteRow, Inv, Rows
<1>4. Rows' BY <1>1, <1>2, <1>3 DEF Inv, Rows
<1>5. Grows BY <1>1, <1>2 DEF Grows
<1> QED BY <1>4, <1>5, ReplyStep DEF WriteRow

-----------------------------------------------------------------------------
(* DocumentService.                                                        *)

LEMMA LatestIsCurrent ==
  ASSUME Inv, NEW d \in Docs
  PROVE  Latest(d) = doc[d].current
<1>1. doc[d].current \in Nat /\ doc[d].current >= 1 /\ doc[d].versions = 1 .. doc[d].current
  BY DEF Inv, Rows, DocRow
<1>2. doc[d].current \in doc[d].versions /\ \A m \in doc[d].versions : m <= doc[d].current
  BY <1>1
<1>3. \A n \in doc[d].versions :
        (\A m \in doc[d].versions : m <= n) => n = doc[d].current
  BY <1>1, <1>2
<1> QED BY <1>2, <1>3 DEF Latest

\* The request of a restore that chose number n.
Chosen(d, u, n) ==
    [Idle EXCEPT !.step = "restore", !.doc = d, !.user = u, !.version = n]

LEMMA ChosenWellFormed ==
  ASSUME NEW d \in Docs, NEW u \in Users, NEW n \in Nat
  PROVE  /\ WellFormed(Chosen(d, u, n))
         /\ Chosen(d, u, n).doc = d
         /\ Chosen(d, u, n).version = n
<1>1. Chosen(d, u, n) \in Request
  BY DEF Chosen, Idle, Request, DocSteps
<1>2. /\ Chosen(d, u, n).doc = d /\ Chosen(d, u, n).version = n
      /\ Chosen(d, u, n).user = u /\ Chosen(d, u, n).step = "restore"
  BY DEF Chosen, Idle
<1> QED BY <1>1, <1>2 DEF WellFormed, HoldSteps

LEMMA DocReadStep ==
  ASSUME Inv, NEW r \in Requests, DocRead(r)
  PROVE  Inv'
<1> PICK d \in Docs, u \in Users :
       \/ RestoreRead(r, d, u) \/ UpdateRead(r, d, u) \/ LockRead(r, d, u)
       \/ UnlockRead(r, d, u)  \/ DeleteRead(r, d, u) \/ DeclareRead(r, d, u)
       \/ ShredRead(r, d, u)   \/ ScanRead(r, d, u)
  BY DEF DocRead
<1>1. ASSUME NEW step \in DocSteps \ {"restore"}, Ask(r, step, d, u)
      PROVE  Inv'
  <2> DEFINE q == [Idle EXCEPT !.step = step, !.doc = d, !.user = u]
  <2>1. WellFormed(q) /\ q.step # "restore"
    BY DEF WellFormed, Idle, Request, DocSteps, HoldSteps
  <2> QED BY <1>1, <2>1, BeginStep DEF Ask
<1>2. CASE RestoreRead(r, d, u)
  <2> DEFINE n == doc[d].current + 1
  <2>1. Latest(d) + 1 = n /\ n \in Nat /\ n \in 1 .. doc[d].current + 1
    BY LatestIsCurrent DEF Inv, Rows, DocRow
  <2>2. Begin(r, Chosen(d, u, n)) BY <1>2, <2>1 DEF RestoreRead, Chosen
  <2> QED BY <2>1, <2>2, ChosenWellFormed, BeginStep
<1> QED
  BY <1>1, <1>2 DEF UpdateRead, LockRead, UnlockRead, DeleteRead, DeclareRead,
                    ShredRead, ScanRead, DocSteps

\* What a request that is past its checks knows of its document.
LEMMA DocFacts ==
  ASSUME Inv, NEW r \in Requests, req[r].step \in DocSteps
  PROVE  /\ req[r].doc \in Docs /\ req[r].user \in Users /\ req[r].version \in Nat
         /\ doc[req[r].doc] \in DocRow
         /\ doc[req[r].doc].versions = 1 .. doc[req[r].doc].current
  BY DEF Inv, Rows, InFlight, WellFormed, Request

\* Every write of a document row but the restore's leaves its versions alone.
LEMMA KeepVersionsStep ==
  ASSUME Inv, NEW r \in Requests, NEW step \in DocSteps, NEW row \in DocRow,
         row.current = doc[req[r].doc].current,
         row.versions = doc[req[r].doc].versions, WriteRow(r, step, row)
  PROVE  Inv'
<1>1. req[r].step \in DocSteps BY DEF WriteRow
<1>2. doc[req[r].doc].current \in Nat BY <1>1, DocFacts DEF DocRow
<1> QED BY <1>1, <1>2, DocFacts, WriteRowStep

LEMMA DocWriteStep ==
  ASSUME Inv, NEW r \in Requests, DocWrite(r)
  PROVE  Inv'
<1> DEFINE d == req[r].doc
           row == doc[d]
<1> USE DEF DocSteps
<1>1. CASE RestoreCommit(r)
  <2> DEFINE n == req[r].version
             new == [row EXCEPT !.versions = @ \cup {n}, !.current = n,
                                !.status = "ACTIVE"]
  <2>1. req[r].step = "restore" /\ WriteRow(r, "restore", new) /\ n \notin row.versions
    BY <1>1 DEF RestoreCommit
  <2>2. /\ d \in Docs /\ n \in Nat /\ row \in DocRow
        /\ row.versions = 1 .. row.current
    BY <2>1, DocFacts
  <2>3. n \in 1 .. row.current + 1
    BY <2>1 DEF Inv, InFlight
  <2>4. row.current \in Nat /\ row.current >= 1
    BY <2>2 DEF Inv, Rows, DocRow
  <2>5. n = row.current + 1
    BY <2>1, <2>2, <2>3, <2>4
  <2>6. new \in DocRow /\ new.current = n /\ new.versions = row.versions \cup {n}
    BY <2>2 DEF DocRow, Status
  <2>7. new.versions = 1 .. new.current /\ new.current >= row.current
    BY <2>2, <2>4, <2>5, <2>6
  <2> QED BY <2>1, <2>2, <2>6, <2>7, WriteRowStep
<1>2. CASE RestoreConflict(r)
  BY <1>2, RefuseStep DEF RestoreConflict
<1>3. CASE UpdateWrite(r)
  <2>1. req[r].step = "update" BY <1>3 DEF UpdateWrite, WriteRow
  <2>2. [row EXCEPT !.title = req[r].user] \in DocRow
    BY <2>1, DocFacts DEF DocRow, Status
  <2> QED BY <1>3, <2>1, <2>2, KeepVersionsStep, DocFacts DEF UpdateWrite, DocRow
<1>4. CASE LockWrite(r)
  <2>1. req[r].step = "lock" BY <1>4 DEF LockWrite, WriteRow
  <2>2. [row EXCEPT !.lockedBy = req[r].user] \in DocRow
    BY <2>1, DocFacts DEF DocRow, Status
  <2> QED BY <1>4, <2>1, <2>2, KeepVersionsStep, DocFacts DEF LockWrite, DocRow
<1>5. CASE UnlockWrite(r)
  <2>1. req[r].step = "unlock" BY <1>5 DEF UnlockWrite, WriteRow
  <2>2. [row EXCEPT !.lockedBy = None] \in DocRow
    BY <2>1, DocFacts DEF DocRow, Status
  <2> QED BY <1>5, <2>1, <2>2, KeepVersionsStep, DocFacts DEF UnlockWrite, DocRow
<1>6. CASE DeleteWrite(r)
  <2>1. req[r].step = "delete" BY <1>6 DEF DeleteWrite, WriteRow
  <2>2. [row EXCEPT !.deleted = TRUE, !.status = "DELETED"] \in DocRow
    BY <2>1, DocFacts DEF DocRow, Status
  <2> QED BY <1>6, <2>1, <2>2, KeepVersionsStep, DocFacts DEF DeleteWrite, DocRow
<1>7. CASE DeclareWrite(r)
  <2>1. req[r].step = "declare" BY <1>7 DEF DeclareWrite, WriteRow
  <2>2. [row EXCEPT !.isRecord = TRUE, !.status = "RECORD"] \in DocRow
    BY <2>1, DocFacts DEF DocRow, Status
  <2> QED BY <1>7, <2>1, <2>2, KeepVersionsStep, DocFacts DEF DeclareWrite, DocRow
<1>8. CASE ShredWrite(r)
  <2>1. req[r].step = "shred" BY <1>8 DEF ShredWrite, WriteRow
  <2>2. [row EXCEPT !.deleted = TRUE, !.status = "DELETED"] \in DocRow
    BY <2>1, DocFacts DEF DocRow, Status
  <2> QED BY <1>8, <2>1, <2>2, KeepVersionsStep, DocFacts DEF ShredWrite, DocRow
<1>9. CASE ScanWrite(r)
  <2>1. req[r].step = "quarantine" BY <1>9 DEF ScanWrite, WriteRow
  <2>2. [row EXCEPT !.status = "QUARANTINED"] \in DocRow
    BY <2>1, DocFacts DEF DocRow, Status
  <2> QED BY <1>9, <2>1, <2>2, KeepVersionsStep, DocFacts DEF ScanWrite, DocRow
<1> QED
  BY <1>1, <1>2, <1>3, <1>4, <1>5, <1>6, <1>7, <1>8, <1>9 DEF DocWrite

-----------------------------------------------------------------------------
(* LegalHoldService.                                                       *)

\* What a legal-hold request that is past its checks knows.
LEMMA HoldFacts ==
  ASSUME Inv, NEW r \in Requests, req[r].step \in HoldSteps
  PROVE  /\ req[r].hold \in Holds /\ hold[req[r].hold] \in HoldRow
         /\ req[r].docs \subseteq Docs /\ req[r].unblock \subseteq Docs
         /\ req[r].step \in {"attachDoc", "attach", "detachCount", "detach"} =>
              req[r].doc \in Docs
  BY DEF Inv, Rows, InFlight, WellFormed, Request

LEMMA SetFlagRows ==
  ASSUME Inv, NEW D, NEW value \in BOOLEAN, SetFlag(D, value),
         hold' \in [Holds -> HoldRow]
  PROVE  Rows' /\ Grows
<1>1. \A d \in Docs : /\ doc'[d] \in DocRow
                      /\ doc'[d].current = doc[d].current
                      /\ doc'[d].versions = doc[d].versions
  BY DEF SetFlag, Inv, Rows, DocRow
<1>2. doc' \in [Docs -> DocRow] BY <1>1 DEF SetFlag
<1>3. \A d \in Docs : doc[d].current \in Nat BY DEF Inv, Rows, DocRow
<1> QED BY <1>1, <1>2, <1>3 DEF Inv, Rows, Grows

\* A transaction that writes holds and flags, and then answers.
LEMMA FlagStep ==
  ASSUME Inv, NEW r \in Requests, NEW D, NEW value \in BOOLEAN,
         SetFlag(D, value), hold' \in [Holds -> HoldRow], Reply(r)
  PROVE  Inv'
  BY SetFlagRows, ReplyStep

\* A request that takes its next step inside a handler.
LEMMA InnerStep ==
  ASSUME Inv, NEW r \in Requests, NEW q, WellFormed(q), q.step # "restore",
         req' = [req EXCEPT ![r] = q], UNCHANGED <<doc, hold>>
  PROVE  Inv'
  BY SameRows, RequestStep

LEMMA HoldReadStep ==
  ASSUME Inv, NEW r \in Requests, HoldRead(r)
  PROVE  Inv'
<1> PICK h \in Holds :
       \/ \E D \in SUBSET Docs : CreateRead(r, h, D)
       \/ \E d \in Docs : AttachRead(r, h, d)
       \/ \E d \in Docs : DetachRead(r, h, d)
       \/ ReleaseRead(r, h)
  BY DEF HoldRead
<1> USE DEF DocSteps, HoldSteps
<1>1. ASSUME NEW D \in SUBSET Docs, CreateRead(r, h, D) PROVE Inv'
  <2> DEFINE q == [Idle EXCEPT !.step = "create", !.hold = h, !.docs = D]
  <2>1. WellFormed(q) /\ q.step # "restore"
    BY DEF WellFormed, Idle, Request
  <2>2. Begin(r, q) BY <1>1 DEF CreateRead
  <2> QED BY <2>1, <2>2, BeginStep
<1>2. ASSUME NEW d \in Docs, AttachRead(r, h, d) PROVE Inv'
  <2> DEFINE q == [Idle EXCEPT !.step = "attachDoc", !.hold = h, !.doc = d]
  <2>1. WellFormed(q) /\ q.step # "restore"
    BY DEF WellFormed, Idle, Request
  <2>2. Begin(r, q) BY <1>2 DEF AttachRead
  <2> QED BY <2>1, <2>2, BeginStep
<1>3. ASSUME NEW d \in Docs, DetachRead(r, h, d) PROVE Inv'
  <2> DEFINE q == [Idle EXCEPT !.step = "detachCount", !.hold = h, !.doc = d]
  <2>1. WellFormed(q) /\ q.step # "restore"
    BY DEF WellFormed, Idle, Request
  <2>2. Begin(r, q) BY <1>3 DEF DetachRead
  <2> QED BY <2>1, <2>2, BeginStep
<1>4. CASE ReleaseRead(r, h)
  <2> DEFINE q == [Idle EXCEPT !.step = "release", !.hold = h,
                               !.docs = hold[h].documents]
  <2>1. WellFormed(q) /\ q.step # "restore"
    BY DEF WellFormed, Idle, Request, Inv, Rows, HoldRow
  <2>2. Begin(r, q) BY <1>4 DEF ReleaseRead
  <2> QED BY <2>1, <2>2, BeginStep
<1> QED BY <1>1, <1>2, <1>3, <1>4

LEMMA HoldWriteStep ==
  ASSUME Inv, NEW r \in Requests, HoldWrite(r)
  PROVE  Inv'
<1> DEFINE h == req[r].hold
<1> USE DEF HoldSteps
<1>1. CASE CreateCommit(r)
  <2>1. req[r].step = "create" BY <1>1 DEF CreateCommit
  <2>2. hold' \in [Holds -> HoldRow]
    BY <1>1, <2>1, HoldFacts DEF CreateCommit, Inv, Rows, HoldRow
  <2> QED BY <1>1, <2>2, FlagStep DEF CreateCommit
<1>2. CASE CreateConflict(r) \/ AttachRefused(r)
  BY <1>2, RefuseStep DEF CreateConflict, AttachRefused
<1>3. CASE AttachDocRead(r)
  <2> DEFINE q == [req[r] EXCEPT !.step = "attach"]
  <2>1. req[r].step = "attachDoc" BY <1>3 DEF AttachDocRead
  <2>2. WellFormed(q) /\ q.step # "restore"
    BY <2>1, HoldFacts DEF WellFormed, Request, DocSteps, Inv, InFlight
  <2>3. req' = [req EXCEPT ![r] = q] /\ UNCHANGED <<doc, hold>>
    BY <1>3 DEF AttachDocRead
  <2> QED BY <2>2, <2>3, InnerStep
<1>4. CASE AttachCommit(r)
  <2>1. req[r].step = "attach" BY <1>4 DEF AttachCommit
  <2>2. hold' \in [Holds -> HoldRow]
    BY <1>4, <2>1, HoldFacts DEF AttachCommit, Inv, Rows, HoldRow
  <2> QED BY <1>4, <2>2, FlagStep DEF AttachCommit
<1>5. CASE DetachCount(r)
  <2> DEFINE U == IF OtherActive(h, req[r].doc) THEN {} ELSE {req[r].doc}
             q == [req[r] EXCEPT !.step = "detach", !.unblock = U]
  <2>1. req[r].step = "detachCount" BY <1>5 DEF DetachCount
  <2>2. U \subseteq Docs BY <2>1, HoldFacts
  <2>3. req' = [req EXCEPT ![r] = q] /\ UNCHANGED <<doc, hold>>
    BY <1>5 DEF DetachCount
  <2> HIDE DEF U
  <2>4. WellFormed(q) /\ q.step # "restore"
    BY <2>1, <2>2, HoldFacts DEF WellFormed, Request, DocSteps, Inv, InFlight
  <2> QED BY <2>3, <2>4, InnerStep
<1>6. CASE DetachCommit(r)
  <2>1. req[r].step = "detach" BY <1>6 DEF DetachCommit
  <2>2. hold' \in [Holds -> HoldRow]
    BY <1>6, <2>1, HoldFacts DEF DetachCommit, Inv, Rows, HoldRow
  <2> QED BY <1>6, <2>2, FlagStep DEF DetachCommit
<1>7. CASE ReleaseCount(r)
  <2>1. PICK d \in req[r].docs :
          req' = [req EXCEPT ![r].docs = @ \ {d},
                             ![r].unblock = IF OtherActive(h, d)
                                            THEN @ ELSE @ \cup {d}]
    BY <1>7 DEF ReleaseCount
  <2> DEFINE U == IF OtherActive(h, d) THEN req[r].unblock
                                       ELSE req[r].unblock \cup {d}
             q == [req[r] EXCEPT !.docs = @ \ {d}, !.unblock = U]
  <2>2. req[r].step = "release" BY <1>7 DEF ReleaseCount
  <2>3. U \subseteq Docs BY <2>2, HoldFacts
  <2>4. req' = [req EXCEPT ![r] = q] /\ UNCHANGED <<doc, hold>>
    BY <1>7, <2>1 DEF ReleaseCount
  <2> HIDE DEF U
  <2>5. WellFormed(q) /\ q.step # "restore"
    BY <2>2, <2>3, HoldFacts DEF WellFormed, Request, DocSteps, Inv, InFlight
  <2> QED BY <2>4, <2>5, InnerStep
<1>8. CASE ReleaseCommit(r)
  <2>1. req[r].step = "release" BY <1>8 DEF ReleaseCommit
  <2>2. hold' \in [Holds -> HoldRow]
    BY <1>8, <2>1, HoldFacts DEF ReleaseCommit, Inv, Rows, HoldRow
  <2> QED BY <1>8, <2>2, FlagStep DEF ReleaseCommit
<1> QED BY <1>1, <1>2, <1>3, <1>4, <1>5, <1>6, <1>7, <1>8 DEF HoldWrite

-----------------------------------------------------------------------------

LEMMA InvInit ==
  ASSUME Init PROVE Inv
<1>1. Uploaded \in DocRow /\ Uploaded.current = 1 /\ Uploaded.versions = 1 .. 1
  BY DEF Uploaded, DocRow, Status
<1>2. Rows
  <2>1. doc \in [Docs -> DocRow] /\ \A d \in Docs : doc[d] = Uploaded
    BY <1>1 DEF Init
  <2>2. hold \in [Holds -> HoldRow] BY DEF Init, HoldRow
  <2>3. \A d \in Docs : doc[d].current = 1 /\ doc[d].versions = 1 .. 1
    BY <1>1, <2>1, Zenon
  <2>4. \A d \in Docs : doc[d].versions = 1 .. doc[d].current
    BY <2>3, Zenon
  <2>5. \A d \in Docs : doc[d].current >= 1
    BY <2>3
  <2> QED BY <2>1, <2>2, <2>4, <2>5 DEF Rows
<1>3. InFlight BY IdleWellFormed DEF Init, InFlight, WellFormed
<1> QED BY <1>2, <1>3 DEF Inv

LEMMA InvStep ==
  ASSUME Inv, [Next]_vars PROVE Inv'
<1>1. CASE DocNext
  BY <1>1, DocReadStep, DocWriteStep DEF DocNext, Requests
<1>2. CASE HoldNext
  BY <1>2, HoldReadStep, HoldWriteStep DEF HoldNext, Requests
<1>3. CASE \E r \in Requests : Abandon(r)
  BY <1>3, RefuseStep DEF Abandon
<1>4. CASE UNCHANGED vars
  <2>1. doc' = doc /\ hold' = hold /\ req' = req BY <1>4 DEF vars
  <2>2. Rows' BY <2>1, SameRows
  <2>3. InFlight' BY <2>1 DEF Inv, InFlight, WellFormed
  <2> QED BY <2>2, <2>3 DEF Inv
<1> QED BY <1>1, <1>2, <1>3, <1>4 DEF Next

\* Every reachable state satisfies the strengthened invariant.
THEOREM InvHolds == Spec => []Inv
  BY InvInit, InvStep, PTL DEF Spec

\* Every row and every request in flight keeps its type, for any number of
\* concurrent requests.
THEOREM TypeCorrect == Spec => []TypeOK
<1>1. Inv => TypeOK BY DEF Inv, Rows, InFlight, TypeOK
<1> QED BY <1>1, InvHolds, PTL

\* Versions are numbered 1, 2, ... without a gap, and the current version is
\* the newest, for any number of concurrent restores.
THEOREM VersionsNumbered == Spec => []VersionsInOrder
<1>1. Inv => VersionsInOrder BY DEF Inv, Rows, VersionsInOrder
<1> QED BY <1>1, InvHolds, PTL

-----------------------------------------------------------------------------
(* The flag, with legal-hold requests that overlap only where holds are    *)
(* placed or extended.                                                     *)

\* What the legal-hold requests in flight have seen is still true.
ClerkInv ==
    \A r \in HoldRequests :
      LET q == req[r] IN
      /\ q.step \in {"attachDoc", "attach"} => hold[q.hold].state = "active"
      /\ q.step = "detach" =>
           q.unblock = IF OtherActive(q.hold, q.doc) THEN {} ELSE {q.doc}
      /\ q.step = "release" =>
           /\ hold[q.hold].state = "active"
           /\ q.docs \subseteq hold[q.hold].documents
           /\ q.unblock = {d \in hold[q.hold].documents \ q.docs :
                              ~OtherActive(q.hold, d)}

OnlyClerks == \A r \in Requests : req[r].step \in HoldSteps => r \in HoldRequests

FlagInv == Inv /\ OnlyClerks /\ ClerkInv /\ FlagInSync

\* What the flag has to say, split at one hold.
LEMMA CoverSplit ==
  ASSUME NEW h \in Holds, NEW d
  PROVE  UnderHold(d) <=> (hold[h].state = "active" /\ d \in hold[h].documents)
                            \/ OtherActive(h, d)
  BY DEF UnderHold, OtherActive

\* A step of a document request, of any number of them: it writes no hold and
\* no flag, and leaves every legal-hold request where it is.
LEMMA FlagKept ==
  ASSUME FlagInv, Inv', hold' = hold, NEW r \in Requests, NEW q,
         req' = [req EXCEPT ![r] = q], q.step \notin HoldSteps,
         \A d \in Docs : doc'[d].legalHoldActive = doc[d].legalHoldActive
  PROVE  FlagInv'
<1>1. \A s \in Requests : req'[s] = IF s = r THEN q ELSE req[s]
  BY DEF FlagInv, Inv, InFlight
<1>2. OnlyClerks' BY <1>1 DEF FlagInv, OnlyClerks
<1>3. \A h, d : OtherActive(h, d)' <=> OtherActive(h, d)
  BY DEF OtherActive
<1>4. ClerkInv'
  <2> SUFFICES ASSUME NEW s \in HoldRequests, s # r, req'[s] = req[s]
               PROVE ClerkInv!(s)'
    BY <1>1 DEF ClerkInv, HoldSteps, Requests
  <2> QED BY <1>3 DEF FlagInv, ClerkInv
<1>5. FlagInSync' BY DEF FlagInv, FlagInSync, UnderHold
<1> QED BY <1>2, <1>4, <1>5 DEF FlagInv

LEMMA DocStepFlag ==
  ASSUME FlagInv, Inv', NEW r \in Requests, DocRead(r) \/ DocWrite(r) \/ Abandon(r)
  PROVE  FlagInv'
<1> USE DEF HoldSteps
<1>1. ASSUME NEW q, Begin(r, q), q.step \notin HoldSteps PROVE FlagInv'
  BY <1>1, FlagKept DEF Begin
<1>2. ASSUME hold' = hold, Reply(r),
             \A d \in Docs : doc'[d].legalHoldActive = doc[d].legalHoldActive
      PROVE  FlagInv'
  BY <1>2, FlagKept, IdleWellFormed DEF Reply
<1>3. ASSUME NEW step, NEW row, WriteRow(r, step, row),
             row.legalHoldActive = doc[req[r].doc].legalHoldActive
      PROVE  FlagInv'
  <2>1. \A d \in Docs : doc'[d].legalHoldActive = doc[d].legalHoldActive
    BY <1>3 DEF WriteRow, FlagInv, Inv, Rows
  <2> QED BY <1>2, <1>3, <2>1 DEF WriteRow
<1>4. CASE DocRead(r)
  <2> PICK d \in Docs, u \in Users :
         \/ RestoreRead(r, d, u) \/ UpdateRead(r, d, u) \/ LockRead(r, d, u)
         \/ UnlockRead(r, d, u)  \/ DeleteRead(r, d, u) \/ DeclareRead(r, d, u)
         \/ ShredRead(r, d, u)   \/ ScanRead(r, d, u)
    BY <1>4 DEF DocRead
  <2>1. ASSUME NEW step \in DocSteps, Ask(r, step, d, u) PROVE FlagInv'
    <3>1. [Idle EXCEPT !.step = step, !.doc = d, !.user = u].step \notin HoldSteps
      BY DEF Idle, DocSteps
    <3> QED BY <1>1, <2>1, <3>1 DEF Ask
  <2>2. CASE RestoreRead(r, d, u)
    <3> DEFINE n == Latest(d) + 1
    <3>1. Begin(r, Chosen(d, u, n)) BY <2>2 DEF RestoreRead, Chosen
    <3>2. Chosen(d, u, n).step = "restore" BY DEF Chosen, Idle
    <3> HIDE DEF n
    <3> QED BY <1>1, <3>1, <3>2
  <2> QED
    BY <2>1, <2>2 DEF UpdateRead, LockRead, UnlockRead, DeleteRead, DeclareRead,
                      ShredRead, ScanRead, DocSteps
<1>5. CASE DocWrite(r)
  <2> DEFINE row == doc[req[r].doc]
  <2> SUFFICES ASSUME req[r].step \in DocSteps PROVE FlagInv'
    BY <1>5 DEF DocWrite, RestoreCommit, RestoreConflict, UpdateWrite, LockWrite,
                UnlockWrite, DeleteWrite, DeclareWrite, ShredWrite, ScanWrite,
                WriteRow, DocSteps
  <2>1. row \in DocRow BY DocFacts DEF FlagInv
  <2>2. CASE RestoreConflict(r)
    BY <1>2, <2>2 DEF RestoreConflict
  <2>3. ASSUME NEW n, NEW s PROVE
          [row EXCEPT !.versions = @ \cup {n}, !.current = n, !.status = s]
            .legalHoldActive = row.legalHoldActive
    BY <2>1 DEF DocRow
  <2>4. CASE RestoreCommit(r)
    BY <1>3, <2>3, <2>4 DEF RestoreCommit
  <2>5. CASE UpdateWrite(r)
    BY <1>3, <2>1, <2>5 DEF UpdateWrite, DocRow
  <2>6. CASE LockWrite(r)
    BY <1>3, <2>1, <2>6 DEF LockWrite, DocRow
  <2>7. CASE UnlockWrite(r)
    BY <1>3, <2>1, <2>7 DEF UnlockWrite, DocRow
  <2>8. CASE DeleteWrite(r)
    BY <1>3, <2>1, <2>8 DEF DeleteWrite, DocRow
  <2>9. CASE DeclareWrite(r)
    BY <1>3, <2>1, <2>9 DEF DeclareWrite, DocRow
  <2>10. CASE ShredWrite(r)
    BY <1>3, <2>1, <2>10 DEF ShredWrite, DocRow
  <2>11. CASE ScanWrite(r)
    BY <1>3, <2>1, <2>11 DEF ScanWrite, DocRow
  <2> QED
    BY <1>5, <2>2, <2>4, <2>5, <2>6, <2>7, <2>8, <2>9, <2>10, <2>11 DEF DocWrite
<1>6. CASE Abandon(r)
  BY <1>2, <1>6 DEF Abandon
<1> QED BY <1>4, <1>5, <1>6

Placing == {"create", "attachDoc", "attach"}

\* A step of r leaves true what the other legal-hold requests have seen: a
\* request that places or extends a hold has only seen that the hold is active.
OthersKeep(r) ==
    \/ hold' = hold
    \/ \A s \in HoldRequests \ {r} : req[s].step \in HoldSteps =>
          /\ req[s].step \in Placing
          /\ \A h \in Holds : hold[h].state = "active" => hold'[h].state = "active"

LEMMA Beside ==
  ASSUME OnlyPlacingOverlaps, NEW r \in HoldRequests, NEW s \in HoldRequests \ {r},
         req[r].step \in HoldSteps, req[s].step \in HoldSteps
  PROVE  req[r].step \in Placing /\ req[s].step \in Placing
<1>1. req[r] # Idle /\ req[s] # Idle
  BY IdleWellFormed DEF HoldSteps
<1> QED BY <1>1 DEF OnlyPlacingOverlaps, Placing

\* A legal-hold request r moves to q, beside others that it does not disturb.
LEMMA ClerkStep ==
  ASSUME FlagInv, Inv', NEW r \in HoldRequests, OthersKeep(r), NEW q,
         req' = [req EXCEPT ![r] = q], FlagInSync',
         q.step \in {"attachDoc", "attach"} => hold'[q.hold].state = "active",
         q.step = "detach" =>
           q.unblock = IF OtherActive(q.hold, q.doc)' THEN {} ELSE {q.doc},
         q.step = "release" =>
           /\ hold'[q.hold].state = "active"
           /\ q.docs \subseteq hold'[q.hold].documents
           /\ q.unblock = {d \in hold'[q.hold].documents \ q.docs :
                              ~OtherActive(q.hold, d)'}
  PROVE  FlagInv'
<1>1. \A s \in Requests : req'[s] = IF s = r THEN q ELSE req[s]
  BY DEF FlagInv, Inv, InFlight, Requests
<1>2. OnlyClerks' BY <1>1 DEF FlagInv, OnlyClerks, Requests
<1>3. ASSUME NEW s \in HoldRequests \ {r} PROVE ClerkInv!(s)'
  <2>1. req'[s] = req[s] /\ ClerkInv!(s)
    BY <1>1 DEF FlagInv, ClerkInv, Requests
  <2>2. CASE hold' = hold
    <3>1. \A h, d : OtherActive(h, d)' <=> OtherActive(h, d)
      BY <2>2 DEF OtherActive
    <3> QED BY <2>1, <2>2, <3>1
  <2>3. CASE req[s].step \notin HoldSteps
    BY <2>1, <2>3 DEF HoldSteps
  <2>4. CASE /\ req[s].step \in Placing
             /\ \A h \in Holds : hold[h].state = "active" => hold'[h].state = "active"
    <3>1. req[s].step \in HoldSteps => req[s].hold \in Holds
      BY HoldFacts DEF FlagInv, Requests
    <3> QED BY <2>1, <2>4, <3>1 DEF Placing, HoldSteps
  <2> QED BY <2>2, <2>3, <2>4 DEF OthersKeep
<1>4. req'[r] = q BY <1>1 DEF Requests
<1>5. ClerkInv'
  <2>1. ClerkInv!(r)' BY <1>4
  <2>2. \A s \in HoldRequests : ClerkInv!(s)' BY <1>3, <2>1
  <2> QED BY <2>2 DEF ClerkInv
<1> QED BY <1>2, <1>5 DEF FlagInv

\* Within a handler, before its transaction commits: no row changes.
LEMMA SameFlags ==
  ASSUME FlagInv, UNCHANGED <<doc, hold>>
  PROVE  /\ FlagInSync'
         /\ \A h, d : OtherActive(h, d)' <=> OtherActive(h, d)
<1>1. \A d : UnderHold(d)' <=> UnderHold(d) BY DEF UnderHold
<1>2. FlagInSync' BY <1>1 DEF FlagInv, FlagInSync
<1> QED BY <1>2 DEF OtherActive

\* The end of a handler.
LEMMA ClerkReply ==
  ASSUME FlagInv, Inv', NEW r \in HoldRequests, Reply(r), OthersKeep(r), FlagInSync'
  PROVE  FlagInv'
  BY ClerkStep, IdleWellFormed DEF Reply

LEMMA HoldReadFlag ==
  ASSUME FlagInv, Inv', NEW r \in HoldRequests, HoldRead(r)
  PROVE  FlagInv'
<1>1. ASSUME NEW q, Begin(r, q),
             q.step \in {"create", "attachDoc", "detachCount", "release"},
             q.step = "attachDoc" => hold[q.hold].state = "active",
             q.step = "release" => /\ hold[q.hold].state = "active"
                                   /\ q.docs = hold[q.hold].documents
                                   /\ q.unblock = {}
      PROVE  FlagInv'
  <2>1. FlagInSync' /\ hold' = hold /\ OthersKeep(r) /\ req' = [req EXCEPT ![r] = q]
    BY <1>1, SameFlags DEF Begin, OthersKeep
  <2>2. q.step = "release" =>
          q.unblock = {d \in hold'[q.hold].documents \ q.docs : ~OtherActive(q.hold, d)'}
    BY <1>1, <2>1
  <2> QED BY <1>1, <2>1, <2>2, ClerkStep
<1> PICK h \in Holds :
       \/ \E D \in SUBSET Docs : CreateRead(r, h, D)
       \/ \E d \in Docs : AttachRead(r, h, d)
       \/ \E d \in Docs : DetachRead(r, h, d)
       \/ ReleaseRead(r, h)
  BY DEF HoldRead
<1>2. ASSUME NEW D \in SUBSET Docs, CreateRead(r, h, D) PROVE FlagInv'
  <2> DEFINE q == [Idle EXCEPT !.step = "create", !.hold = h, !.docs = D]
  <2>1. q.step = "create" /\ Begin(r, q) BY <1>2 DEF CreateRead, Idle
  <2> QED BY <1>1, <2>1
<1>3. ASSUME NEW d \in Docs, AttachRead(r, h, d) PROVE FlagInv'
  <2> DEFINE q == [Idle EXCEPT !.step = "attachDoc", !.hold = h, !.doc = d]
  <2>1. /\ q.step = "attachDoc" /\ q.hold = h
        /\ Begin(r, q) /\ hold[h].state = "active"
    BY <1>3 DEF AttachRead, Idle
  <2> QED BY <1>1, <2>1
<1>4. ASSUME NEW d \in Docs, DetachRead(r, h, d) PROVE FlagInv'
  <2> DEFINE q == [Idle EXCEPT !.step = "detachCount", !.hold = h, !.doc = d]
  <2>1. q.step = "detachCount" /\ Begin(r, q) BY <1>4 DEF DetachRead, Idle
  <2> QED BY <1>1, <2>1
<1>5. CASE ReleaseRead(r, h)
  <2> DEFINE q == [Idle EXCEPT !.step = "release", !.hold = h,
                               !.docs = hold[h].documents]
  <2>1. /\ q.step = "release" /\ q.hold = h /\ q.docs = hold[h].documents
        /\ q.unblock = {}
        /\ Begin(r, q) /\ hold[h].state = "active"
    BY <1>5 DEF ReleaseRead, Idle
  <2> HIDE DEF q
  <2> QED BY <1>1, <2>1
<1> QED BY <1>2, <1>3, <1>4, <1>5

LEMMA HoldWriteFlag ==
  ASSUME OnlyPlacingOverlaps, FlagInv, Inv', NEW r \in HoldRequests, HoldWrite(r)
  PROVE  FlagInv'
<1> DEFINE q == req[r]
           h == q.hold
<1> USE DEF HoldSteps
<1>0. /\ ClerkInv!(r) /\ FlagInSync /\ Inv /\ r \in Requests
      /\ doc \in [Docs -> DocRow] /\ hold \in [Holds -> HoldRow]
  BY DEF FlagInv, ClerkInv, Requests, Inv, Rows
<1>n. UNCHANGED hold => OthersKeep(r)
  BY DEF OthersKeep
<1>p. ASSUME q.step \in HoldSteps,
             \A g \in Holds : hold[g].state = "active" => hold'[g].state = "active"
      PROVE  OthersKeep(r)
  BY <1>p, Beside DEF OthersKeep
<1>a. ASSUME q.step \in HoldSteps \ Placing PROVE OthersKeep(r)
  BY <1>a, Beside DEF OthersKeep
<1>1. CASE CreateCommit(r)
  <2>1. q.step = "create" /\ hold[h].state = "unplaced" BY <1>1 DEF CreateCommit
  <2>2. h \in Holds BY <1>0, <2>1, HoldFacts
  <2>3. \A d \in Docs : UnderHold(d)' <=> (d \in q.docs \/ UnderHold(d))
    BY <1>0, <1>1, <2>1, <2>2 DEF CreateCommit, UnderHold
  <2>4. \A d \in Docs : doc'[d].legalHoldActive =
                          IF d \in q.docs THEN TRUE ELSE doc[d].legalHoldActive
    BY <1>0, <1>1 DEF CreateCommit, SetFlag, DocRow
  <2>5. FlagInSync' BY <1>0, <2>3, <2>4 DEF FlagInSync
  <2>6. \A g \in Holds : hold[g].state = "active" => hold'[g].state = "active"
    BY <1>0, <1>1, <2>1 DEF CreateCommit
  <2> QED BY <1>1, <1>p, <2>1, <2>5, <2>6, ClerkReply DEF CreateCommit
<1>2. CASE CreateConflict(r) \/ AttachRefused(r)
  BY <1>2, <1>n, SameFlags, ClerkReply DEF CreateConflict, AttachRefused
<1>3. CASE AttachDocRead(r)
  <2> DEFINE p == [q EXCEPT !.step = "attach"]
  <2>1. q.step = "attachDoc" /\ hold[h].state = "active" /\ q \in Request
    BY <1>0, <1>3 DEF AttachDocRead, Inv, InFlight
  <2>2. p.step = "attach" /\ p.hold = h
    BY <2>1 DEF Request
  <2>3. req' = [req EXCEPT ![r] = p] /\ FlagInSync' /\ hold' = hold
    BY <1>3, SameFlags DEF AttachDocRead
  <2> QED BY <1>n, <2>1, <2>2, <2>3, ClerkStep
<1>4. CASE AttachCommit(r)
  <2> DEFINE e == q.doc
  <2>1. q.step = "attach" /\ hold[h].state = "active"
    BY <1>0, <1>4 DEF AttachCommit
  <2>2. h \in Holds /\ e \in Docs BY <1>0, <2>1, HoldFacts
  <2>3. \A d \in Docs : UnderHold(d)' <=> (d = e \/ UnderHold(d))
    BY <1>0, <1>4, <2>1, <2>2 DEF AttachCommit, UnderHold, HoldRow
  <2>4. \A d \in Docs : doc'[d].legalHoldActive =
                          IF d = e THEN TRUE ELSE doc[d].legalHoldActive
    BY <1>0, <1>4 DEF AttachCommit, SetFlag, DocRow
  <2>5. FlagInSync' BY <1>0, <2>3, <2>4 DEF FlagInSync
  <2>6. \A g \in Holds : hold[g].state = "active" => hold'[g].state = "active"
    BY <1>0, <1>4 DEF AttachCommit, HoldRow
  <2> QED BY <1>4, <1>p, <2>1, <2>5, <2>6, ClerkReply DEF AttachCommit
<1>5. CASE DetachCount(r)
  <2>0. q.step = "detachCount" /\ q \in Request
    BY <1>0, <1>5 DEF DetachCount, Inv, InFlight
  <2> PICK g \in Holds, e \in Docs : g = h /\ e = q.doc
    BY <1>0, <2>0, HoldFacts
  <2> DEFINE U == IF OtherActive(g, e) THEN {} ELSE {e}
             p == [q EXCEPT !.step = "detach", !.unblock = U]
  <2>1. req' = [req EXCEPT ![r] = p] /\ UNCHANGED <<doc, hold>>
    BY <1>5 DEF DetachCount
  <2>2. FlagInSync' /\ (OtherActive(g, e)' <=> OtherActive(g, e))
    BY <2>1, SameFlags
  <2>3. U = IF OtherActive(g, e)' THEN {} ELSE {e} BY <2>2
  <2> HIDE DEF U
  <2>4. p.step = "detach" /\ p.unblock = U /\ p.hold = g /\ p.doc = e
    BY <2>0 DEF Request
  <2> HIDE DEF p
  <2> QED BY <1>n, <2>1, <2>2, <2>3, <2>4, ClerkStep
<1>6. CASE DetachCommit(r)
  <2> DEFINE e == q.doc
  <2>1. q.step = "detach" BY <1>6 DEF DetachCommit
  <2>2. h \in Holds /\ e \in Docs BY <1>0, <2>1, HoldFacts
  <2>3. q.unblock = IF OtherActive(h, e) THEN {} ELSE {e} BY <1>0, <2>1
  <2>4. \A d \in Docs : UnderHold(d)' <=>
          (IF d = e THEN OtherActive(h, e) ELSE UnderHold(d))
    <3>1. \A g \in Holds : /\ hold'[g].state = hold[g].state
                           /\ hold'[g].documents = IF g = h THEN hold[g].documents \ {e}
                                                    ELSE hold[g].documents
      BY <1>0, <1>6 DEF DetachCommit, HoldRow
    <3> QED BY <2>2, <3>1 DEF UnderHold, OtherActive
  <2>5. \A d \in Docs : doc'[d].legalHoldActive =
                          IF d \in q.unblock THEN FALSE ELSE doc[d].legalHoldActive
    BY <1>0, <1>6 DEF DetachCommit, SetFlag, DocRow
  <2>6. OtherActive(h, e) => UnderHold(e) BY <2>2, CoverSplit
  <2>7. FlagInSync' BY <1>0, <2>2, <2>3, <2>4, <2>5, <2>6 DEF FlagInSync
  <2> QED BY <1>6, <1>a, <2>1, <2>7, ClerkReply DEF DetachCommit, Placing
<1>7. CASE ReleaseCount(r)
  <2>0. q.step = "release" /\ q \in Request
    BY <1>0, <1>7 DEF ReleaseCount, Inv, InFlight
  <2> PICK g \in Holds : g = h
    BY <1>0, <2>0, HoldFacts
  <2>1. PICK d \in q.docs :
          req' = [req EXCEPT ![r].docs = @ \ {d},
                             ![r].unblock = IF OtherActive(g, d)
                                            THEN @ ELSE @ \cup {d}]
    BY <1>7 DEF ReleaseCount
  <2> DEFINE U == IF OtherActive(g, d) THEN q.unblock ELSE q.unblock \cup {d}
             p == [q EXCEPT !.docs = @ \ {d}, !.unblock = U]
  <2>2. /\ hold[g].state = "active"
        /\ q.docs \subseteq hold[g].documents
        /\ q.unblock = {e \in hold[g].documents \ q.docs : ~OtherActive(g, e)}
    BY <1>0, <2>0
  <2>3. /\ req' = [req EXCEPT ![r] = p] /\ UNCHANGED <<doc, hold>>
    BY <1>7, <2>1 DEF ReleaseCount
  <2>4. U = {e \in hold[g].documents \ (q.docs \ {d}) : ~OtherActive(g, e)}
    BY <2>2
  <2>5. FlagInSync' /\ \A e : OtherActive(g, e)' <=> OtherActive(g, e)
    BY <2>3, SameFlags
  <2> HIDE DEF U
  <2>6. /\ p.step = "release" /\ p.docs = q.docs \ {d} /\ p.unblock = U
        /\ p.hold = g
    BY <2>0 DEF Request
  <2> HIDE DEF p
  <2>7. p.unblock = {e \in hold'[g].documents \ p.docs : ~OtherActive(g, e)'}
    BY <2>3, <2>4, <2>5, <2>6
  <2>8. p.docs \subseteq hold'[g].documents /\ hold'[g].state = "active"
    BY <2>2, <2>3, <2>6
  <2> QED BY <1>n, <2>3, <2>5, <2>6, <2>7, <2>8, ClerkStep
<1>8. CASE ReleaseCommit(r)
  <2>1. /\ q.step = "release" /\ q.docs = {}
        /\ q.unblock = {e \in hold[h].documents : ~OtherActive(h, e)}
    BY <1>0, <1>8 DEF ReleaseCommit
  <2>2. h \in Holds BY <1>0, <2>1, HoldFacts
  <2>3. \A d \in Docs : UnderHold(d)' <=> OtherActive(h, d)
    <3>1. \A g \in Holds : /\ hold'[g].documents = hold[g].documents
                           /\ hold'[g].state = IF g = h THEN "released" ELSE hold[g].state
      BY <1>0, <1>8 DEF ReleaseCommit, HoldRow
    <3> QED BY <2>2, <3>1 DEF UnderHold, OtherActive
  <2>4. \A d \in Docs : doc'[d].legalHoldActive =
                          IF d \in q.unblock THEN FALSE ELSE doc[d].legalHoldActive
    BY <1>0, <1>8 DEF ReleaseCommit, SetFlag, DocRow
  <2>5. \A d \in Docs : UnderHold(d) <=>
          (hold[h].state = "active" /\ d \in hold[h].documents) \/ OtherActive(h, d)
    BY <2>2, CoverSplit
  <2>6. FlagInSync' BY <1>0, <2>1, <2>3, <2>4, <2>5 DEF FlagInSync
  <2> QED BY <1>8, <1>a, <2>1, <2>6, ClerkReply DEF ReleaseCommit, Placing
<1> QED BY <1>1, <1>2, <1>3, <1>4, <1>5, <1>6, <1>7, <1>8 DEF HoldWrite

LEMMA FlagInvStep ==
  ASSUME OnlyPlacingOverlaps, FlagInv, [Next]_vars PROVE FlagInv'
<1>0. Inv' BY InvStep DEF FlagInv
<1>1. CASE DocNext
  BY <1>0, <1>1, DocStepFlag DEF DocNext, Requests
<1>2. CASE HoldNext
  BY <1>0, <1>2, HoldReadFlag, HoldWriteFlag DEF HoldNext
<1>3. CASE \E r \in Requests : Abandon(r)
  BY <1>0, <1>3, DocStepFlag
<1>4. CASE UNCHANGED vars
  BY <1>0, <1>4 DEF vars, FlagInv, OnlyClerks, ClerkInv, FlagInSync, UnderHold, OtherActive
<1> QED BY <1>1, <1>2, <1>3, <1>4 DEF Next

LEMMA FlagInvInit ==
  ASSUME Init PROVE FlagInv
<1>1. \A r \in Requests : req[r].step = "idle"
  BY IdleWellFormed DEF Init
<1>2. OnlyClerks /\ ClerkInv
  BY <1>1 DEF OnlyClerks, ClerkInv, HoldSteps, Requests
<1>3. \A d \in Docs : ~doc[d].legalHoldActive
  BY DEF Init, Uploaded
<1>4. \A d \in Docs : ~UnderHold(d)
  BY DEF Init, UnderHold
<1> QED BY <1>2, <1>3, <1>4, InvInit DEF FlagInv, FlagInSync

THEOREM FlagInvHolds == Spec /\ []OnlyPlacingOverlaps => []FlagInv
<1>1. Init => FlagInv BY FlagInvInit
<1>2. OnlyPlacingOverlaps /\ FlagInv /\ [Next]_vars => FlagInv' BY FlagInvStep
<1> QED BY <1>1, <1>2, PTL DEF Spec

\* As long as legal-hold requests overlap only to place or extend holds,
\* legalHoldActive is up on exactly the documents that an active hold
\* references, for any number of documents, holds and concurrent requests.
THEOREM FlagCorrect == Spec /\ []OnlyPlacingOverlaps => []FlagInSync
<1>1. FlagInv => FlagInSync BY DEF FlagInv
<1> QED BY <1>1, FlagInvHolds, PTL

LEMMA DocKeepsHolds ==
  ASSUME NEW r \in Requests, DocRead(r) \/ DocWrite(r)
  PROVE  hold' = hold
<1>1. CASE DocRead(r)
  BY <1>1 DEF DocRead, RestoreRead, UpdateRead, LockRead, UnlockRead, DeleteRead, DeclareRead,
              ShredRead, ScanRead, Ask, Begin
<1>2. CASE DocWrite(r)
  BY <1>2 DEF DocWrite, RestoreCommit, RestoreConflict, UpdateWrite, LockWrite, UnlockWrite,
              DeleteWrite, DeclareWrite, ShredWrite, ScanWrite, WriteRow
<1> QED BY <1>1, <1>2

\* As long as legal-hold requests overlap only to place or extend holds, no
\* document is added to a hold after its release, for any number of documents,
\* holds and concurrent requests.
THEOREM ReleasedStaysClosed == Spec /\ []OnlyPlacingOverlaps => ReleasedHoldClosed
<1>1. FlagInv /\ [Next]_vars =>
        [\A h \in Holds : hold[h].state = "released" =>
            hold'[h].documents \subseteq hold[h].documents]_vars
  <2> SUFFICES ASSUME FlagInv, Next, NEW h \in Holds, hold[h].state = "released"
               PROVE  hold'[h].documents \subseteq hold[h].documents
    OBVIOUS
  <2>1. hold \in [Holds -> HoldRow] BY DEF FlagInv, Inv, Rows
  <2>2. ASSUME hold' = hold PROVE hold'[h].documents \subseteq hold[h].documents
    BY <2>2
  <2>3. ASSUME NEW r \in HoldRequests, HoldWrite(r)
        PROVE  hold'[h].documents \subseteq hold[h].documents
    <3>1. CASE CreateCommit(r)
      BY <2>1, <3>1 DEF CreateCommit
    <3>2. CASE AttachCommit(r)
      <4>1. req[r].hold # h
        BY <3>2 DEF AttachCommit, FlagInv, ClerkInv
      <4> QED BY <2>1, <3>2, <4>1 DEF AttachCommit
    <3>3. CASE DetachCommit(r)
      <4>1. hold'[h].documents = hold[h].documents \ {req[r].doc} \/ hold'[h] = hold[h]
        BY <2>1, <3>3 DEF DetachCommit, HoldRow
      <4> QED BY <4>1
    <3>4. CASE ReleaseCommit(r)
      <4>1. hold'[h].documents = hold[h].documents
        BY <2>1, <3>4 DEF ReleaseCommit, HoldRow
      <4> QED BY <4>1
    <3>5. CASE CreateConflict(r) \/ AttachDocRead(r) \/ AttachRefused(r) \/ DetachCount(r) \/ ReleaseCount(r)
      BY <2>2, <3>5 DEF CreateConflict, AttachDocRead, AttachRefused, DetachCount, ReleaseCount
    <3> QED BY <2>3, <3>1, <3>2, <3>3, <3>4, <3>5 DEF HoldWrite
  <2>4. ASSUME NEW r \in HoldRequests, HoldRead(r)
        PROVE  hold'[h].documents \subseteq hold[h].documents
    BY <2>2, <2>4 DEF HoldRead, CreateRead, AttachRead, DetachRead, ReleaseRead, Begin
  <2>5. CASE DocNext
    BY <2>2, <2>5, DocKeepsHolds DEF DocNext, Requests
  <2>6. CASE \E r \in Requests : Abandon(r)
    BY <2>2, <2>6 DEF Abandon
  <2> QED BY <2>3, <2>4, <2>5, <2>6 DEF Next, HoldNext
<1> QED BY <1>1, FlagInvHolds, PTL DEF Spec, ReleasedHoldClosed

-----------------------------------------------------------------------------
(* One request at a time: what a handler decided on is still true when it  *)
(* writes.                                                                 *)

OneRequest == \A r, s \in Requests : r = s

\* What the handler q has seen of the documents D and the holds H.
StillTrue(q, D, H) ==
    /\ q.step \in {"restore", "delete", "shred"} => ~D[q.doc].legalHoldActive
    /\ q.step \in {"restore", "delete", "update"} => D[q.doc].lockedBy \in {None, q.user}
    /\ q.step = "create" => \A d \in q.docs : ~D[d].deleted
    /\ q.step = "attach" => ~D[q.doc].deleted
    /\ q.step \in {"detachCount", "detach"} => q.doc \in H[q.hold].documents

Serial == \A r \in Requests : StillTrue(req[r], doc, hold)

SerialInv == FlagInv /\ Serial

\* The request moves to q: it is the only one, so Serial is about q.
LEMMA SerialMove ==
  ASSUME OneRequest, Inv, NEW r \in Requests, NEW q,
         req' = [req EXCEPT ![r] = q], StillTrue(q, doc', hold')
  PROVE  Serial'
<1>1. \A s \in Requests : req'[s] = q
  BY DEF OneRequest, Inv, InFlight
<1> QED BY <1>1 DEF Serial

LEMMA SerialReply ==
  ASSUME OneRequest, Inv, NEW r \in Requests, Reply(r)
  PROVE  Serial'
<1>1. StillTrue(Idle, doc', hold')
  BY IdleWellFormed DEF StillTrue
<1> QED BY <1>1, SerialMove DEF Reply

LEMMA SerialBegin ==
  ASSUME OneRequest, Inv, NEW r \in Requests, NEW q, Begin(r, q), StillTrue(q, doc, hold)
  PROVE  Serial'
<1>1. StillTrue(q, doc', hold')
  BY DEF Begin, StillTrue
<1> QED BY <1>1, SerialMove DEF Begin

LEMMA DocReadSerial ==
  ASSUME OneRequest, Inv, NEW r \in Requests, DocRead(r)
  PROVE  Serial'
<1> PICK d \in Docs, u \in Users :
       \/ RestoreRead(r, d, u) \/ UpdateRead(r, d, u) \/ LockRead(r, d, u)
       \/ UnlockRead(r, d, u)  \/ DeleteRead(r, d, u) \/ DeclareRead(r, d, u)
       \/ ShredRead(r, d, u)   \/ ScanRead(r, d, u)
  BY DEF DocRead
<1>1. ASSUME NEW step \in DocSteps, Ask(r, step, d, u),
             step \in {"restore", "delete", "shred"} => ~doc[d].legalHoldActive,
             step \in {"restore", "delete", "update"} => MayEdit(d, u)
      PROVE  Serial'
  <2> DEFINE q == [Idle EXCEPT !.step = step, !.doc = d, !.user = u]
  <2>1. q.step = step /\ q.doc = d /\ q.user = u
    BY DEF Idle
  <2>2. Begin(r, q)
    BY <1>1 DEF Ask
  <2> HIDE DEF q
  <2>3. StillTrue(q, doc, hold)
    BY <1>1, <2>1 DEF StillTrue, MayEdit, DocSteps
  <2> QED BY <2>2, <2>3, SerialBegin
<1>2. CASE RestoreRead(r, d, u)
  <2> DEFINE q == Chosen(d, u, Latest(d) + 1)
  <2>1. q.step = "restore" /\ q.doc = d /\ q.user = u
    BY DEF Chosen, Idle
  <2>2. Begin(r, q) /\ ~doc[d].legalHoldActive /\ MayEdit(d, u)
    BY <1>2 DEF RestoreRead, Chosen
  <2> HIDE DEF q
  <2>3. StillTrue(q, doc, hold)
    BY <2>1, <2>2 DEF StillTrue, MayEdit
  <2> QED BY <2>2, <2>3, SerialBegin
<1> QED
  BY <1>1, <1>2 DEF UpdateRead, LockRead, UnlockRead, DeleteRead, DeclareRead,
                    ShredRead, ScanRead, DocSteps

LEMMA HoldReadSerial ==
  ASSUME OneRequest, Inv, NEW r \in Requests, HoldRead(r)
  PROVE  Serial'
<1> PICK h \in Holds :
       \/ \E D \in SUBSET Docs : CreateRead(r, h, D)
       \/ \E d \in Docs : AttachRead(r, h, d)
       \/ \E d \in Docs : DetachRead(r, h, d)
       \/ ReleaseRead(r, h)
  BY DEF HoldRead
<1>1. ASSUME NEW D \in SUBSET Docs, CreateRead(r, h, D) PROVE Serial'
  <2> DEFINE q == [Idle EXCEPT !.step = "create", !.hold = h, !.docs = D]
  <2>1. q.step = "create" /\ q.docs = D BY DEF Idle
  <2>2. Begin(r, q) /\ \A d \in D : ~doc[d].deleted BY <1>1 DEF CreateRead
  <2> HIDE DEF q
  <2>3. StillTrue(q, doc, hold) BY <2>1, <2>2 DEF StillTrue
  <2> QED BY <2>2, <2>3, SerialBegin
<1>2. ASSUME NEW d \in Docs, AttachRead(r, h, d) PROVE Serial'
  <2> DEFINE q == [Idle EXCEPT !.step = "attachDoc", !.hold = h, !.doc = d]
  <2>1. q.step = "attachDoc" BY DEF Idle
  <2>2. Begin(r, q) BY <1>2 DEF AttachRead
  <2> HIDE DEF q
  <2>3. StillTrue(q, doc, hold) BY <2>1 DEF StillTrue
  <2> QED BY <2>2, <2>3, SerialBegin
<1>3. ASSUME NEW d \in Docs, DetachRead(r, h, d) PROVE Serial'
  <2> DEFINE q == [Idle EXCEPT !.step = "detachCount", !.hold = h, !.doc = d]
  <2>1. q.step = "detachCount" /\ q.hold = h /\ q.doc = d BY DEF Idle
  <2>2. Begin(r, q) /\ d \in hold[h].documents BY <1>3 DEF DetachRead
  <2> HIDE DEF q
  <2>3. StillTrue(q, doc, hold) BY <2>1, <2>2 DEF StillTrue
  <2> QED BY <2>2, <2>3, SerialBegin
<1>4. CASE ReleaseRead(r, h)
  <2> DEFINE q == [Idle EXCEPT !.step = "release", !.hold = h, !.docs = hold[h].documents]
  <2>1. q.step = "release" BY DEF Idle
  <2>2. Begin(r, q) BY <1>4 DEF ReleaseRead
  <2> HIDE DEF q
  <2>3. StillTrue(q, doc, hold) BY <2>1 DEF StillTrue
  <2> QED BY <2>2, <2>3, SerialBegin
<1> QED BY <1>1, <1>2, <1>3, <1>4

LEMMA HoldWriteSerial ==
  ASSUME OneRequest, Inv, Serial, NEW r \in Requests, HoldWrite(r)
  PROVE  Serial'
<1>0. req[r] \in Request /\ StillTrue(req[r], doc, hold)
  BY DEF Inv, InFlight, Serial
<1>1. CASE AttachDocRead(r)
  <2> DEFINE q == [req[r] EXCEPT !.step = "attach"]
  <2>1. q.step = "attach" /\ q.doc = req[r].doc BY <1>0 DEF Request
  <2>2. /\ req' = [req EXCEPT ![r] = q] /\ doc' = doc /\ hold' = hold
        /\ ~doc[req[r].doc].deleted
    BY <1>1 DEF AttachDocRead
  <2> HIDE DEF q
  <2>3. StillTrue(q, doc', hold') BY <2>1, <2>2 DEF StillTrue
  <2> QED BY <2>2, <2>3, SerialMove
<1>2. CASE DetachCount(r)
  <2> DEFINE U == IF OtherActive(req[r].hold, req[r].doc) THEN {} ELSE {req[r].doc}
             q == [req[r] EXCEPT !.step = "detach", !.unblock = U]
  <2>1. q.step = "detach" /\ q.doc = req[r].doc /\ q.hold = req[r].hold
    BY <1>0 DEF Request
  <2>2. /\ req' = [req EXCEPT ![r] = q] /\ doc' = doc /\ hold' = hold
        /\ req[r].step = "detachCount"
    BY <1>2 DEF DetachCount
  <2> HIDE DEF q, U
  <2>3. StillTrue(q, doc', hold') BY <1>0, <2>1, <2>2 DEF StillTrue
  <2> QED BY <2>2, <2>3, SerialMove
<1>3. CASE ReleaseCount(r)
  <2>1. PICK d \in req[r].docs :
          req' = [req EXCEPT ![r].docs = @ \ {d},
                             ![r].unblock = IF OtherActive(req[r].hold, d)
                                            THEN @ ELSE @ \cup {d}]
    BY <1>3 DEF ReleaseCount
  <2> DEFINE U == IF OtherActive(req[r].hold, d) THEN req[r].unblock
                                                 ELSE req[r].unblock \cup {d}
             q == [req[r] EXCEPT !.docs = @ \ {d}, !.unblock = U]
  <2>2. q.step = "release" BY <1>0, <1>3 DEF ReleaseCount, Request
  <2>3. req' = [req EXCEPT ![r] = q] BY <2>1
  <2> HIDE DEF q, U
  <2>4. StillTrue(q, doc', hold') BY <2>2 DEF StillTrue
  <2> QED BY <2>3, <2>4, SerialMove
<1> QED
  BY <1>1, <1>2, <1>3, SerialReply
     DEF HoldWrite, CreateCommit, CreateConflict, AttachRefused, AttachCommit,
         DetachCommit, ReleaseCommit

LEMMA SerialInvStep ==
  ASSUME OneRequest, SerialInv, [Next]_vars PROVE SerialInv'
<1>1. OnlyPlacingOverlaps BY DEF OneRequest, OnlyPlacingOverlaps, Requests
<1>2. FlagInv' BY <1>1, FlagInvStep DEF SerialInv
<1> SUFFICES Serial' BY <1>2 DEF SerialInv
<1>3. Inv /\ Serial BY DEF SerialInv, FlagInv
<1>4. ASSUME NEW r \in Requests, DocWrite(r) PROVE Serial'
  BY <1>3, <1>4, SerialReply
     DEF DocWrite, RestoreCommit, RestoreConflict, UpdateWrite, LockWrite, UnlockWrite,
         DeleteWrite, DeclareWrite, ShredWrite, ScanWrite, WriteRow
<1>5. CASE DocNext
  BY <1>3, <1>4, <1>5, DocReadSerial DEF DocNext, Requests
<1>6. CASE HoldNext
  BY <1>3, <1>6, HoldReadSerial, HoldWriteSerial DEF HoldNext, Requests
<1>7. CASE \E r \in Requests : Abandon(r)
  BY <1>3, <1>7, SerialReply DEF Abandon
<1>8. CASE UNCHANGED vars
  BY <1>3, <1>8 DEF vars, Serial, StillTrue
<1> QED BY <1>5, <1>6, <1>7, <1>8 DEF Next

THEOREM SerialHolds ==
  ASSUME OneRequest
  PROVE  Spec => []SerialInv
<1>1. Init => SerialInv
  BY FlagInvInit, IdleWellFormed DEF Init, SerialInv, Serial, StillTrue
<1>2. SerialInv /\ [Next]_vars => SerialInv' BY SerialInvStep
<1> QED BY <1>1, <1>2, PTL DEF Spec

-----------------------------------------------------------------------------

\* What a write of a document leaves as it is.
LEMMA DocWrites ==
  ASSUME Inv, NEW r \in Requests, DocWrite(r), NEW d \in Docs, doc'[d] # doc[d]
  PROVE  /\ req[r].doc = d
         /\ req[r].step \in DocSteps
         /\ doc'[d].deleted # doc[d].deleted => req[r].step \in {"delete", "shred"}
         /\ doc'[d].deleted = doc[d].deleted \/ doc'[d].deleted
         /\ doc'[d].versions # doc[d].versions => req[r].step = "restore"
<1> DEFINE row == doc[req[r].doc]
<1>1. ASSUME NEW step, NEW new, WriteRow(r, step, new)
      PROVE  req[r].doc = d /\ req[r].step = step /\ doc'[d] = new /\ doc[d] = row
  BY <1>1 DEF WriteRow, Inv, Rows
<1>2. doc[d] \in DocRow
  BY DEF Inv, Rows
<1>3. CASE RestoreCommit(r)
  <2>1. /\ req[r].doc = d /\ req[r].step = "restore"
        /\ doc'[d] = [doc[d] EXCEPT !.versions = @ \cup {req[r].version},
                                    !.current = req[r].version, !.status = "ACTIVE"]
    BY <1>1, <1>3 DEF RestoreCommit
  <2>2. doc'[d].deleted = doc[d].deleted
    BY <1>2, <2>1 DEF DocRow
  <2> QED BY <2>1, <2>2 DEF DocSteps
<1>4. CASE RestoreConflict(r)
  BY <1>4 DEF RestoreConflict
<1>5. CASE UpdateWrite(r) \/ LockWrite(r) \/ UnlockWrite(r)
  BY <1>1, <1>2, <1>5 DEF UpdateWrite, LockWrite, UnlockWrite, DocRow, DocSteps
<1>6. CASE DeleteWrite(r) \/ ShredWrite(r)
  <2>1. /\ req[r].doc = d /\ req[r].step \in {"delete", "shred"}
        /\ doc'[d] = [doc[d] EXCEPT !.deleted = TRUE, !.status = "DELETED"]
    BY <1>1, <1>6 DEF DeleteWrite, ShredWrite
  <2>2. doc'[d].versions = doc[d].versions /\ doc'[d].deleted = TRUE
    BY <1>2, <2>1 DEF DocRow
  <2> QED BY <2>1, <2>2 DEF DocSteps
<1>7. CASE DeclareWrite(r) \/ ScanWrite(r)
  <2>1. /\ req[r].doc = d /\ req[r].step \in {"declare", "quarantine"}
        /\ \/ doc'[d] = [doc[d] EXCEPT !.isRecord = TRUE, !.status = "RECORD"]
           \/ doc'[d] = [doc[d] EXCEPT !.status = "QUARANTINED"]
    BY <1>1, <1>7 DEF DeclareWrite, ScanWrite
  <2>2. doc'[d].versions = doc[d].versions /\ doc'[d].deleted = doc[d].deleted
    BY <1>2, <2>1 DEF DocRow
  <2> QED BY <2>1, <2>2 DEF DocSteps
<1> QED BY <1>3, <1>4, <1>5, <1>6, <1>7 DEF DocWrite

\* A legal-hold request writes nothing of a document but the flag.
LEMMA HoldKeepsDocs ==
  ASSUME Inv, NEW r \in Requests, HoldRead(r) \/ HoldWrite(r), NEW d \in Docs
  PROVE  doc'[d].deleted = doc[d].deleted /\ doc'[d].versions = doc[d].versions
<1>1. ASSUME NEW D, NEW value, SetFlag(D, value)
      PROVE  doc'[d].deleted = doc[d].deleted /\ doc'[d].versions = doc[d].versions
  BY <1>1 DEF SetFlag, Inv, Rows, DocRow
<1>2. CASE HoldRead(r)
  BY <1>2 DEF HoldRead, CreateRead, AttachRead, DetachRead, ReleaseRead, Begin
<1>3. CASE HoldWrite(r)
  BY <1>1, <1>3 DEF HoldWrite, CreateCommit, CreateConflict, AttachDocRead, AttachRefused,
                    AttachCommit, DetachCount, DetachCommit, ReleaseCount, ReleaseCommit
<1> QED BY <1>2, <1>3

LEMMA DocReadKeeps ==
  ASSUME NEW r \in Requests, DocRead(r)
  PROVE  doc' = doc /\ hold' = hold
  BY DEF DocRead, RestoreRead, UpdateRead, LockRead, UnlockRead, DeleteRead, DeclareRead,
         ShredRead, ScanRead, Ask, Begin

\* While requests run one after the other: no delete, shred or restore gets
\* through while the document is flagged as held.
THEOREM HeldFrozen ==
  ASSUME OneRequest
  PROVE  Spec => HeldDocumentFrozen
<1>1. SerialInv /\ [Next]_vars =>
        [\A d \in Docs : doc[d].legalHoldActive =>
            /\ doc'[d].deleted = doc[d].deleted
            /\ doc'[d].versions = doc[d].versions]_vars
  <2> SUFFICES ASSUME SerialInv, Next, NEW d \in Docs, doc[d].legalHoldActive
               PROVE  doc'[d].deleted = doc[d].deleted /\ doc'[d].versions = doc[d].versions
    OBVIOUS
  <2>1. Inv /\ Serial BY DEF SerialInv, FlagInv
  <2>2. ASSUME NEW r \in Requests, DocWrite(r)
        PROVE  doc'[d].deleted = doc[d].deleted /\ doc'[d].versions = doc[d].versions
    <3>1. req[r].doc = d => req[r].step \notin {"restore", "delete", "shred"}
      BY <2>1 DEF Serial, StillTrue
    <3> QED BY <2>1, <2>2, <3>1, DocWrites
  <2>3. CASE DocNext
    BY <2>2, <2>3, DocReadKeeps DEF DocNext, Requests
  <2>4. CASE HoldNext
    BY <2>1, <2>4, HoldKeepsDocs DEF HoldNext, Requests
  <2>5. CASE \E r \in Requests : Abandon(r)
    BY <2>5 DEF Abandon
  <2> QED BY <2>3, <2>4, <2>5 DEF Next
<1> QED BY <1>1, SerialHolds, PTL DEF Spec, HeldDocumentFrozen

\* While requests run one after the other: nobody edits, restores or deletes a
\* document that another user has checked out.
THEOREM CheckoutKept ==
  ASSUME OneRequest
  PROVE  Spec => CheckoutRespected
<1>1. SerialInv /\ [Next]_vars =>
        [\A r \in DocRequests, d \in Docs :
            /\ req[r].step \in {"restore", "update", "delete"}
            /\ req[r].doc = d
            /\ doc'[d] # doc[d]
            => doc[d].lockedBy \in {None, req[r].user}]_vars
  BY DEF SerialInv, Serial, StillTrue, Requests
<1> QED BY <1>1, SerialHolds, PTL DEF Spec, CheckoutRespected

-----------------------------------------------------------------------------
(* The refinement: every step of the services is a step of the policy, or  *)
(* changes nothing that the policy sees.                                   *)

\* The policy's view of the rows.
PolicyState == [h \in Holds |-> hold[h].state]
PolicyScope == [h \in Holds |-> hold[h].documents]
PolicyDestroyed == {d \in Docs : doc[d].deleted}

LEMMA PolicyInitial == Init => Policy!PolicyInit
  BY DEF Init, Uploaded, Policy!PolicyInit

\* A step that writes no hold and destroys nothing.
LEMMA PolicyStutters ==
  ASSUME hold' = hold, \A d \in Docs : doc'[d].deleted = doc[d].deleted
  PROVE  UNCHANGED <<PolicyState, PolicyScope, PolicyDestroyed>>
  BY DEF PolicyState, PolicyScope, PolicyDestroyed

LEMMA DestroyStep ==
  ASSUME SerialInv, NEW r \in Requests, DocWrite(r), NEW d \in Docs,
         doc'[d].deleted # doc[d].deleted
  PROVE  Policy!Destroy(d)
<1>0. Inv /\ Serial /\ FlagInSync
  BY DEF SerialInv, FlagInv
<1>1. /\ req[r].doc = d /\ req[r].step \in {"delete", "shred"} /\ doc'[d].deleted
  BY <1>0, DocWrites
<1>2. ~UnderHold(d)
  BY <1>0, <1>1 DEF Serial, StillTrue, FlagInSync
<1>3. \A e \in Docs \ {d} : doc'[e] = doc[e]
  BY <1>0, <1>1, DocWrites
<1>4. hold' = hold
  BY DocKeepsHolds
<1> QED BY <1>1, <1>2, <1>3, <1>4 DEF Policy!Destroy, Policy!Covered, UnderHold

LEMMA HoldWritePolicy ==
  ASSUME SerialInv, NEW r \in HoldRequests, HoldWrite(r)
  PROVE  Policy!PolicyNext \/ UNCHANGED <<PolicyState, PolicyScope, PolicyDestroyed>>
<1> DEFINE q == req[r]
<1>0. /\ Inv /\ r \in Requests /\ StillTrue(q, doc, hold)
      /\ hold \in [Holds -> HoldRow]
      /\ q.step \in {"attachDoc", "attach", "release"} => hold[q.hold].state = "active"
      /\ \A e \in Docs : doc'[e].deleted = doc[e].deleted
  BY HoldKeepsDocs DEF SerialInv, FlagInv, Serial, ClerkInv, Inv, Rows, Requests
<1>1. PolicyDestroyed' = PolicyDestroyed
  BY <1>0 DEF PolicyDestroyed
<1>2. CASE CreateCommit(r)
  <2>1. q.step = "create" /\ hold[q.hold].state = "unplaced"
    BY <1>2 DEF CreateCommit
  <2>2. PICK h \in Holds, D \in SUBSET Docs : h = q.hold /\ D = q.docs
    BY <1>0, <2>1, HoldFacts DEF HoldSteps
  <2>3. /\ PolicyState' = [PolicyState EXCEPT ![h] = "active"]
        /\ PolicyScope' = [PolicyScope EXCEPT ![h] = D]
    BY <1>0, <1>2, <2>2 DEF CreateCommit, PolicyState, PolicyScope
  <2>4. D \cap PolicyDestroyed = {}
    BY <1>0, <2>1, <2>2 DEF StillTrue, PolicyDestroyed
  <2>5. Policy!Place(h, D)
    BY <1>1, <2>1, <2>2, <2>3, <2>4 DEF Policy!Place, PolicyState, PolicyScope, PolicyDestroyed
  <2> QED BY <2>2, <2>5 DEF Policy!PolicyNext
<1>3. CASE AttachCommit(r)
  <2>1. q.step = "attach" /\ hold[q.hold].state = "active"
    BY <1>0, <1>3 DEF AttachCommit
  <2>2. PICK h \in Holds, d \in Docs : h = q.hold /\ d = q.doc
    BY <1>0, <2>1, HoldFacts DEF HoldSteps
  <2>3. /\ PolicyState' = PolicyState
        /\ PolicyScope' = [PolicyScope EXCEPT ![h] = @ \cup {d}]
    BY <1>0, <1>3, <2>2 DEF AttachCommit, PolicyState, PolicyScope, HoldRow
  <2>4. d \notin PolicyDestroyed
    BY <1>0, <2>1, <2>2 DEF StillTrue, PolicyDestroyed
  <2>5. Policy!Extend(h, d)
    BY <1>1, <2>1, <2>2, <2>3, <2>4 DEF Policy!Extend, PolicyState, PolicyScope, PolicyDestroyed
  <2> QED BY <2>2, <2>5 DEF Policy!PolicyNext
<1>4. CASE DetachCommit(r)
  <2>1. q.step = "detach"
    BY <1>4 DEF DetachCommit
  <2>2. PICK h \in Holds, d \in Docs : h = q.hold /\ d = q.doc
    BY <1>0, <2>1, HoldFacts DEF HoldSteps
  <2>3. /\ PolicyState' = PolicyState
        /\ PolicyScope' = [PolicyScope EXCEPT ![h] = @ \ {d}]
    BY <1>0, <1>4, <2>2 DEF DetachCommit, PolicyState, PolicyScope, HoldRow
  <2>4. d \in PolicyScope[h]
    BY <1>0, <2>1, <2>2 DEF StillTrue, PolicyScope
  <2>5. Policy!Withdraw(h, d)
    BY <1>1, <2>2, <2>3, <2>4 DEF Policy!Withdraw, PolicyState, PolicyScope, PolicyDestroyed
  <2> QED BY <2>2, <2>5 DEF Policy!PolicyNext
<1>5. CASE ReleaseCommit(r)
  <2>1. q.step = "release" /\ hold[q.hold].state = "active"
    BY <1>0, <1>5 DEF ReleaseCommit
  <2>2. PICK h \in Holds : h = q.hold
    BY <1>0, <2>1, HoldFacts DEF HoldSteps
  <2>3. /\ PolicyState' = [PolicyState EXCEPT ![h] = "released"]
        /\ PolicyScope' = PolicyScope
    BY <1>0, <1>5, <2>2 DEF ReleaseCommit, PolicyState, PolicyScope, HoldRow
  <2>4. Policy!Lift(h)
    BY <1>1, <2>1, <2>2, <2>3 DEF Policy!Lift, PolicyState, PolicyScope, PolicyDestroyed
  <2> QED BY <2>2, <2>4 DEF Policy!PolicyNext
<1>6. CASE CreateConflict(r) \/ AttachDocRead(r) \/ AttachRefused(r) \/ DetachCount(r) \/ ReleaseCount(r)
  BY <1>0, <1>6, PolicyStutters
     DEF CreateConflict, AttachDocRead, AttachRefused, DetachCount, ReleaseCount
<1> QED BY <1>2, <1>3, <1>4, <1>5, <1>6 DEF HoldWrite

LEMMA PolicyStep ==
  ASSUME SerialInv, [Next]_vars
  PROVE  Policy!PolicyNext \/ UNCHANGED <<PolicyState, PolicyScope, PolicyDestroyed>>
<1>1. ASSUME NEW r \in Requests, DocWrite(r)
      PROVE  Policy!PolicyNext \/ UNCHANGED <<PolicyState, PolicyScope, PolicyDestroyed>>
  <2>1. CASE \A d \in Docs : doc'[d].deleted = doc[d].deleted
    BY <1>1, <2>1, DocKeepsHolds, PolicyStutters
  <2>2. CASE \E d \in Docs : doc'[d].deleted # doc[d].deleted
    BY <1>1, <2>2, DestroyStep DEF Policy!PolicyNext
  <2> QED BY <2>1, <2>2
<1>2. CASE DocNext
  BY <1>1, <1>2, DocReadKeeps, PolicyStutters DEF DocNext, Requests
<1>3. ASSUME NEW r \in HoldRequests, HoldRead(r)
      PROVE  UNCHANGED <<PolicyState, PolicyScope, PolicyDestroyed>>
  <2>1. doc' = doc /\ hold' = hold
    BY <1>3 DEF HoldRead, CreateRead, AttachRead, DetachRead, ReleaseRead, Begin
  <2> QED BY <2>1, PolicyStutters
<1>4. CASE HoldNext
  BY <1>3, <1>4, HoldWritePolicy DEF HoldNext
<1>5. CASE \E r \in Requests : Abandon(r)
  BY <1>5, PolicyStutters DEF Abandon
<1>6. CASE UNCHANGED vars
  BY <1>6, PolicyStutters DEF vars
<1> QED BY <1>2, <1>4, <1>5, <1>6 DEF Next

\* While requests run one after the other, the services implement the policy
\* of legal holds: what an active hold covers is not destroyed, and no hold
\* comes to cover what was destroyed before.
THEOREM PolicyImplemented ==
  ASSUME OneRequest
  PROVE  Spec => ImplementsPolicy
<1>1. SerialInv /\ [Next]_vars =>
        [Policy!PolicyNext]_<<PolicyState, PolicyScope, PolicyDestroyed>>
  BY PolicyStep
<1> QED
  BY <1>1, PolicyInitial, SerialHolds, PTL
     DEF Spec, ImplementsPolicy, Policy!PolicySpec, PolicyState, PolicyScope, PolicyDestroyed

=============================================================================
