# A verification project for Smart EDMS

Smart EDMS is a multi-tenant document management system: a NestJS API over
PostgreSQL (Prisma), Redis and object storage, a worker process built from the
same modules, a license server, and browser and Electron clients.  This
directory holds TLA+ modules that model its core logic, the TLC configurations
that check them, and TLAPS proofs of the facts that matter most.

## Reading the code as a state machine

Everything modelled here runs in Node.js processes that talk to PostgreSQL and
Redis.  Three facts about the code decide the shape of every module:

* A handler is a chain of `await`s.  Between two of them any other handler, in
  the same process or another one, may run.  So one handler is several actions,
  one per database call that reads or changes shared state, and what it read
  earlier is kept in a per-request record (`req[r]`).
* `prisma.$transaction` is used without an isolation level, so PostgreSQL runs
  it at READ COMMITTED: its writes appear together, its reads see whatever is
  committed when they run.  A transaction is therefore: its counting reads as
  actions of their own, and one commit action for its writes.
* The UPDATE statements are `update({ where: { id } })`: they do not repeat the
  conditions the handler decided on.  So a write action has no guard but the
  program counter, except where a unique constraint gives it one.

## Inventory

Paths are under `src/`; `backend` is `apps/backend/src/modules`, `ls` is
`apps/license-server/src/modules`.

### Records: documents and legal holds

| component | state | operations | what makes it hard |
|---|---|---|---|
| Documents (`backend/document`) | `documents` row: status, deletedAt, checkout (isLocked, lockedByUserId), isRecord, legalHoldActive, currentVersionId; `document_versions` rows | upload (three calls), restoreVersion, PATCH, checkout and checkin, soft delete, declareAsRecord, tags, folders, comments, batch upload | every operation is check-then-act over `await`s; version numbers are computed outside the transaction |
| Crypto-shredding, malware scan, classification | the same row | shred (delete), quarantine, assign label | they write `status` and `deletedAt` with no regard for each other |
| Legal holds (`backend/legal-hold`) | `legal_holds`, the join table, and the denormalised `legalHoldActive` | create, attach, detach, release | the flag is recomputed from counts at READ COMMITTED |
| Retention (`backend/retention`) | `disposition_records`: PENDING, APPROVED, CANCELLED, BLOCKED_LEGAL_HOLD, EXECUTED | nightly evaluation, approve, cancel | runs in the API and in the worker process at once; execution is announced on a channel nobody reads |
| Upload (`uploadInit`, `uploadChunk`, `uploadComplete`) | upload state in Redis (TTL 24 h), parts in object storage, PROCESSING document | the three calls | read-modify-write of the Redis value, two completers, cleanup of an already finished document |
| Audit (`backend/audit`) | `audit_events` with sequenceNumber and previousHash; lastSeq and lastHash in process memory | record, verifyHashChain | the chain head is per process and is read before an awaited INSERT |

Correctness: a held document is not destroyed; the flag equals "an active hold
references the document"; a checkout is exclusive; versions are numbered
without gaps; a disposition is decided once; each expired document gets one
disposition; an upload ends in exactly one version; the audit chain does not
fork.

### Licensing

| component | state | operations | what makes it hard |
|---|---|---|---|
| License server (`ls/license`, `activation`, `revocation`, `heartbeat`, `cron`) | licenses, activations, offline requests and certificates, revocations with crlVersion | issue, renew, revoke, activate online or offline, heartbeat, revocation list, expiry cron | no handler uses a transaction: the device limit is check-then-create, status writes are stale, revoke is three unrelated writes |
| License state (`packages/license-core/state-machine.ts`) | pure function of artifact, clock, last heartbeat, CRL | computeLicenseState | order of the rules |
| Enforcement (`backend/license`, `common/guards/license.guard.ts`) | `license_local_state`: lastHeartbeatAt, heartbeatFailures; the state each process caches | guard, validation, heartbeat cron of every process | 30 s cache, failure counter read before the request and written after it |
| Signing keys, trials, products, customers, usage (`ls/...`) | rows of their own | CRUD, rotation, one trial per fingerprint | rotation is retire-then-create |
| Webhooks (`ls/webhook`) | deliveries with their log of attempts, BullMQ jobs | emit, deliver, retry, replay | retry of what was delivered, a log that is read and written back whole |

Correctness: a deployment told of a revocation is told so for good; what is
marked as propagated was published; the device limit is passed by no more than
the overlap; every renewal that is counted extends the license; a deployment
that blocks regular users does not open again by itself, and opens when the
license server answers; every queued delivery ends, with a final status when it
went well.

### Workflow, folders, sharing, access

| component | state | operations | what makes it hard |
|---|---|---|---|
| Workflow (`backend/workflow`) | definitions; instances, steps, approvals; Redis keys of the cron | create, update, publish; instantiate, submitApproval, delegate, cancel; the overdue cron | a decision reads, commits, reads again and routes row by row; the cron escalates beside it |
| Folders (`DocumentService`) | folders with parent and materialised path; folderId of documents | create, rename, delete, move, and the folderId of uploads and updates | paths are rewritten by their text |
| Auth (`backend/auth`, `step-up-auth`, `invitation`, `user`) | sessions, refresh tokens, lockout counter, reset tokens | login, refresh, logout, reset, accept invitation | revocation against refresh, counters |
| Sharing (`backend/share`) | share_links with viewCount and OTP | create, open, revoke | maxViews is check-then-increment |
| Quota (`backend/quota`) | usage sums | check before upload | check-then-act |

Correctness: an instance completes only at its last order and with every
parallel step passed; it never loses its last step to decide; an ended instance
stays ended; a mark of review stays on the steps that were reviewed, and an AI
draft is published only with it; paths follow the tree, and documents are in
folders that exist.

### Not state machines of this project's interest

AI assistant and its tools, search and its indexer, OCR, scanner bridge,
knowledge graph, PII detection, provenance manifests, secure viewer, presence,
tours, notifications, e-mail, i18n, UI packages, Electron shell, license-admin
and marketing sites, infrastructure files: I/O, text processing, ranking,
rendering or CRUD of a single row.  PROJECT.json lists each with the reason.

## Modules

| module | models | how state and actions correspond |
|---|---|---|
| `DocumentStore` | the rows | `doc[d]` is a documents row with the numbers of its version rows; `hold[h]` a legal_holds row with the join table; `req[r]` a request in flight: the step it is at and what it has read |
| `DocumentService` | restoreVersion, updateDocument, lock, unlock, delete, declareAsRecord; shredDocument and scanDocument, which write the same row | `XRead` is the handler up to its last check, `XWrite` (or `XCommit`) its UPDATE or transaction; `RestoreConflict` is the unique constraint |
| `LegalHoldService` | createHold, attachDocument, detachDocument, releaseHold | one action per read, per count inside a transaction, and per commit |
| `Records` | the two services on the same rows, requests that die between two calls | EXTENDS both; states the properties |
| `HoldPolicy` | what legal hold promises: holds are placed and released, scopes change, and only a document that no active hold covers is destroyed | the abstract specification of `Records` |
| `Disposition` | RetentionCron, RetentionService's evaluation, approve, cancel; the documents and the schedule as an environment that ages, edits, holds and deletes at will | `job[e]` is the run of process e with its `running` flag; `ask[m]` a request of a records manager; `disp[d]` the records of d |
| `HashChain` | a hash-chained table and its verification, as both audit services do it | a row's id stands for its hash, `sound` for "its columns hash to it" |
| `AuditChain` | AuditService of the backend, the processes that share one table, and declareAsRecord's row of its own | `tip[p]` is the in-memory tip; `Record`, `Insert`, `Remember` are record() before, at and after its awaited INSERT |
| `LicenseAudit` | AuditService of the license server with its rehydration in the background | `boot` is how far rehydrateChain is; the rest as in `AuditChain` |
| `AppendOnlyLog` | a log that grows at its end by entries that point at the entry before | the abstract specification of `LicenseAudit` |
| `Upload` | uploadInit (the initial state), uploadChunk, uploadComplete, the session in Redis, the parts and the object in storage | `chunk[r]` and `comp[r]` are requests; every storage, Redis and database call is an action |
| `WorkflowDefinition` | createDefinition, updateDefinition, publishDefinition of one definition | `def` is the row, its steps told apart by their edition; `edit[e]` a request between its read and its write |
| `Workflow` | instantiate, submitApproval, delegateStep, cancelInstance of one instance, routeNext of workflow-engine.ts, the overdue cron | `steps` and `approvals` are the rows; `req[u]` is at `decide` (the transaction), `refetch`, `create` (one row of the next branch each) or `close`; `scan` is what a run of the cron still has to treat; `odd` records overlaps, failures and escalations |
| `License` | LicenseService, ActivationService, RevocationService, the answer of HeartbeatService and the expiry cron, for one license | one action per statement; `req[r]` a request between two of them; `told` is what a deployment heard last |
| `WebhookDelivery` | emit, replayDelivery, the worker's deliver, and BullMQ between them | `row` is the delivery; `job[j]` the attempts of a job and the statement of `deliver` it is at |
| `LicenseEnforcement` | computeLicenseState, LicenseHeartbeatCron of every process, LicenseGuard over EnterpriseLicenseValidator and its cache | `local` is the row, as ages; `beat[c]` a heartbeat under way with the counter it read; `request[g]` a validation with the row it read; `blockedFor` only serves the property |
| `Folders` | the folder endpoints of DocumentService and the folderId of uploads and updates | `folder[f]` is a row, its path a sequence of segments; `place[d]` the folderId of d |
| `MCRecords`, `MCLicenseAudit`, `MCUpload`, `MCWorkflow`, `MCFolders` | symmetry, and the inputs that a .cfg cannot write | |

Definitions whose comment begins with "Faulty:" are what a plausible mistake
in the code would make of the definition next to them.  No specification uses
them; PROJECT.json pairs each with the property that detects it.

### Abstractions

* Users are model values, admins a subset of them; ABAC rules and permissions
  that never look at the state of these rows are left out.
* A request that is refused changes nothing: it is the same as one that never
  came, and has no action.
* SHA-256 is injective.  Bytes are what the client has, or not.
* The audit row, the search-index job and the event that follow a write are not
  part of `Records`: they change no row it models.  A request may die before
  any of its writes (`Abandon`), so nothing relies on them.
* Time is "more than retentionDays ago" per timestamp (`Disposition`), "no
  request for 24 hours" (`Upload`), renewal periods (`License`), and in
  `LicenseEnforcement` ages that stop at the last threshold computeLicenseState
  compares them with.
* instantiate writes the instance and the rows of its first branch in one
  transaction: it is one step, and the rows may come in any order.
* One definition, instance, license, delivery or tenant stands for all where the
  code never relates two of them.
* Signatures, certificates and fingerprints match, and a signing key is loaded.
* BullMQ is modelled by what the code relies on: bounded attempts, a stalled job
  queued again once.

## Runs

Every run explores its whole bounded state space.

| run | question | bounds, and why they are enough |
|---|---|---|
| `records_serial` | Are the handlers right when they run one after another?  Checkout and hold rules, and the refinement of `HoldPolicy` | one document, two overlapping holds, a user and an admin, three versions: every rule is about one document, and two holds are what "another active hold" needs |
| `records_shared` | What survives any interleaving?  The flag against the holds, the version numbers, released holds | two legal-hold requests, which may overlap to create a hold or attach to one (`OnlyPlacingOverlaps`; a detach or a release beside another one breaks the properties, see below), two document requests, two holds, three versions |
| `disposition` | Two processes evaluate, fail, and are read from while they write; are the open dispositions bounded, the decisions final, and is what stays due ever opened? | two evaluators, one manager, one document (nothing relates two), two failures (one per process), cancelling until there are two records |
| `audit` | Does every row link to a stored row, and does verification say broken exactly when it should? | two processes, two calls in flight, two faults of each kind, four calls: a fork, a restart and a lost answer within one chain; `Limit` (10 for 10000) lies above, so verification takes every row |
| `license_audit` | The same with rehydration, and does the table implement `AppendOnlyLog`? | two calls in flight, two faults of each kind, three calls, five shapes of metadata that the callers really pass |
| `upload` | Chunks and completions that overlap, repeat, die and arrive damaged: what is stored, what becomes a version, how does it end? | two parts, two chunks and two completions at a time, six requests in all: enough to upload, complete twice and repeat a part |
| `workflow_definition` | Does the mark of a review stay on the reviewed steps, and is an AI draft published only with it? | two requests at a time, three editions: an edit before, between and after a review |
| `workflow` | May an instance complete too early, get stuck, or come back after its end? | one step and then two in parallel, one of them an escalation step: an escalation with and without somewhere to go, siblings decided at once; two users, one an administrator, three decisions, one failure, the cron at any time |
| `license` | What do overlapping renewals, revocations, activations, offline requests and list refreshes leave? | two requests at a time, five in all, one of which dies at any statement; a limit of one and three deployments, so that the limit can be passed; an end date that passes |
| `webhook` | Does every job end, and with which status and log? | one job and a replay, two attempts each, any answers, a deletion, one failing statement or stopping worker |
| `license_enforcement` | Does silence ever open a blocked deployment, and does it open when the server answers? | two crons and two validations; grace, remediation, warning window of one tick, a threshold of two failures, and every age from long before the end to past the last threshold, so that every rule of computeLicenseState applies |
| `folders` | Do paths follow the tree, and are documents in folders that exist? | three folders (a chain of them, and two namesakes), one document, two requests at a time, five in all, names with and without a slash |

The largest are `upload` (3.0 million distinct states), `workflow` (2.8),
`license` (1.8), `audit` (1.3) and `license_enforcement` (1.2).

Several properties hold under a condition on what happened so far, and the state
records it: `faults` (the audit chains), `Without("damaged")` and
`Without("unchecked")` (the upload), `overlap`, `failures` and `odd` elsewhere.
The same run also explores everything outside the condition, where the
unconditional properties must hold.  In the audit chains it is an overlap when a
call begins while another call is in flight, or when another process has
written.

The deadlock check is off where the bound on calls or requests, or the end of
the modelled row, ends every behaviour: `audit`, `license_audit`, `upload`,
`workflow_definition`, `workflow`, `license`, `webhook` and `folders`.

### Fairness

* `disposition`, for `DueIsOpened`: weak fairness of `Evaluate(e)`, the steps of
  an evaluating process.  node-cron fires every night, and Node runs the
  continuation of every database call that is answered.  A call that is not
  answered, or a process that dies, is `Fail`, which is not fair and happens at
  most `MaxFailures` times.
* `webhook`, for `EveryJobEnds`: weak fairness of `Deliver(j)`.  The worker runs
  all the time, and its fetch has a timeout, so that an attempt ends.  A worker
  that stops is `WorkerStops`, not fair and bounded.
* `license_enforcement`, for `ReopensWhenAnswered`: weak fairness of
  `Heartbeat(c)`.  The cron fires every hour, and its fetch has a timeout of 15
  seconds.  That the server is reachable from some time on is a hypothesis of
  the property, and heartbeats that fail on this side are bounded by `MaxLost`.

Nothing is assumed of users, administrators, clients or the environment.

### What the code does not keep

Each of these was seen while modelling: the conditions of the properties above
are there because of them.  Lines are of the file named first.

Documents, holds, disposition, uploads:

* A detach or a release beside an attach or a create can leave a document on an
  active hold with `legalHoldActive = false`: its count
  (legal-hold.service.ts:410, :502) does not see an attach or create that has
  not committed.  Lines 10-11 promise the opposite.
* Two releases that count each other's hold leave the flag up for good.
* A delete or a shredding that checked before a hold was placed goes through
  afterwards (document.service.ts:1049), against docs/DATA_MODEL.md:335.
* Two lock requests, or an unlock after the checkout changed hands, end with the
  second user's write.
* updateDocument and restoreVersion do not look at isRecord, though
  docs/DATA_MODEL.md:654 says a record cannot be edited.
* The crons of the API and of the worker both find nothing and both open a
  disposition (retention.service.ts:572); lines 12-14 say it is idempotent.
* Two records managers: a cancel overwrites an approval that came in between,
  and an approval can rest on a hold flag read before the hold was placed.
* A disposition that was blocked by a hold stays BLOCKED_LEGAL_HOLD after the
  hold is gone, and keeps a new one from being opened; an approved one is
  announced on a channel without a subscriber, and nothing writes EXECUTED.
* A late completion overwrites, or deletes, the object of the version that an
  earlier one created (document.service.ts:355), against
  docs/THREAT_MODEL.md:71.
* Of two chunks sent in parallel one may be missing from receivedParts; a
  repeated chunk that fails its checksum deletes the good part and leaves it
  listed, after which uploadComplete never returns; a session that expires
  leaves its document PROCESSING for ever.

Audit chains:

* After a restart a tenant's chain begins at 1 again: the rehydration that
  common/audit.service.ts:19 announces does not exist in the backend.
* Overlapping calls take the same sequence number; declareAsRecord's own audit
  row (number 0) makes verification fail; verification stops silently at its
  limit; a document that a failed upload removes takes its id out of its audit
  rows (ON DELETE SET NULL), which then no longer match their hashes.
* The license server hashes the metadata in the order it was written and
  verifies it in the order that JSONB returns (audit.service.ts:154, against
  :130-131), so callers that pass `{result, reason}` break an intact chain.
  record() waits at most 250 ms for the rehydration and then numbers from an
  empty tip.

Licensing:

* A renewal or an activation that overlaps revoke writes the old status back
  (license.service.ts:185).  Overlapping renewals are all counted and extend the
  license once.
* A revoke that dies between its status and its row (:247) cannot be repeated,
  and the license never gets onto a list.  revoke does not sign a list itself.
* Two revocations may take the same crlVersion (:260); markPropagated marks by
  that number, so one is marked though it was not published.
* issueOfflineLicense looks neither at the status of the license nor at its
  limit; an offline request whose work died after the certificate can never be
  fulfilled; a deleted device does not free its activation.
* importSedmslic throws on every artifact (`BigInt` of a UUID,
  backend/license/license.service.ts:183, :196); the model takes the row as
  given.
* computeLicenseState applies rules 7 and 8 of its header in the other order, so
  the state goes back from grace_exhausted when a heartbeat starts to fail: an
  exhausted license with some failures is in extended_remediation.  Its comment
  at :153 says regular users continue to work there; the guard blocks them.
  With no heartbeat so far the first failure blocks at once.
* The answer of a heartbeat is not looked at: `revoked` is always false, though
  docs/LICENSING_OPERATIONS_RUNBOOK.md:258 says the license becomes invalid.
  LicenseService.getCurrentState does not look at the revocation list.
* LicenseGuard refuses the import of a new license in `invalid`, and in
  `grace_exhausted` even to administrators.

Webhooks:

* A delivery whose attempts are exhausted stays `pending`: the handlers of the
  'failed' event only log (webhook-worker.ts:59), though lines 22-23 say it is
  dead-lettered.  An add that fails leaves a row without a job.
* An error after `delivered` was written posts again; a replay may turn a
  delivered row into a dead-lettered one; a retried answer is logged twice.

Workflow:

* A step of a parallel branch can be decided before submitApproval has created
  its siblings, and the instance completes without them; a request that dies
  there, and the cron's escalation, which does not route
  (workflow-reminder-cron.ts:68), leave it without a step to decide.
* Two administrators who decide the same step overwrite each other; a decision
  under way when the instance is cancelled ends it as something else
  (workflow.service.ts:964); steps under way stay in_progress when it ends.
* `delegate` completes the step (:861); docs/API_SPECIFICATION.md:1179-1180
  gives it to the delegate.
* updateDefinition drops the steps that come with humanReviewed in one request
  (:371); publishDefinition writes after a check that an edit made stale (:450).
* listPendingApprovals asks for a status that no step ever has.

Folders:

* A rename takes along what is below a folder of the same path, and cuts names
  with a slash in two; deleteFolder leaves the folders below a deleted parent;
  uploads and updates accept a deleted folder.

## Proofs

TLAPS checks every theorem for all values of the constants: any number of
documents, holds, users, requests, processes, calls, parts, deployments and
folders, any workflow definition, and any thresholds.  Every safety property
that a run checks, invariant or action property, is stated by one of them.

| module | about | theorems, with the properties they state |
|---|---|---|
| `RecordsProofs` | `Records` | `TypeCorrect`; `VersionsNumbered` (`VersionsInOrder`); for legal-hold requests that overlap only to create or attach, `FlagCorrect` (`FlagInSync`) and `ReleasedStaysClosed` (`ReleasedHoldClosed`); for one request at a time `HeldFrozen` (`HeldDocumentFrozen`), `CheckoutKept` (`CheckoutRespected`) and `PolicyImplemented` (`ImplementsPolicy`, the refinement of `HoldPolicy`) |
| `DispositionFoldersProofs` | `Disposition` | `TypeCorrect`; for one records manager at a time `DecisionsFinal` (`DecisionIsFinal`) and `OpenStaysBounded` (`OpenBounded`) |
| | `Folders` | `DocumentsInPlace` (`PlacedInLiveFolders`); `PathsAsTree` (`PathsFollowTree`) |
| `AuditChainProofs` | `AuditChain` | `TypeCorrect`; `LinksHold` (`AllLinked`); `TipsHold` (`TipStored`); `VerifiesWhatItTakes`; `BrokenFound` (`BrokenIffUnsound`) |
| `LicenseServerProofs` | `LicenseAudit` | `TypeCorrect`, `LinksHold`, `TipHolds`, `VerifiesWhatItTakes`, `BrokenFound` (`BrokenIffUnsound`), `TableIsLog` (`GrowsAtEnd`, the refinement of `AppendOnlyLog`) |
| | `WebhookDelivery` | `DeliveryTyped` (`DeliveryTypeOK`); `CompletedHasStatus` (`CompletedIsFinal`); `AttemptsLogged` (`EveryPostLogged`); `FinalStatusKept` (`FinalStatusStays`) |
| `UploadProofs` | `Upload` | `TypeCorrect`; `ActiveHasVersion` (`ActiveIffVersion`); `DeclaredStored` (`VersionAsDeclared`); `ObjectIntact` (`StoredIntact`); `ListedStored` (`ListedIsStored`); `EndsOnce` (`OutcomeFinal`) |
| `WorkflowProofs` | `WorkflowDefinition` | `DefinitionTyped`; `MarksCorrect` (`MarkIsForItsSteps`); `PublicationCorrect` (`PublishedAsReviewed`) |
| | `Workflow` | `TypeCorrect` (`TypeOK`); `CompletionCorrect` (`CompletedAtTheEnd`); `EndsForGood` (`EndIsFinal`); `NobodyStuck` (`StuckOnlyIf`); `BranchesPassed` (`EveryBranchPassed`) |
| `LicenseProofs` | `License` | `TypeCorrect`; `PropagationCorrect` (`PropagatedWasPublished`); `RevocationLasts` (`RevokedForGood`); `OverrunCorrect` (`OverrunBounded`); `RevokedIsListed` (`RevokedIffListed`); `RenewalsCounted` (`RenewedAsCounted`); `FulfilledCertified` (`FulfilledHasCertificate`) |
| `LicenseEnforcementProofs` | `LicenseEnforcement` | `TypeCorrect`; `SilenceNeverOpens`; `GuardNotLate` (`BlockedInSilence`) |

### The inductive invariants

Hardly any property is inductive as it stands; what it needs besides is what a
request in flight has read and still relies on.

* `Records`.  A restore carries a number that was one past the current version
  and commits only if it is still free.  `ClerkInv`: what a detach or a
  release has counted stays true until it commits, because no document request
  writes the flag or a hold; a create or an attach relies on no more than that
  its hold is active, which others of that kind leave so (`OthersKeep`).  With one request at a time `StillTrue` says the
  same of every check of every handler, so each commit does what the rules, and
  the policy, allow in that state.
* `Disposition`.  What the manager is about to decide is still PENDING, since
  evaluations only append.  For the bound, `Room` counts the open dispositions
  of a document together with the evaluations about to open one; an evaluation
  joins them only when nothing is open.
* `Folders`.  `FolderShape`: what a request has found is still a folder when it
  writes, since rows never go.  Documents: `InPlace`, a move that has looked at
  its target finds it there still.  Paths: `Tree`.  "Each path is the parent's
  and the name" survives a renaming only if the rewriting of texts hits what is
  below the folder and nothing else; for that, paths must be different
  (`PathsApart`) and whatever lies above a path must be a folder too
  (`PathsClosed`: otherwise the new name could be a prefix of foreign paths).  A
  renaming is then shown to be one map of paths (`Moved`, `RenamedPaths`), which
  keeps prefixes, lengths and differences, and the new tree is the image of the
  old.  The last case of it is the folder whose new name begins like its old one:
  with names of one segment the UPDATE of the rows below leaves it alone.
* `AuditChain`, `LicenseAudit`.  A tip is empty or that of a stored row; so are
  the predecessor that a call took and the tip that a rehydration has read; rows
  are never removed.  That holds through everything.  `Calm` is about an
  undisturbed chain: rows are numbered 1 to n without a gap or a fork
  (`Numbered`), the tip is the highest of them or being fetched again, and at
  most one call is at work, with the next number.  On it rest the verification
  (a break is found at a row that does not match its hash and nowhere else) and
  the refinement: the rows sorted by number are a sequence that an INSERT
  extends by one (`Place`, `LogOf`).
* `WebhookDelivery`.  `JobsInOrder`: a job that may run has attempts left.
  `StatusWritten`: a job past its last statement has written a status, and
  nothing writes "pending" again.  `Smooth`: while the first job is alone, the
  array of attempts is behind the POSTs by at most the one in hand, and the
  final status is written by that job.  `Counted`, for the bounds: every POST is
  accounted for by an attempt or a failure, and every entry still to come by the
  statements the job has before it, counted as sets of pairs (`Upto`).
* `Upload`.  An assembly has every part it is past, and a completion that reached
  its transaction with a checksum has compared it.  `Intact`, while nothing
  arrives damaged: all completions assemble the same bytes, so a late one stores
  what is stored, none is rolled back, and parts go only after a commit.
* `WorkflowDefinition`.  A late request writes back what it read, so the mark it
  read must be on reviewed steps too; without an overlap one request is at work
  and the row is still the one it read.
* `Workflow`.  `PassedInv`: a step with a success status has the approval for it,
  and a request that is about to complete the instance has seen the last order
  passed.  `Serial`, until something overlaps: one request at work, none beside
  the cron, and the instance still running.  `StuckInv` is the property with the
  rows the cron has flagged: the last of two siblings decided at once reads both,
  so a request that ends leaves an active step or another request.  `BranchInv`,
  while nothing overlaps, fails or is escalated: the instance is at one order,
  everything before is passed and nothing after is begun (`Reached`), and it is
  waiting for decisions, routing one, creating the rest of a branch, or closing.
* `License`.  Versions have no gap below any of them (`Reaches`), so all versions
  up to the one a publication read are published; revocations are only added; the
  activations by code together with the requests that have found a free slot
  (`Counted`) stay within the bound.  `RowInv`: the end date a renewal has read is
  covered by the renewals counted.  `RevokedInv` and `CertifiedInv`, while
  requests come one after the other and none dies: a revoke between its status
  and its row, and an issue between its certificate and its status, are the only
  ones for which the two are apart.
* `LicenseEnforcement`.  The eleven rules come down to three (`OpenIff`): listed,
  unheard, ended.  No step but an answer makes the row younger or takes its
  failures away, so none opens it; `Lateness` bounds how long ago the row of a
  validation, and the state it cached, were still open.

### Assumptions

Those of the modules' ASSUMEs, which TLC evaluates on every run, and hypotheses
of single theorems:

* `[]OnlyPlacingOverlaps`: legal-hold requests, any number of them, overlap only
  where all of them create or attach.  It is the constraint of `records_shared`.
* `OneRequest`, `OneManager`: one request, one records manager at a time, as in
  `records_serial` and `disposition`.  Where these hypotheses are dropped the code
  breaks the properties (see "What the code does not keep").
* `MaxEvents <= Limit` in `BrokenFound`: the log is no longer than what
  verifyHashChain reads.  `VerifiesWhatItTakes` says what it answers for any
  limit: whether the rows it took match their hashes.

### Only model-checked

The liveness properties `DueIsOpened`, `EveryJobEnds` and `ReopensWhenAnswered`:
liveness under fairness is out of the prover's reach.

## Plan

What comes next, in this order, each with what it should be checked for:

1. `Sessions`: login, refresh, revocation, lockout, password reset (a revoked
   session is not refreshed; the lockout counter under overlapping logins).
2. `ShareLink` and `Quota`: two check-then-act counters.
3. `SigningKeys` and `Trial`: one active key through a rotation, one trial per
   fingerprint.

Proofs next: the invariants of these modules.

## Not modelled, and why

PROJECT.json gives the reason per component.  Besides those of the last
inventory section:

* Authentication and sessions, share links, quota, trials and signing keys: in
  the plan.  What reading them showed: refresh looks neither at the session nor
  at a revocation, logout leaves the session ACTIVE, changing the password
  revokes nothing, and completePasswordReset passes the arguments of
  revokeAllSessions in the wrong order (auth.service.ts:325-362, :614).
* Tags, comments and favourites of documents (single-row writes; adding and
  removing tags loses updates that overlap), and the batch upload, a document
  without a session.
* The device rows, suspensions and counters beside activations and heartbeats,
  and the daily clean-ups of the license server's cron.
* The clock checks and the checks against tampering of the license validator:
  the model lets time go forward, and they pass.
* The import of a license, which always throws; the reminders of the workflow
  cron; the queues without a producer; the clients.
