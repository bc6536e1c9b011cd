------------------------------- MODULE License -------------------------------
(***************************************************************************)
(* One license on the license server: LicenseService (issue, renew,        *)
(* revoke, expireDueLicenses), ActivationService (activateOnline and the   *)
(* offline requests), RevocationService (the CRL and its mark) and the     *)
(* answer of HeartbeatService.                                             *)
(*                                                                         *)
(* No handler uses a transaction: each is modelled as its reads and its    *)
(* writes, one action per statement that the others can come between.      *)
(* The license has an end date and a device limit that renewals leave as   *)
(* it is; fingerprints match.                                              *)
(***************************************************************************)
EXTENDS Naturals, Sequences, FiniteSets

CONSTANTS
    Deployments,
    Offline,     \* those that ask by an offline request, one each
    Requests,    \* the slots of the requests at work at a time
    MaxDevices,  \* the limit of the license
    FirstEnd,    \* endDate as issued, in renewal periods
    LastDay,     \* bound: how far time runs
    MaxRequests, \* bound: requests received
    MaxFailures, \* bound: requests that die half way
    None

ASSUME LicenseAssumption ==
    /\ Offline \subseteq Deployments
    /\ None \notin Deployments
    /\ IsFiniteSet(Requests)
    /\ MaxDevices \in Nat \ {0}
    /\ FirstEnd \in Nat /\ LastDay \in Nat
    /\ MaxRequests \in Nat /\ MaxFailures \in Nat

VARIABLES
    license,     \* the row: status, endDate, renewalCounter
    today,
    activations, \* deployments with an activation, all of them active
    online,      \* those of them that activateOnline created
    offline,     \* offline[d]: the status of the offline request of d
    certificates,\* deployments with an offline certificate
    revocations, \* the rows, in the order of their creation
    published,   \* the rows that were in a signed CRL
    told,        \* the answer to the last heartbeat, and if there was a row then
    req,         \* req[r]: the request at work in slot r
    received,
    failures,
    overlap      \* a request began while another one was under way

vars == <<license, today, activations, online, offline, certificates,
          revocations, published, told, req, received, failures, overlap>>

activationVars == <<activations, online, offline, certificates>>
revocationVars == <<revocations, published>>
countVars      == <<today, received, failures, overlap>>

NoLicense == [status |-> "none", end |-> 0, renewals |-> 0]
Idle      == [step |-> "idle", read |-> NoLicense, d |-> None, found |-> FALSE,
              version |-> 0]
NotTold   == [answer |-> "none", row |-> FALSE]

Live == {"pending_activation", "active"}

Max0(S) == IF S = {} THEN 0 ELSE CHOOSE n \in S : \A m \in S : m <= n

MaxVersion == Max0({revocations[k].version : k \in DOMAIN revocations})

Init ==
    /\ license = NoLicense
    /\ today = 0
    /\ activations = {}
    /\ online = {}
    /\ offline = [d \in Offline |-> "none"]
    /\ certificates = {}
    /\ revocations = <<>>
    /\ published = {}
    /\ told = NotTold
    /\ req = [r \in Requests |-> Idle]
    /\ received = 0
    /\ failures = 0
    /\ overlap = FALSE

Begin(r) ==
    /\ req[r] = Idle
    /\ received < MaxRequests
    /\ received' = received + 1
    /\ overlap' = (overlap \/ \E q \in Requests : req[q] # Idle)
    /\ UNCHANGED <<today, failures>>

Done(r) == req' = [req EXCEPT ![r] = Idle]

-----------------------------------------------------------------------------
(* LicenseService.                                                         *)

Issue ==
    /\ license = NoLicense
    /\ license' = [status |-> "pending_activation", end |-> FirstEnd, renewals |-> 0]
    /\ UNCHANGED <<activationVars, revocationVars, countVars, told, req>>

RenewRead(r) ==
    /\ Begin(r)
    /\ license.status \notin {"none", "revoked", "cancelled"}
    /\ req' = [req EXCEPT ![r] = [Idle EXCEPT !.step = "renew", !.read = license]]
    /\ UNCHANGED <<license, activationVars, revocationVars, told>>

\* Faulty: every renewal of an expired license counts from today.
RenewWriteToday(r) ==
    LET read == req[r].read IN
    /\ req[r].step = "renew"
    /\ license' = [status   |-> IF read.status = "expired" THEN "active" ELSE read.status,
                   end      |-> today + 1,
                   renewals |-> license.renewals + 1]
    /\ Done(r)
    /\ UNCHANGED <<activationVars, revocationVars, countVars, told>>

\* The end date and the status come from the row that was read; the counter is
\* incremented by the database.
RenewWrite(r) ==
    LET read == req[r].read IN
    /\ req[r].step = "renew"
    /\ license' = [status   |-> IF read.status = "expired" THEN "active" ELSE read.status,
                   end      |-> read.end + 1,
                   renewals |-> license.renewals + 1]
    /\ Done(r)
    /\ UNCHANGED <<activationVars, revocationVars, countVars, told>>

RevokeRead(r) ==
    /\ Begin(r)
    /\ license.status \notin {"none", "revoked"}
    /\ req' = [req EXCEPT ![r] = [Idle EXCEPT !.step = "revoke"]]
    /\ UNCHANGED <<license, activationVars, revocationVars, told>>

RevokeMark(r) ==
    /\ req[r].step = "revoke"
    /\ license' = [license EXCEPT !.status = "revoked"]
    /\ req' = [req EXCEPT ![r].step = "version"]
    /\ UNCHANGED <<activationVars, revocationVars, countVars, told>>

RevokeVersion(r) ==
    /\ req[r].step = "version"
    /\ req' = [req EXCEPT ![r].step = "row", ![r].version = MaxVersion + 1]
    /\ UNCHANGED <<license, activationVars, revocationVars, countVars, told>>

RevokeRow(r) ==
    /\ req[r].step = "row"
    /\ revocations' = Append(revocations, [version |-> req[r].version, propagated |-> FALSE])
    /\ Done(r)
    /\ UNCHANGED <<license, activationVars, published, countVars, told>>

\* Faulty: every license whose end date is past expires.
ExpireAllLicenses ==
    /\ license.status \notin {"none", "expired"}
    /\ license.end < today
    /\ license' = [license EXCEPT !.status = "expired"]
    /\ UNCHANGED <<activationVars, revocationVars, countVars, told, req>>

\* The hourly cron: one statement.
ExpireDueLicenses ==
    /\ license.status \in Live
    /\ license.end < today
    /\ license' = [license EXCEPT !.status = "expired"]
    /\ UNCHANGED <<activationVars, revocationVars, countVars, told, req>>

NextDay ==
    /\ today < LastDay
    /\ today' = today + 1
    /\ UNCHANGED <<license, activationVars, revocationVars, told, req,
                   received, failures, overlap>>

-----------------------------------------------------------------------------
(* ActivationService.activateOnline.                                       *)

ActivateRead(r, d) ==
    /\ Begin(r)
    /\ license.status \notin {"none", "revoked", "cancelled", "expired"}
    /\ req' = [req EXCEPT ![r] = [Idle EXCEPT !.step = "count", !.read = license, !.d = d]]
    /\ UNCHANGED <<license, activationVars, revocationVars, told>>

\* Faulty: the limit itself still lets one more in.
ActivateCountOff(r) ==
    /\ req[r].step = "count"
    /\ Cardinality(activations) <= MaxDevices
    /\ req' = [req EXCEPT ![r].step = "activate", ![r].found = req[r].d \in activations]
    /\ UNCHANGED <<license, activationVars, revocationVars, countVars, told>>

\* A deployment that is already activated counts against the limit too.
ActivateCount(r) ==
    /\ req[r].step = "count"
    /\ req' = IF Cardinality(activations) >= MaxDevices
              THEN [req EXCEPT ![r] = Idle]
              ELSE [req EXCEPT ![r].step = "activate",
                               ![r].found = req[r].d \in activations]
    /\ UNCHANGED <<license, activationVars, revocationVars, countVars, told>>

\* A row that appeared since makes the create fail: (licenseId, deploymentId)
\* is unique.
ActivateRow(r) ==
    LET d       == req[r].d
        refused == d \in activations /\ ~ req[r].found
    IN
    /\ req[r].step = "activate"
    /\ activations' = activations \cup {d}
    /\ online' = IF d \in activations THEN online ELSE online \cup {d}
    /\ req' = IF refused \/ req[r].read.status # "pending_activation"
              THEN [req EXCEPT ![r] = Idle]
              ELSE [req EXCEPT ![r].step = "status"]
    /\ UNCHANGED <<license, offline, certificates, revocationVars, countVars, told>>

\* Only the status that was read tells that the license was pending.
ActivateStatus(r) ==
    /\ req[r].step = "status"
    /\ license' = [license EXCEPT !.status = "active"]
    /\ Done(r)
    /\ UNCHANGED <<activationVars, revocationVars, countVars, told>>

-----------------------------------------------------------------------------
(* ActivationService, by offline request.                                  *)

\* The hash of the nonce is unique: a replay is refused.
IntakeOfflineRequest(d) ==
    /\ offline[d] = "none"
    /\ offline' = [offline EXCEPT ![d] = "pending"]
    /\ UNCHANGED <<license, activations, online, certificates, revocationVars,
                   countVars, told, req>>

\* Neither the status of the license nor its device limit is looked at.
IssueRead(r, d) ==
    /\ Begin(r)
    /\ license # NoLicense
    /\ offline[d] = "pending"
    /\ req' = [req EXCEPT ![r] = [Idle EXCEPT !.step = "upsert", !.d = d]]
    /\ UNCHANGED <<license, activationVars, revocationVars, told>>

IssueActivation(r) ==
    /\ req[r].step = "upsert"
    /\ activations' = activations \cup {req[r].d}
    /\ req' = [req EXCEPT ![r].step = "certificate"]
    /\ UNCHANGED <<license, online, offline, certificates, revocationVars, countVars, told>>

\* The certificate is unique per request: a second one is refused.
IssueCertificate(r) ==
    /\ req[r].step = "certificate"
    /\ certificates' = certificates \cup {req[r].d}
    /\ req' = IF req[r].d \in certificates THEN [req EXCEPT ![r] = Idle]
              ELSE [req EXCEPT ![r].step = "fulfil"]
    /\ UNCHANGED <<license, activations, online, offline, revocationVars, countVars, told>>

IssueFulfil(r) ==
    /\ req[r].step = "fulfil"
    /\ offline' = [offline EXCEPT ![req[r].d] = "fulfilled"]
    /\ Done(r)
    /\ UNCHANGED <<license, activations, online, certificates, revocationVars, countVars, told>>

\* Faulty: any request may be rejected.
RejectReadAny(r, d) ==
    /\ Begin(r)
    /\ offline[d] # "none"
    /\ req' = [req EXCEPT ![r] = [Idle EXCEPT !.step = "reject", !.d = d]]
    /\ UNCHANGED <<license, activationVars, revocationVars, told>>

RejectRead(r, d) ==
    /\ Begin(r)
    /\ offline[d] = "pending"
    /\ req' = [req EXCEPT ![r] = [Idle EXCEPT !.step = "reject", !.d = d]]
    /\ UNCHANGED <<license, activationVars, revocationVars, told>>

RejectWrite(r) ==
    /\ req[r].step = "reject"
    /\ offline' = [offline EXCEPT ![req[r].d] = "rejected"]
    /\ Done(r)
    /\ UNCHANGED <<license, activations, online, certificates, revocationVars, countVars, told>>

-----------------------------------------------------------------------------
(* RevocationService and HeartbeatService.                                 *)

\* The list is built and signed from one read; it carries every licenseId
\* with a row.
BuildAndSign(r) ==
    /\ Begin(r)
    /\ published' = published \cup DOMAIN revocations
    /\ req' = [req EXCEPT ![r] = [Idle EXCEPT !.step = "mark", !.version = MaxVersion]]
    /\ UNCHANGED <<license, activationVars, revocations, told>>

\* Faulty: whatever was revoked meanwhile is marked with the rest.
MarkPropagatedAll(r) ==
    /\ req[r].step = "mark"
    /\ revocations' = [k \in DOMAIN revocations |->
                          [revocations[k] EXCEPT !.propagated = TRUE]]
    /\ Done(r)
    /\ UNCHANGED <<license, activationVars, published, countVars, told>>

MarkPropagated(r) ==
    /\ req[r].step = "mark"
    /\ revocations' = [k \in DOMAIN revocations |->
                          [revocations[k] EXCEPT !.propagated =
                               @ \/ revocations[k].version <= req[r].version]]
    /\ Done(r)
    /\ UNCHANGED <<license, activationVars, published, countVars, told>>

\* Faulty: the status alone decides.
AnswerByStatus ==
    IF license.status = "revoked" THEN "revoked"
    ELSE IF license.end < today THEN "offline_grace"
    ELSE "healthy"

Answer ==
    IF license.status = "revoked" \/ revocations # <<>> THEN "revoked"
    ELSE IF license.end < today THEN "offline_grace"
    ELSE "healthy"

ReceiveHeartbeat ==
    /\ activations # {}
    /\ told' = [answer |-> Answer, row |-> revocations # <<>>]
    /\ UNCHANGED <<license, activationVars, revocationVars, countVars, req>>

\* An error or a stop of the process between two statements, or no signing key
\* loaded when revoke asks for one: nothing is rolled back.
Fail(r) ==
    /\ req[r] # Idle
    /\ failures < MaxFailures
    /\ failures' = failures + 1
    /\ Done(r)
    /\ UNCHANGED <<license, activationVars, revocationVars, told, today, received, overlap>>

-----------------------------------------------------------------------------
Next ==
    \/ Issue
    \/ ExpireDueLicenses
    \/ NextDay
    \/ ReceiveHeartbeat
    \/ \E d \in Offline : IntakeOfflineRequest(d)
    \/ \E r \in Requests :
          \/ RenewRead(r) \/ RenewWrite(r)
          \/ RevokeRead(r) \/ RevokeMark(r) \/ RevokeVersion(r) \/ RevokeRow(r)
          \/ \E d \in Deployments : ActivateRead(r, d)
          \/ ActivateCount(r) \/ ActivateRow(r) \/ ActivateStatus(r)
          \/ \E d \in Offline : IssueRead(r, d) \/ RejectRead(r, d)
          \/ IssueActivation(r) \/ IssueCertificate(r) \/ IssueFulfil(r)
          \/ RejectWrite(r)
          \/ BuildAndSign(r) \/ MarkPropagated(r)
          \/ Fail(r)

Spec == Init /\ [][Next]_vars

-----------------------------------------------------------------------------
(* Properties.                                                             *)

Statuses == {"none", "pending_activation", "active", "expired", "revoked"}
Row      == [status : Statuses, end : Nat, renewals : Nat]

\* Every variable has its type.
TypeOK ==
    /\ license \in Row
    /\ today \in 0 .. LastDay
    /\ activations \subseteq Deployments
    /\ online \subseteq activations
    /\ offline \in [Offline -> {"none", "pending", "fulfilled", "rejected"}]
    /\ certificates \subseteq Offline
    /\ revocations \in Seq([version : Nat \ {0}, propagated : BOOLEAN])
    /\ published \subseteq DOMAIN revocations
    /\ told \in [answer : {"none", "healthy", "offline_grace", "revoked"}, row : BOOLEAN]
    /\ req \in [Requests ->
          [step : {"idle", "renew", "revoke", "version", "row", "count", "activate", "status",
                   "upsert", "certificate", "fulfil", "reject", "mark"},
           read : Row, d : Deployments \cup {None}, found : BOOLEAN,
           version : Nat]]
    /\ received \in 0 .. MaxRequests
    /\ failures \in 0 .. MaxFailures
    /\ overlap \in BOOLEAN

Quiet == \A r \in Requests : req[r] = Idle

\* Outside of a request, a license is revoked just when it has a Revocation row
\* for the CRL to list, as long as requests came one after the other and none
\* died.  A renewal or an activation that overlaps revoke puts the old status
\* back; a revoke that dies before it creates the row cannot be repeated.
RevokedIffListed ==
    Quiet /\ ~ overlap /\ failures = 0 =>
        (license.status = "revoked" <=> revocations # <<>>)

\* However requests overlap, a revocation marked as propagated was in a signed
\* CRL, or has the crlVersion of one that was: markPropagated marks by the
\* number, and overlapping revocations can get the same one.
PropagatedWasPublished ==
    \A k \in DOMAIN revocations :
        revocations[k].propagated =>
            \E j \in published : revocations[j].version = revocations[k].version

\* A deployment told that the license is revoked, once there is a row for it,
\* is told so for good, even when an overlapping renewal has made the license
\* active again: receiveHeartbeat looks at the rows as well as the status.
RevokedForGood ==
    [][told.answer = "revoked" /\ told.row => told'.answer = "revoked"]_vars

\* Activations by code exceed the limit of the license by no more than the
\* requests that overlap: each counts before it creates its row.
OverrunBounded ==
    Cardinality(online) <= MaxDevices + Cardinality(Requests) - 1

\* The end date moves on by one period for each renewal counted; of renewals
\* that overlap, the counter gets every one and the end date perhaps only one.
RenewedAsCounted ==
    license # NoLicense =>
        /\ license.end <= FirstEnd + license.renewals
        /\ ~ overlap => license.end = FirstEnd + license.renewals

\* A fulfilled offline request has its certificate and its activation, whatever
\* overlaps or dies; and while nothing does, a certificate means fulfilled, for
\* good.  A request that died after its certificate can never be fulfilled.
FulfilledHasCertificate ==
    /\ \A d \in Offline : offline[d] = "fulfilled" => d \in certificates /\ d \in activations
    /\ Quiet /\ ~ overlap /\ failures = 0 =>
          \A d \in certificates : offline[d] = "fulfilled"

=============================================================================
