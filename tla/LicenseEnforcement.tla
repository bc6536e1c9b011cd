-------------------------- MODULE LicenseEnforcement --------------------------
(***************************************************************************)
(* What a deployment does about its license: computeLicenseState of        *)
(* license-core, the hourly LicenseHeartbeatCron of every API process, and *)
(* the LicenseGuard of one process with its EnterpriseLicenseValidator and *)
(* the state it caches.                                                    *)
(*                                                                         *)
(* The row of license_local_state is there and its license stays the same: *)
(* importSedmslic, which should replace it, converts a UUID with BigInt    *)
(* and throws.  The artifact verifies and is for this machine.             *)
(* Time goes forward in ticks longer than the 30 seconds of the cache, and *)
(* is told only as far as computeLicenseState can: by ages that stop at    *)
(* their last threshold.                                                   *)
(***************************************************************************)
EXTENDS Integers

CONSTANTS
    Crons,      \* API processes, each with its heartbeat cron
    Requests,   \* requests the guard may be validating at a time
    Grace,      \* gracePeriodDays, in ticks
    Extended,   \* extendedRemediationThresholdDays
    Window,     \* expiringSoonWindowDays
    Threshold,  \* heartbeatFailureThreshold
    Perpetual,  \* the license has no end
    MaxLost     \* bound: heartbeats that fail on this side

ASSUME EnforcementAssumption ==
    /\ Grace \in Nat /\ Extended \in Nat /\ Window \in Nat
    /\ Threshold \in Nat \ {0}
    /\ Perpetual \in BOOLEAN
    /\ MaxLost \in Nat

VARIABLES
    local,      \* the row: ticks since lastHeartbeatAt, and heartbeatFailures
    past,       \* ticks past the end of the license; negative before it
    listed,     \* the CRL file names the license
    beat,       \* beat[c]: the heartbeat that c has sent
    reachable,  \* the license server answers
    request,    \* request[g]: a validation, with the row it has read
    cache,      \* the cached state, and if a tick has passed since
    lost,
    blockedFor  \* ticks since regular users were blocked, while no heartbeat is answered

vars == <<local, past, listed, beat, reachable, request, cache, lost, blockedFor>>

guardVars == <<request, cache>>

Oldest == Grace + 1              \* and whatever is older, or never was
Latest == Grace + Extended + 1

States  == {"valid", "expiring_soon", "expired_grace", "grace_exhausted",
            "extended_remediation", "invalid"}
Regular == {"valid", "expiring_soon", "expired_grace"}

AtMost(n, bound) == IF n > bound THEN bound ELSE n

-----------------------------------------------------------------------------
(* computeLicenseState.                                                    *)

\* Faulty: too few failures do not count any more once the grace is over.
HeartbeatStateGap(row) ==
    IF row.failures > 0 /\ row.age > Grace
    THEN IF row.failures >= Threshold THEN "grace_exhausted" ELSE "none"
    ELSE IF row.failures > 0 /\ 2 * row.age > Grace THEN "extended_remediation"
    ELSE "none"

\* By heartbeats: "none" when they do not degrade the license.
HeartbeatState(row) ==
    IF row.failures >= Threshold /\ row.age > Grace THEN "grace_exhausted"
    ELSE IF row.failures > 0 /\ 2 * row.age > Grace THEN "extended_remediation"
    ELSE "none"

ExpiryState ==
    IF Perpetual THEN "valid"
    ELSE IF past > Grace + Extended THEN "grace_exhausted"
    ELSE IF past > Grace THEN "extended_remediation"
    ELSE IF past > 0 THEN "expired_grace"
    ELSE IF past > - Window THEN "expiring_soon"
    ELSE "valid"

ComputeLicenseState(row) ==
    IF HeartbeatState(row) # "none" THEN HeartbeatState(row) ELSE ExpiryState

\* The revocation list is looked at last.
Validated(row) == IF listed THEN "invalid" ELSE ComputeLicenseState(row)

\* LicenseGuard: what passes in which state.
Admits(state, writes, admin) ==
    \/ state \in Regular
    \/ state = "grace_exhausted" /\ ~ writes
    \/ state = "extended_remediation" /\ admin

-----------------------------------------------------------------------------
NoBeat     == [sent |-> FALSE, failures |-> 0]
NoRequest  == [reading |-> FALSE, row |-> [age |-> 0, failures |-> 0], ticked |-> FALSE]
NoCache    == [state |-> "none", ticked |-> FALSE]

Init ==
    /\ local = [age |-> Oldest, failures |-> 0]
    /\ past \in -(Window + 1) .. Latest
    /\ listed = FALSE
    /\ beat = [c \in Crons |-> NoBeat]
    /\ reachable \in BOOLEAN
    /\ request = [g \in Requests |-> NoRequest]
    /\ cache = NoCache
    /\ lost = 0
    /\ blockedFor = 0

-----------------------------------------------------------------------------
(* LicenseHeartbeatCron.sendHeartbeat.                                     *)

\* Faulty: after too many failures the cron gives up.
SendReadGivesUp(c) ==
    /\ ~ beat[c].sent
    /\ local.failures < Threshold
    /\ beat' = [beat EXCEPT ![c] = [sent |-> TRUE, failures |-> local.failures]]
    /\ UNCHANGED <<local, past, listed, reachable, lost, blockedFor, guardVars>>

SendRead(c) ==
    /\ ~ beat[c].sent
    /\ beat' = [beat EXCEPT ![c] = [sent |-> TRUE, failures |-> local.failures]]
    /\ UNCHANGED <<local, past, listed, reachable, lost, blockedFor, guardVars>>

Answered(c) ==
    /\ beat[c].sent /\ reachable
    /\ local' = [age |-> 0, failures |-> 0]
    /\ beat' = [beat EXCEPT ![c] = NoBeat]
    /\ blockedFor' = 0
    /\ UNCHANGED <<past, listed, reachable, lost, guardVars>>

\* The counter is the one that was read, plus one.
CountFailure(c) ==
    /\ beat[c].sent
    /\ local' = [local EXCEPT !.failures = AtMost(beat[c].failures + 1, Threshold)]
    /\ beat' = [beat EXCEPT ![c] = NoBeat]
    /\ UNCHANGED <<past, listed, reachable, blockedFor, guardVars>>

Unanswered(c) ==
    /\ ~ reachable
    /\ CountFailure(c)
    /\ UNCHANGED lost

\* An answer that cannot be saved counts as a failure.
Unsaved(c) ==
    /\ lost < MaxLost
    /\ lost' = lost + 1
    /\ CountFailure(c)

\* The count of users, the update or the process fails.
Lost(c) ==
    /\ beat[c].sent
    /\ lost < MaxLost
    /\ lost' = lost + 1
    /\ beat' = [beat EXCEPT ![c] = NoBeat]
    /\ UNCHANGED <<local, past, listed, reachable, blockedFor, guardVars>>

-----------------------------------------------------------------------------
(* LicenseGuard.canActivate over EnterpriseLicenseValidator.validate.      *)

\* A request that finds a cached state is let through or refused by it, and
\* changes nothing.
ValidateRead(g) ==
    /\ cache = NoCache
    /\ request[g] = NoRequest
    /\ request' = [request EXCEPT ![g] = [reading |-> TRUE, row |-> local, ticked |-> FALSE]]
    /\ UNCHANGED <<local, past, listed, beat, reachable, cache, lost, blockedFor>>

\* The clock and the revocation list are read after the row; the state is
\* cached over whatever another request has cached meanwhile.
Validate(g) ==
    /\ request[g].reading
    /\ cache' = [state |-> Validated(request[g].row), ticked |-> FALSE]
    /\ request' = [request EXCEPT ![g] = NoRequest]
    /\ UNCHANGED <<local, past, listed, beat, reachable, lost, blockedFor>>

\* A statement of the validation fails.
ValidateFails(g) ==
    /\ request[g].reading
    /\ request' = [request EXCEPT ![g] = NoRequest]
    /\ UNCHANGED <<local, past, listed, beat, reachable, cache, lost, blockedFor>>

\* Thirty seconds have passed, or the process started again.
CacheExpires ==
    /\ cache # NoCache
    /\ cache' = NoCache
    /\ UNCHANGED <<local, past, listed, beat, reachable, request, lost, blockedFor>>

-----------------------------------------------------------------------------
(* The environment.                                                        *)

Older(row) == [row EXCEPT !.age = AtMost(@ + 1, Oldest)]

Blocked == Validated(local) \notin Regular

\* A validation takes less than a tick, and a cached state is used for less.
Tick ==
    /\ ~ cache.ticked
    /\ \A g \in Requests : ~ request[g].ticked
    /\ local' = Older(local)
    /\ past' = AtMost(past + 1, Latest)
    /\ request' = [g \in Requests |->
                      IF request[g].reading
                      THEN [request[g] EXCEPT !.row = Older(@), !.ticked = TRUE]
                      ELSE NoRequest]
    /\ cache' = IF cache = NoCache THEN NoCache ELSE [cache EXCEPT !.ticked = TRUE]
    /\ blockedFor' = IF Blocked \/ blockedFor > 0 THEN AtMost(blockedFor + 1, 3) ELSE 0
    /\ UNCHANGED <<listed, beat, reachable, lost>>

Switch ==
    /\ reachable' = ~ reachable
    /\ UNCHANGED <<local, past, listed, beat, lost, blockedFor, guardVars>>

\* An administrator installs a revocation list; a license stays on it.
List ==
    /\ ~ listed
    /\ listed' = TRUE
    /\ UNCHANGED <<local, past, beat, reachable, lost, blockedFor, guardVars>>

-----------------------------------------------------------------------------
Heartbeat(c) == SendRead(c) \/ Answered(c) \/ Unanswered(c)

Next ==
    \/ \E c \in Crons : Heartbeat(c) \/ Unsaved(c) \/ Lost(c)
    \/ \E g \in Requests : ValidateRead(g) \/ Validate(g) \/ ValidateFails(g)
    \/ CacheExpires
    \/ Tick
    \/ Switch
    \/ List

\* The cron fires every hour, and its request has a timeout of 15 seconds.
Spec == Init /\ [][Next]_vars /\ \A c \in Crons : WF_vars(Heartbeat(c))

-----------------------------------------------------------------------------
(* Properties.                                                             *)

Row == [age : 0 .. Oldest, failures : 0 .. Threshold]

\* Every variable has its type.
TypeOK ==
    /\ local \in Row
    /\ past \in -(Window + 1) .. Latest
    /\ listed \in BOOLEAN
    /\ beat \in [Crons -> [sent : BOOLEAN, failures : 0 .. Threshold]]
    /\ reachable \in BOOLEAN
    /\ request \in [Requests -> [reading : BOOLEAN, row : Row, ticked : BOOLEAN]]
    /\ cache \in [state : States \cup {"none"}, ticked : BOOLEAN]
    /\ lost \in 0 .. MaxLost
    /\ blockedFor \in 0 .. 3

\* Once the license blocks regular users, and as long as no heartbeat is
\* answered, none of their writes is let through more than two ticks later (the
\* one a validation may be late by, and the one of the cache): neither time nor
\* further failures, nor two processes that write the counter over each other,
\* nor an old validation that is cached last, open the deployment again.
BlockedInSilence == Admits(cache.state, TRUE, FALSE) => blockedFor <= 2

\* When the license server answers from some time on, heartbeats do not block
\* the deployment for good: it stays open but for its end or its revocation.
\* A failure that another process read long ago cannot keep it blocked.
ReopensWhenAnswered ==
    <>[]reachable => <>[](ExpiryState \in Regular /\ ~ listed => ~ Blocked)

=============================================================================
