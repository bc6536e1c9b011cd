----------------------- MODULE LicenseEnforcementProofs -----------------------
(***************************************************************************)
(* For any number of processes and requests, any grace, window and         *)
(* thresholds: the types, that silence never opens a blocked deployment,   *)
(* and how late the guard may be (BlockedInSilence).                       *)
(***************************************************************************)
EXTENDS LicenseEnforcement, TLAPS

-----------------------------------------------------------------------------
(* The states computeLicenseState gives.                                   *)

\* What blocks regular users by heartbeats: a failure, and half the grace.
Unheard(row) == row.failures > 0 /\ 2 * row.age > Grace

Ended == ~ Perpetual /\ past > Grace

LEMMA StateTyped ==
  ASSUME NEW row \in Row
  PROVE  Validated(row) \in States
  BY EnforcementAssumption
     DEF Validated, ComputeLicenseState, HeartbeatState, ExpiryState, States

\* The eleven rules of the code come down to three.
LEMMA OpenIff ==
  ASSUME NEW row \in Row, past \in Int
  PROVE  Validated(row) \in Regular <=> ~ listed /\ ~ Unheard(row) /\ ~ Ended
<1> USE EnforcementAssumption
<1>1. HeartbeatState(row) = "none" <=> ~ Unheard(row)
  BY DEF HeartbeatState, Unheard, Row, Oldest
<1>2. HeartbeatState(row) \in {"none", "grace_exhausted", "extended_remediation"}
  BY DEF HeartbeatState
<1>3. ExpiryState \in Regular <=> ~ Ended
  BY DEF ExpiryState, Regular, Ended
<1> QED BY <1>1, <1>2, <1>3 DEF Validated, ComputeLicenseState, Regular

\* An older row, with a failure if it had one, does not open what was blocked.
LEMMA OlderStaysBlocked ==
  ASSUME NEW row \in Row, NEW old \in Row,
         old.age >= row.age, row.failures > 0 => old.failures > 0,
         Unheard(row)
  PROVE  Unheard(old)
  BY EnforcementAssumption DEF Unheard, Row, Oldest

LEMMA OlderRow ==
  ASSUME NEW row \in Row
  PROVE  /\ Older(row) \in Row
         /\ Older(row).age >= row.age
         /\ Older(row).failures = row.failures
  BY EnforcementAssumption DEF Older, AtMost, Row, Oldest

-----------------------------------------------------------------------------
(* Types.                                                                  *)

LEMMA InitTypeOK == Init => TypeOK
<1> SUFFICES ASSUME Init PROVE TypeOK
  OBVIOUS
<1> USE EnforcementAssumption
<1>1. local \in Row
  BY DEF Init, Row, Oldest
<1>2. request \in [Requests -> [reading : BOOLEAN, row : Row, ticked : BOOLEAN]]
  BY DEF Init, NoRequest, Row, Oldest
<1>3. beat \in [Crons -> [sent : BOOLEAN, failures : 0 .. Threshold]]
  BY DEF Init, NoBeat
<1>4. cache \in [state : States \cup {"none"}, ticked : BOOLEAN]
  BY DEF Init, NoCache
<1>5. lost \in 0 .. MaxLost /\ blockedFor \in 0 .. 3
  BY DEF Init
<1>6. past \in -(Window + 1) .. Latest /\ listed \in BOOLEAN /\ reachable \in BOOLEAN
  BY DEF Init
<1> QED BY <1>1, <1>2, <1>3, <1>4, <1>5, <1>6, Zenon DEF TypeOK

LEMMA NextTypeOK ==
  ASSUME TypeOK, [Next]_vars
  PROVE  TypeOK'
<1> USE EnforcementAssumption
<1>1. ASSUME NEW c \in Crons, SendRead(c) PROVE TypeOK'
  BY <1>1 DEF SendRead, TypeOK, Row, guardVars
<1>2. ASSUME NEW c \in Crons, Answered(c) PROVE TypeOK'
  BY <1>2 DEF Answered, TypeOK, Row, NoBeat, guardVars, Oldest
<1>3. ASSUME NEW c \in Crons, CountFailure(c), lost' \in 0 .. MaxLost PROVE TypeOK'
  BY <1>3 DEF CountFailure, TypeOK, Row, NoBeat, guardVars, AtMost
<1>4. ASSUME NEW c \in Crons, Unanswered(c) PROVE TypeOK'
  BY <1>3, <1>4 DEF Unanswered, TypeOK
<1>5. ASSUME NEW c \in Crons, Unsaved(c) PROVE TypeOK'
  <2>1. lost' \in 0 .. MaxLost
    BY <1>5 DEF Unsaved, TypeOK
  <2> QED BY <1>3, <1>5, <2>1 DEF Unsaved
<1>6. ASSUME NEW c \in Crons, Lost(c) PROVE TypeOK'
  BY <1>6 DEF Lost, TypeOK, Row, NoBeat, guardVars
<1>7. ASSUME NEW g \in Requests, ValidateRead(g) PROVE TypeOK'
  BY <1>7 DEF ValidateRead, TypeOK
<1>8. ASSUME NEW g \in Requests, Validate(g) PROVE TypeOK'
  <2>1. request[g].row \in Row
    BY DEF TypeOK
  <2>2. Validated(request[g].row) \in States
    BY <2>1, StateTyped
  <2>3. NoRequest \in [reading : BOOLEAN, row : Row, ticked : BOOLEAN]
    BY DEF NoRequest, Row, Oldest
  <2> QED BY <1>8, <2>2, <2>3 DEF Validate, TypeOK
<1>9. ASSUME NEW g \in Requests, ValidateFails(g) PROVE TypeOK'
  <2>1. NoRequest \in [reading : BOOLEAN, row : Row, ticked : BOOLEAN]
    BY DEF NoRequest, Row, Oldest
  <2> QED BY <1>9, <2>1 DEF ValidateFails, TypeOK
<1>10. ASSUME CacheExpires PROVE TypeOK'
  BY <1>10 DEF CacheExpires, TypeOK, NoCache
<1>11. ASSUME Tick PROVE TypeOK'
  <2>1. local' \in Row
    BY <1>11, OlderRow DEF Tick, TypeOK
  <2>2. request' \in [Requests -> [reading : BOOLEAN, row : Row, ticked : BOOLEAN]]
    <3>1. NoRequest \in [reading : BOOLEAN, row : Row, ticked : BOOLEAN]
      BY DEF NoRequest, Row, Oldest
    <3>2. ASSUME NEW g \in Requests
          PROVE  [request[g] EXCEPT !.row = Older(@), !.ticked = TRUE]
                   \in [reading : BOOLEAN, row : Row, ticked : BOOLEAN]
      <4>1. Older(request[g].row) \in Row
        BY OlderRow DEF TypeOK
      <4> QED BY <4>1 DEF TypeOK
    <3> QED BY <1>11, <3>1, <3>2 DEF Tick
  <2>3. past' \in -(Window + 1) .. Latest
    <3>1. past' = AtMost(past + 1, Latest)
      BY <1>11 DEF Tick
    <3>2. past \in -(Window + 1) .. Latest
      BY DEF TypeOK
    <3> QED BY <3>1, <3>2 DEF AtMost, Latest
  <2>4. blockedFor' \in 0 .. 3
    <3>1. blockedFor' = AtMost(blockedFor + 1, 3) \/ blockedFor' = 0
      BY <1>11 DEF Tick
    <3>2. blockedFor \in 0 .. 3
      BY DEF TypeOK
    <3> QED BY <3>1, <3>2 DEF AtMost
  <2>5. cache' \in [state : States \cup {"none"}, ticked : BOOLEAN]
    BY <1>11 DEF Tick, TypeOK, NoCache
  <2> QED BY <1>11, <2>1, <2>2, <2>3, <2>4, <2>5 DEF Tick, TypeOK
<1>12. ASSUME Switch PROVE TypeOK'
  BY <1>12 DEF Switch, TypeOK, guardVars
<1>13. ASSUME List PROVE TypeOK'
  BY <1>13 DEF List, TypeOK, guardVars
<1>14. CASE UNCHANGED vars
  BY <1>14 DEF vars, TypeOK
<1> QED BY <1>1, <1>2, <1>4, <1>5, <1>6, <1>7, <1>8, <1>9, <1>10, <1>11, <1>12, <1>13, <1>14
        DEF Next, Heartbeat

\* Every variable has its type, for any number of processes and requests.
THEOREM TypeCorrect == Spec => []TypeOK
<1>1. Init => TypeOK
  BY InitTypeOK
<1>2. TypeOK /\ [Next]_vars => TypeOK'
  BY NextTypeOK
<1> QED BY <1>1, <1>2, PTL DEF Spec

-----------------------------------------------------------------------------
(* Silence.                                                                *)

LEMMA BlockedIff ==
  ASSUME TypeOK
  PROVE  Blocked <=> listed \/ Unheard(local) \/ Ended
<1>1. local \in Row /\ past \in Int
  BY EnforcementAssumption DEF TypeOK
<1> QED BY <1>1, OpenIff DEF Blocked

\* What any step but an answer leaves of the row, the end and the list.
LEMMA SilentStep ==
  ASSUME TypeOK, [Next]_vars, \A c \in Crons : ~ Answered(c)
  PROVE  /\ local'.age >= local.age
         /\ local.failures > 0 => local'.failures > 0
         /\ past' >= past
         /\ listed => listed'
<1> USE EnforcementAssumption
<1>1. local \in Row /\ past \in Int /\ past <= Latest
  BY DEF TypeOK, Latest
<1>2. CASE UNCHANGED <<local, past>> /\ (listed => listed')
  BY <1>1, <1>2 DEF Row, Oldest
<1>3. ASSUME NEW c \in Crons, CountFailure(c) PROVE local'.failures > 0 /\ local'.age = local.age
  BY <1>1, <1>3 DEF CountFailure, TypeOK, AtMost, Row
<1>4. ASSUME NEW c \in Crons, Unanswered(c) \/ Unsaved(c)
      PROVE  local'.failures > 0 /\ local'.age = local.age /\ UNCHANGED <<past, listed>>
  <2>1. CountFailure(c)
    BY <1>4 DEF Unanswered, Unsaved
  <2> QED BY <1>3, <2>1 DEF CountFailure
<1>5. CASE \E c \in Crons : Unanswered(c) \/ Unsaved(c)
  BY <1>1, <1>4, <1>5 DEF Row, Oldest
<1>6. CASE Tick
  <2>1. local' = Older(local) /\ past' = AtMost(past + 1, Latest) /\ listed' = listed
    BY <1>6 DEF Tick
  <2>2. past' >= past
    BY <1>1, <2>1 DEF AtMost
  <2> QED BY <1>1, <2>1, <2>2, OlderRow
<1>7. CASE \E c \in Crons : SendRead(c) \/ Lost(c)
  BY <1>2, <1>7 DEF SendRead, Lost
<1>8. CASE \E g \in Requests : ValidateRead(g) \/ Validate(g) \/ ValidateFails(g)
  BY <1>2, <1>8 DEF ValidateRead, Validate, ValidateFails
<1>9. CASE CacheExpires \/ Switch \/ List \/ UNCHANGED vars
  BY <1>2, <1>9 DEF CacheExpires, Switch, List, vars
<1> QED BY <1>5, <1>6, <1>7, <1>8, <1>9 DEF Next, Heartbeat

LEMMA BlockedStays ==
  ASSUME TypeOK, TypeOK', [Next]_vars, \A c \in Crons : ~ Answered(c), Blocked
  PROVE  Blocked'
<1> USE EnforcementAssumption
<1>1. listed \/ Unheard(local) \/ Ended
  BY BlockedIff
<1>2. local \in Row /\ local' \in Row /\ past \in Int /\ past' \in Int
  BY DEF TypeOK
<1>3. /\ local'.age >= local.age
      /\ local.failures > 0 => local'.failures > 0
      /\ past' >= past
      /\ listed => listed'
  BY SilentStep
<1>4. Unheard(local) => Unheard(local')
  BY <1>2, <1>3, OlderStaysBlocked
<1>5. Ended => Ended'
  BY <1>2, <1>3 DEF Ended
<1>6. Validated(local)' \in Regular <=> ~ listed' /\ ~ Unheard(local)' /\ ~ Ended'
  <2>1. TypeOK' => (Blocked' <=> (listed' \/ Unheard(local)' \/ Ended'))
    BY BlockedIff, PTL
  <2> QED BY <2>1 DEF Blocked
<1> QED BY <1>1, <1>3, <1>4, <1>5, <1>6 DEF Blocked, Unheard

\* Whatever happens, only the answer to a heartbeat opens a blocked deployment.
THEOREM SilenceNeverOpens == Spec => [][Blocked => Blocked' \/ \E c \in Crons : Answered(c)]_vars
<1>1. TypeOK /\ TypeOK' /\ [Next]_vars => [Blocked => Blocked' \/ \E c \in Crons : Answered(c)]_vars
  BY BlockedStays
<1> QED BY <1>1, TypeCorrect, PTL DEF Spec

-----------------------------------------------------------------------------
(* How late the guard may be.                                              *)

Open(row) == ~ listed /\ ~ Unheard(row) /\ ~ Ended

\* The count runs only while regular users are blocked; a validation that will
\* find the license open, and the state it caches, began before that or one
\* tick and two ticks after it at the latest.
Lateness ==
    /\ blockedFor > 0 => Blocked
    /\ \A g \in Requests :
          request[g].reading /\ Open(request[g].row) =>
              blockedFor <= (IF request[g].ticked THEN 1 ELSE 0)
    /\ cache.state \in Regular =>
          blockedFor <= (IF cache.ticked THEN 2 ELSE 1)

LEMMA LatenessGuard ==
  ASSUME TypeOK, Lateness
  PROVE  BlockedInSilence
  BY DEF TypeOK, Lateness, BlockedInSilence, Admits

\* A step but an answer does not open what an older reading of a row blocks.
LEMMA OlderNotOpen ==
  ASSUME TypeOK, TypeOK', [Next]_vars, \A c \in Crons : ~ Answered(c),
         NEW g \in Requests,
         request'[g].row.age >= request[g].row.age,
         request[g].row.failures > 0 => request'[g].row.failures > 0,
         Open(request[g].row)'
  PROVE  Open(request[g].row)
<1> USE EnforcementAssumption
<1>1. past \in Int /\ past' \in Int /\ request[g].row \in Row /\ request'[g].row \in Row
  BY DEF TypeOK
<1>2. ~ listed' /\ ~ Unheard(request'[g].row) /\ ~ Ended'
  BY DEF Open
<1>3. ~ Unheard(request[g].row)
  BY <1>1, <1>2, OlderStaysBlocked
<1>4. past' >= past /\ (listed => listed')
  BY SilentStep
<1>5. ~ Ended
  BY <1>1, <1>2, <1>4 DEF Ended
<1> QED BY <1>2, <1>3, <1>4, <1>5 DEF Open

LEMMA InitLateness == Init => Lateness
<1> SUFFICES ASSUME Init PROVE Lateness
  OBVIOUS
<1>1. blockedFor = 0 /\ cache.state = "none"
  BY DEF Init, NoCache
<1>2. \A g \in Requests : ~ request[g].reading
  BY DEF Init, NoRequest
<1> QED BY <1>1, <1>2 DEF Lateness, Regular

\* A step that changes neither the count nor a request nor the cache.
LEMMA QuietLateness ==
  ASSUME TypeOK, TypeOK', [Next]_vars, Lateness, \A c \in Crons : ~ Answered(c),
         UNCHANGED <<blockedFor, request, cache>>
  PROVE  Lateness'
<1>1. (blockedFor > 0 => Blocked)'
  BY BlockedStays DEF Lateness
<1>2. ASSUME NEW g \in Requests, request[g].reading, Open(request[g].row)'
      PROVE  blockedFor <= (IF request[g].ticked THEN 1 ELSE 0)
  <2>1. request[g].row \in Row /\ request'[g].row = request[g].row
    BY DEF TypeOK
  <2>2. request'[g].row.age >= request[g].row.age
    BY <2>1, EnforcementAssumption DEF Row, Oldest
  <2>3. Open(request[g].row)
    BY <1>2, <2>1, <2>2, OlderNotOpen
  <2> QED BY <1>2, <2>3 DEF Lateness
<1> QED BY <1>1, <1>2 DEF Lateness

LEMMA NextLateness ==
  ASSUME TypeOK, TypeOK', [Next]_vars, Lateness
  PROVE  Lateness'
<1> USE EnforcementAssumption
<1>1. blockedFor \in 0 .. 3 /\ blockedFor' \in 0 .. 3
  BY DEF TypeOK
<1>2. ASSUME NEW c \in Crons, Answered(c) PROVE Lateness'
  BY <1>2 DEF Answered, Lateness
<1>3. SUFFICES ASSUME \A c \in Crons : ~ Answered(c) PROVE Lateness'
  BY <1>2
<1>4. Blocked => Blocked'
  BY <1>3, BlockedStays
<1>5. ASSUME NEW g \in Requests, ValidateRead(g) PROVE Lateness'
  <2>1. UNCHANGED <<blockedFor, cache, local, past, listed>>
    BY <1>5 DEF ValidateRead
  <2>2. ASSUME NEW h \in Requests, request'[h].reading, Open(request[h].row)'
        PROVE  blockedFor <= (IF request'[h].ticked THEN 1 ELSE 0)
    <3>1. CASE h = g
      <4>1. request'[h].row = local
        BY <1>5, <3>1 DEF ValidateRead, TypeOK
      <4>2. Open(local)
        BY <2>1, <2>2, <4>1 DEF Open, Ended
      <4>3. ~ Blocked
        BY <4>2, BlockedIff DEF Open
      <4> QED BY <1>1, <4>3 DEF Lateness
    <3>2. CASE h # g
      <4>1. request'[h] = request[h]
        BY <1>5, <3>2 DEF ValidateRead, TypeOK
      <4>2. Open(request[h].row)
        BY <2>1, <2>2, <4>1 DEF Open, Ended
      <4> QED BY <2>2, <4>1, <4>2 DEF Lateness
    <3> QED BY <3>1, <3>2
  <2> QED BY <1>4, <2>1, <2>2 DEF Lateness
<1>6. ASSUME NEW g \in Requests, UNCHANGED <<blockedFor, past, listed>>,
             request' = [request EXCEPT ![g] = NoRequest]
      PROVE  /\ (blockedFor > 0 => Blocked)'
             /\ \A h \in Requests : request'[h].reading /\ Open(request[h].row)' =>
                  blockedFor' <= (IF request'[h].ticked THEN 1 ELSE 0)
  <2>1. ASSUME NEW h \in Requests, request'[h].reading PROVE request'[h] = request[h]
    BY <1>6, <2>1 DEF TypeOK, NoRequest
  <2>2. ASSUME NEW h \in Requests, request'[h].reading, Open(request[h].row)'
        PROVE  blockedFor <= (IF request'[h].ticked THEN 1 ELSE 0)
    <3>1. Open(request[h].row)
      BY <1>6, <2>1, <2>2 DEF Open, Ended
    <3> QED BY <2>1, <2>2, <3>1 DEF Lateness
  <2> QED BY <1>4, <1>6, <2>2 DEF Lateness
<1>7. ASSUME NEW g \in Requests, Validate(g) PROVE Lateness'
  <2>1. UNCHANGED <<blockedFor, past, listed>> /\ request' = [request EXCEPT ![g] = NoRequest]
    BY <1>7 DEF Validate
  <2>2. ASSUME cache'.state \in Regular PROVE blockedFor <= 1
    <3>1. cache' = [state |-> Validated(request[g].row), ticked |-> FALSE] /\ request[g].reading
      BY <1>7 DEF Validate
    <3>2. request[g].row \in Row /\ past \in Int
      BY DEF TypeOK
    <3>3. Open(request[g].row)
      BY <2>2, <3>1, <3>2, OpenIff DEF Open
    <3> QED BY <1>1, <3>1, <3>3 DEF Lateness
  <2>3. cache'.ticked = FALSE
    BY <1>7 DEF Validate
  <2> QED BY <1>6, <2>1, <2>2, <2>3 DEF Lateness
<1>8. ASSUME NEW g \in Requests, ValidateFails(g) PROVE Lateness'
  <2>1. UNCHANGED <<blockedFor, past, listed, cache>> /\ request' = [request EXCEPT ![g] = NoRequest]
    BY <1>8 DEF ValidateFails
  <2> QED BY <1>6, <2>1 DEF Lateness
<1>9. CASE CacheExpires
  <2>1. UNCHANGED <<blockedFor, past, listed, request>> /\ cache'.state \notin Regular
    BY <1>9 DEF CacheExpires, NoCache, Regular
  <2> QED BY <1>4, <2>1 DEF Lateness, Open, Ended
<1>10. CASE Tick
  <2>1. blockedFor' = IF Blocked \/ blockedFor > 0 THEN AtMost(blockedFor + 1, 3) ELSE 0
    BY <1>10 DEF Tick
  <2>2. blockedFor' <= blockedFor + 1
    BY <1>1, <2>1 DEF AtMost
  <2>3. blockedFor' > 0 => Blocked
    BY <1>1, <2>1 DEF Lateness
  <2>4. ASSUME NEW g \in Requests, request'[g].reading, Open(request[g].row)'
        PROVE  blockedFor' <= (IF request'[g].ticked THEN 1 ELSE 0)
    <3>1. /\ request[g].reading /\ ~ request[g].ticked
          /\ request'[g].ticked
          /\ request'[g].row = Older(request[g].row)
      BY <1>10, <2>4 DEF Tick, TypeOK, NoRequest
    <3>2. request[g].row \in Row
      BY DEF TypeOK
    <3>3. Open(request[g].row)
      BY <1>3, <2>4, <3>1, <3>2, OlderRow, OlderNotOpen
    <3>4. blockedFor <= 0
      BY <3>1, <3>3 DEF Lateness
    <3> QED BY <1>1, <2>2, <3>1, <3>4
  <2>5. ASSUME cache'.state \in Regular
        PROVE  blockedFor' <= (IF cache'.ticked THEN 2 ELSE 1)
    <3>1. /\ cache.state = cache'.state
          /\ ~ cache.ticked /\ cache'.ticked
      BY <1>10, <2>5 DEF Tick, TypeOK, NoCache, Regular
    <3>2. blockedFor <= 1
      BY <2>5, <3>1 DEF Lateness
    <3> QED BY <1>1, <2>2, <3>1, <3>2
  <2> QED BY <1>4, <2>3, <2>4, <2>5 DEF Lateness
<1>11. CASE UNCHANGED <<blockedFor, request, cache>>
  BY <1>3, <1>11, QuietLateness
<1>12. ASSUME NEW c \in Crons, SendRead(c) \/ Unanswered(c) \/ Unsaved(c) \/ Lost(c)
       PROVE  UNCHANGED <<blockedFor, request, cache>>
  BY <1>12 DEF SendRead, Unanswered, Unsaved, Lost, CountFailure, guardVars
<1>13. CASE Switch \/ List \/ UNCHANGED vars
  BY <1>11, <1>13 DEF Switch, List, vars, guardVars
<1> QED BY <1>3, <1>5, <1>7, <1>8, <1>9, <1>10, <1>11, <1>12, <1>13 DEF Next, Heartbeat

\* Once regular users are blocked and no heartbeat is answered, no write of
\* theirs is let through more than two ticks later, for any number of processes
\* and requests and any thresholds (LicenseGuard over a cached state).
THEOREM GuardNotLate == Spec => []BlockedInSilence
<1>1. Init => Lateness
  BY InitLateness
<1>2. TypeOK /\ TypeOK' /\ [Next]_vars /\ Lateness => Lateness'
  BY NextLateness
<1>3. TypeOK /\ Lateness => BlockedInSilence
  BY LatenessGuard
<1> QED BY <1>1, <1>2, <1>3, TypeCorrect, PTL DEF Spec

=============================================================================
