---------------------------- MODULE LicenseProofs ----------------------------
(***************************************************************************)
(* For any number of requests at a time, deployments and bounds: the types,*)
(* that a deployment told of a revocation is told so for good, that what   *)
(* is marked as propagated was published, how far activations overrun the  *)
(* limit, and what the requests that come one after the other leave of     *)
(* revocations, renewals and offline certificates.                         *)
(***************************************************************************)
EXTENDS License, FiniteSetTheorems, SequenceTheorems, TLAPS

-----------------------------------------------------------------------------
(* Types.                                                                  *)

Steps == {"idle", "renew", "revoke", "version", "row", "count", "activate", "status",
          "upsert", "certificate", "fulfil", "reject", "mark"}

Req        == [step : Steps, read : Row, d : Deployments \cup {None}, found : BOOLEAN,
               version : Nat]
Revocation == [version : Nat \ {0}, propagated : BOOLEAN]

\* What a step needs of the request that is at it.
Fits(q) ==
    /\ q.step \in {"count", "activate", "upsert", "certificate", "fulfil", "reject"} =>
          q.d \in Deployments
    /\ q.step \in {"upsert", "certificate", "fulfil", "reject"} => q.d \in Offline
    /\ q.step = "row" => q.version # 0

RequestsOK ==
    /\ req \in [Requests -> Req]
    /\ \A r \in Requests : Fits(req[r])

CountsOK ==
    /\ today \in 0 .. LastDay
    /\ received \in 0 .. MaxRequests
    /\ failures \in 0 .. MaxFailures
    /\ overlap \in BOOLEAN

ActivationsOK ==
    /\ activations \subseteq Deployments
    /\ online \subseteq activations
    /\ offline \in [Offline -> {"none", "pending", "fulfilled", "rejected"}]
    /\ certificates \subseteq Offline

\* There is a highest version: CHOOSE in Max0 finds it.
HasNewest ==
    revocations # <<>> =>
        \E k \in DOMAIN revocations :
            \A j \in DOMAIN revocations : revocations[j].version <= revocations[k].version

RevocationsOK ==
    /\ revocations \in Seq(Revocation)
    /\ published \subseteq DOMAIN revocations
    /\ HasNewest

ToldOK == told \in [answer : {"none", "healthy", "offline_grace", "revoked"}, row : BOOLEAN]

Typed ==
    /\ license \in Row
    /\ RequestsOK /\ CountsOK /\ ActivationsOK /\ RevocationsOK /\ ToldOK

LEMMA TypedIsTypeOK == Typed => TypeOK
  BY DEF Typed, TypeOK, RequestsOK, CountsOK, ActivationsOK, RevocationsOK, ToldOK,
         Req, Steps, Revocation

LEMMA IdleReq == Idle \in Req /\ Fits(Idle)
<1>1. NoLicense \in Row
  BY DEF NoLicense, Row, Statuses
<1> QED BY <1>1 DEF Idle, Req, Steps, Fits

LEMMA InitTyped == Init => Typed
<1> SUFFICES ASSUME Init PROVE Typed
  OBVIOUS
<1> USE LicenseAssumption
<1>1. license \in Row
  BY DEF Init, NoLicense, Row, Statuses
<1>2. RequestsOK
  BY IdleReq DEF Init, RequestsOK
<1>3. CountsOK
  <2>1. today \in 0 .. LastDay /\ received \in 0 .. MaxRequests /\ failures \in 0 .. MaxFailures
    BY DEF Init
  <2>2. overlap \in BOOLEAN
    BY Zenon DEF Init
  <2> QED BY <2>1, <2>2 DEF CountsOK
<1>4. ActivationsOK
  BY DEF Init, ActivationsOK
<1>5. RevocationsOK
  BY DEF Init, RevocationsOK, HasNewest
<1>6. ToldOK
  BY DEF Init, ToldOK, NotTold
<1> QED BY <1>1, <1>2, <1>3, <1>4, <1>5, <1>6 DEF Typed

LEMMA MaxVersionIs ==
  ASSUME RevocationsOK
  PROVE  /\ MaxVersion \in Nat
         /\ \A k \in DOMAIN revocations : revocations[k].version <= MaxVersion
         /\ MaxVersion # 0 => \E k \in DOMAIN revocations : revocations[k].version = MaxVersion
<1> DEFINE S == {revocations[k].version : k \in DOMAIN revocations}
<1>1. S \subseteq Nat \ {0}
  <2>1. \A k \in DOMAIN revocations : revocations[k] \in Revocation
    BY DEF RevocationsOK
  <2> QED BY <2>1 DEF Revocation
<1>2. CASE revocations = <<>>
  <2>1. S = {}
    BY <1>2
  <2> QED BY <1>2, <2>1 DEF MaxVersion, Max0
<1>3. CASE revocations # <<>>
  <2>1. PICK k \in DOMAIN revocations :
           \A j \in DOMAIN revocations : revocations[j].version <= revocations[k].version
    BY <1>3 DEF RevocationsOK, HasNewest
  <2>2. revocations[k].version \in S /\ \A m \in S : m <= revocations[k].version
    BY <2>1
  <2>3. MaxVersion = CHOOSE n \in S : \A m \in S : m <= n
    BY <2>2 DEF MaxVersion, Max0
  <2>4. MaxVersion \in S /\ \A m \in S : m <= MaxVersion
    BY <2>2, <2>3
  <2> QED BY <1>1, <2>4
<1> QED BY <1>2, <1>3

\* The request in slot r becomes q.
LEMMA ReqBecomes ==
  ASSUME RequestsOK, NEW r \in Requests, NEW q \in Req, Fits(q),
         req' = [req EXCEPT ![r] = q]
  PROVE  RequestsOK'
<1>1. req' \in [Requests -> Req]
  BY DEF RequestsOK
<1>2. \A p \in Requests : req'[p] = IF p = r THEN q ELSE req[p]
  BY DEF RequestsOK
<1>3. \A p \in Requests : Fits(req'[p])
  BY <1>2 DEF RequestsOK
<1> QED BY <1>1, <1>3 DEF RequestsOK

LEMMA DoneOK ==
  ASSUME RequestsOK, NEW r \in Requests, Done(r)
  PROVE  RequestsOK'
  BY ReqBecomes, IdleReq DEF Done

\* A request goes on to its next step.
LEMMA StepOK ==
  ASSUME RequestsOK, NEW r \in Requests, NEW s \in Steps,
         req' = [req EXCEPT ![r].step = s], Fits([req[r] EXCEPT !.step = s])
  PROVE  RequestsOK'
<1>1. [req[r] EXCEPT !.step = s] \in Req
  BY DEF RequestsOK, Req
<1>2. req' = [req EXCEPT ![r] = [req[r] EXCEPT !.step = s]]
  BY DEF RequestsOK, Req
<1> QED BY <1>1, <1>2, ReqBecomes

\* A request begins.
LEMMA BeginOK ==
  ASSUME RequestsOK, CountsOK, NEW r \in Requests, Begin(r)
  PROVE  CountsOK'
<1>1. received' \in 0 .. MaxRequests
  BY LicenseAssumption DEF Begin, CountsOK
<1>2. overlap' \in BOOLEAN
  BY Zenon DEF Begin, CountsOK
<1> QED BY <1>1, <1>2 DEF Begin, CountsOK

\* The types at a step that changes neither the row nor the revocations.
LEMMA Quietly ==
  ASSUME Typed, RequestsOK', CountsOK', ActivationsOK', UNCHANGED <<license, revocationVars, told>>
  PROVE  Typed'
  BY DEF Typed, RevocationsOK, HasNewest, ToldOK, revocationVars

\* The types at a step that changes the row and perhaps the requests.
LEMMA WithRow ==
  ASSUME Typed, RequestsOK', license' \in Row, UNCHANGED <<activationVars, revocationVars, countVars, told>>
  PROVE  Typed'
  BY DEF Typed, RevocationsOK, HasNewest, ToldOK, CountsOK, ActivationsOK,
         revocationVars, activationVars, countVars

\* A row is added.
LEMMA AppendOK ==
  ASSUME RevocationsOK, NEW v \in Nat \ {0}, UNCHANGED published,
         revocations' = Append(revocations, [version |-> v, propagated |-> FALSE])
  PROVE  /\ RevocationsOK'
         /\ DOMAIN revocations' = DOMAIN revocations \cup {Len(revocations) + 1}
         /\ Len(revocations) + 1 \notin DOMAIN revocations
         /\ revocations'[Len(revocations) + 1] = [version |-> v, propagated |-> FALSE]
         /\ \A k \in DOMAIN revocations : revocations'[k] = revocations[k]
<1> DEFINE row == [version |-> v, propagated |-> FALSE]
           new == Len(revocations) + 1
<1>1. row \in Revocation
  BY DEF Revocation
<1>2. revocations \in Seq(Revocation)
  BY DEF RevocationsOK
<1>3. /\ revocations' \in Seq(Revocation)
      /\ DOMAIN revocations' = DOMAIN revocations \cup {new}
      /\ new \notin DOMAIN revocations
      /\ revocations'[new] = row
      /\ \A k \in DOMAIN revocations : revocations'[k] = revocations[k]
  BY <1>1, <1>2
<1>4. \A k \in DOMAIN revocations : revocations[k].version \in Nat
  <2>1. \A k \in DOMAIN revocations : revocations[k] \in Revocation
    BY <1>2
  <2> QED BY <2>1 DEF Revocation
<1>5. HasNewest'
  <2>1. ASSUME NEW k \in DOMAIN revocations,
               \A j \in DOMAIN revocations : revocations[j].version <= revocations[k].version
        PROVE  HasNewest'
    <3>1. CASE revocations[k].version >= v
      <4>1. \A j \in DOMAIN revocations' : revocations'[j].version <= revocations'[k].version
        BY <1>3, <2>1, <3>1
      <4> QED BY <1>3, <4>1 DEF HasNewest
    <3>2. CASE revocations[k].version < v
      <4>1. \A j \in DOMAIN revocations' : revocations'[j].version <= revocations'[new].version
        BY <1>3, <1>4, <2>1, <3>2
      <4> QED BY <1>3, <4>1 DEF HasNewest
    <3> QED BY <1>4, <3>1, <3>2
  <2>2. CASE revocations = <<>>
    <3>1. DOMAIN revocations' = {new}
      BY <1>3, <2>2
    <3>2. revocations'[new].version <= revocations'[new].version
      BY <1>3
    <3> QED BY <3>1, <3>2 DEF HasNewest
  <2> QED BY <2>1, <2>2 DEF RevocationsOK, HasNewest
<1>6. published' \subseteq DOMAIN revocations'
  BY <1>3 DEF RevocationsOK
<1> QED BY <1>3, <1>5, <1>6 DEF RevocationsOK

\* Rows are marked: their versions stay.
LEMMA MarkOK ==
  ASSUME RevocationsOK, NEW v \in Nat, UNCHANGED published,
         revocations' = [k \in DOMAIN revocations |->
                            [revocations[k] EXCEPT !.propagated =
                                 @ \/ revocations[k].version <= v]]
  PROVE  /\ RevocationsOK'
         /\ DOMAIN revocations' = DOMAIN revocations
         /\ \A k \in DOMAIN revocations :
               /\ revocations'[k].version = revocations[k].version
               /\ revocations'[k].propagated =>
                     revocations[k].propagated \/ revocations[k].version <= v
<1>1. revocations \in Seq(Revocation) /\ DOMAIN revocations = 1 .. Len(revocations)
  BY DEF RevocationsOK
<1>2. \A k \in DOMAIN revocations : revocations[k] \in Revocation
  BY <1>1
<1>3. \A k \in DOMAIN revocations : revocations'[k] =
          [revocations[k] EXCEPT !.propagated = @ \/ revocations[k].version <= v]
  OBVIOUS
<1>4. ASSUME NEW k \in DOMAIN revocations
      PROVE  /\ revocations'[k] \in Revocation
             /\ revocations'[k].version = revocations[k].version
             /\ revocations'[k].propagated =>
                   revocations[k].propagated \/ revocations[k].version <= v
  BY <1>2, <1>3 DEF Revocation
<1>5. DOMAIN revocations' = DOMAIN revocations
  OBVIOUS
<1>6. revocations' \in [1 .. Len(revocations) -> Revocation]
  BY <1>1, <1>4
<1>7. revocations' \in Seq(Revocation)
  BY <1>1, <1>6
<1>8. HasNewest'
  <2>1. CASE revocations = <<>>
    <3>1. revocations' = <<>>
      BY <1>1, <1>5, <1>7, <2>1
    <3> QED BY <3>1 DEF HasNewest
  <2>2. CASE revocations # <<>>
    <3>1. PICK k \in DOMAIN revocations :
             \A j \in DOMAIN revocations : revocations[j].version <= revocations[k].version
      BY <2>2 DEF RevocationsOK, HasNewest
    <3>2. \A j \in DOMAIN revocations' : revocations'[j].version <= revocations'[k].version
      BY <1>4, <1>5, <3>1
    <3> QED BY <1>5, <3>2 DEF HasNewest
  <2> QED BY <2>1, <2>2
<1> QED BY <1>4, <1>5, <1>7, <1>8 DEF RevocationsOK

LEMMA NextTyped ==
  ASSUME Typed, [Next]_vars
  PROVE  Typed'
<1> USE LicenseAssumption
<1>1. /\ license \in Row
      /\ RequestsOK /\ CountsOK /\ ActivationsOK /\ RevocationsOK /\ ToldOK
      /\ \A r \in Requests : req[r] \in Req /\ Fits(req[r])
  BY DEF Typed, RequestsOK
<1>2. CASE Issue
  BY <1>1, <1>2, WithRow DEF Issue, Row, Statuses, RequestsOK
<1>3. CASE ExpireDueLicenses
  BY <1>1, <1>3, WithRow DEF ExpireDueLicenses, Row, Statuses, RequestsOK
<1>4. CASE NextDay
  BY <1>1, <1>4, Quietly DEF NextDay, RequestsOK, CountsOK, ActivationsOK, activationVars
<1>5. CASE ReceiveHeartbeat
  <2>1. told' = [answer |-> Answer, row |-> revocations # <<>>]
    BY <1>5 DEF ReceiveHeartbeat
  <2>2. Answer \in {"healthy", "offline_grace", "revoked"}
    BY DEF Answer
  <2>3. (revocations # <<>>) \in BOOLEAN
    OBVIOUS
  <2>4. ToldOK'
    BY <2>1, <2>2, <2>3, Zenon DEF ToldOK
  <2> QED BY <1>1, <1>5, <2>4 DEF ReceiveHeartbeat, Typed, RequestsOK, CountsOK, ActivationsOK,
          RevocationsOK, HasNewest, activationVars, revocationVars, countVars
<1>6. ASSUME NEW d \in Offline, IntakeOfflineRequest(d) PROVE Typed'
  BY <1>1, <1>6, Quietly DEF IntakeOfflineRequest, ActivationsOK, RequestsOK, CountsOK, countVars
<1>7. ASSUME NEW r \in Requests, NEW q \in Req, Begin(r), Fits(q), req' = [req EXCEPT ![r] = q],
             UNCHANGED <<license, activationVars, revocationVars, told>>
      PROVE  Typed'
  BY <1>1, <1>7, ReqBecomes, BeginOK, Quietly DEF ActivationsOK, activationVars
<1>9. ASSUME NEW r \in Requests, RenewRead(r) \/ RevokeRead(r) \/ BuildAndSign(r) PROVE Typed'
  <2>1. ASSUME NEW q \in Req, Fits(q), req' = [req EXCEPT ![r] = q], Begin(r),
               UNCHANGED <<license, activationVars, revocations, told>>,
               published' \in {published, published \cup DOMAIN revocations}
        PROVE  Typed'
    <3>1. RequestsOK' /\ CountsOK'
      BY <1>1, <2>1, ReqBecomes, BeginOK
    <3>2. RevocationsOK'
      BY <1>1, <2>1 DEF RevocationsOK, HasNewest
    <3> QED BY <1>1, <2>1, <3>1, <3>2 DEF Typed, ActivationsOK, ToldOK, activationVars
  <2>2. /\ Fits([Idle EXCEPT !.step = "renew", !.read = license])
        /\ Fits([Idle EXCEPT !.step = "revoke"])
        /\ Fits([Idle EXCEPT !.step = "mark", !.version = MaxVersion])
    BY DEF Fits, Idle
  <2>3. CASE RenewRead(r)
    <3>1. [Idle EXCEPT !.step = "renew", !.read = license] \in Req
      BY <1>1, IdleReq DEF Req, Steps
    <3> QED BY <2>1, <2>2, <2>3, <3>1 DEF RenewRead, revocationVars
  <2>4. CASE RevokeRead(r)
    <3>1. [Idle EXCEPT !.step = "revoke"] \in Req
      BY IdleReq DEF Req, Steps
    <3> QED BY <2>1, <2>2, <2>4, <3>1 DEF RevokeRead, revocationVars
  <2>5. CASE BuildAndSign(r)
    <3>1. [Idle EXCEPT !.step = "mark", !.version = MaxVersion] \in Req
      BY <1>1, IdleReq, MaxVersionIs DEF Req, Steps
    <3> QED BY <2>1, <2>2, <2>5, <3>1 DEF BuildAndSign
  <2> QED BY <1>9, <2>3, <2>4, <2>5
<1>10. ASSUME NEW r \in Requests, RenewWrite(r) PROVE Typed'
  <2>1. license' \in Row
    BY <1>1, <1>10 DEF RenewWrite, Row, Statuses, Req
  <2> QED BY <1>1, <1>10, <2>1, DoneOK, WithRow DEF RenewWrite
<1>11. ASSUME NEW r \in Requests, RevokeMark(r) PROVE Typed'
  <2>1. license' \in Row
    BY <1>1, <1>11 DEF RevokeMark, Row, Statuses
  <2>2. Fits([req[r] EXCEPT !.step = "version"])
    BY <1>1, <1>11 DEF Fits, Req
  <2> QED BY <1>1, <1>11, <2>1, <2>2, StepOK, WithRow DEF RevokeMark, Steps
<1>12. ASSUME NEW r \in Requests, RevokeVersion(r) PROVE Typed'
  <2> DEFINE q == [req[r] EXCEPT !.step = "row", !.version = MaxVersion + 1]
  <2>1. MaxVersion + 1 \in Nat \ {0}
    BY <1>1, MaxVersionIs
  <2>2. q \in Req
    BY <1>1, <2>1 DEF Req, Steps
  <2>3. Fits(q)
    BY <1>1, <2>1 DEF Fits, Req
  <2>4. req' = [req EXCEPT ![r] = q]
    BY <1>1, <1>12 DEF RevokeVersion, RequestsOK, Req
  <2> HIDE DEF q
  <2>5. RequestsOK'
    BY <1>1, <2>2, <2>3, <2>4, ReqBecomes
  <2> QED BY <1>1, <1>12, <2>5, WithRow DEF RevokeVersion
<1>13. ASSUME NEW r \in Requests, RevokeRow(r) PROVE Typed'
  <2>1. RequestsOK'
    BY <1>1, <1>13, DoneOK DEF RevokeRow
  <2>2. RevocationsOK'
    BY <1>1, <1>13, AppendOK DEF RevokeRow, Fits, Req
  <2> QED BY <1>1, <1>13, <2>1, <2>2
          DEF RevokeRow, Typed, CountsOK, ActivationsOK, ToldOK, activationVars, countVars
<1>14. ASSUME NEW r \in Requests, MarkPropagated(r) PROVE Typed'
  <2>1. RequestsOK'
    BY <1>1, <1>14, DoneOK DEF MarkPropagated
  <2>2. RevocationsOK'
    BY <1>1, <1>14, MarkOK DEF MarkPropagated, Req
  <2> QED BY <1>1, <1>14, <2>1, <2>2
          DEF MarkPropagated, Typed, CountsOK, ActivationsOK, ToldOK, activationVars, countVars
<1>15. ASSUME NEW r \in Requests, NEW d \in Deployments, ActivateRead(r, d) PROVE Typed'
  <2>1. /\ [Idle EXCEPT !.step = "count", !.read = license, !.d = d] \in Req
        /\ Fits([Idle EXCEPT !.step = "count", !.read = license, !.d = d])
    BY <1>1, IdleReq DEF Req, Steps, Fits, Idle
  <2> QED BY <1>7, <1>15, <2>1 DEF ActivateRead
<1>16. ASSUME NEW r \in Requests, NEW d \in Offline, IssueRead(r, d) \/ RejectRead(r, d) PROVE Typed'
  <2>1. ASSUME NEW s \in {"upsert", "reject"}
        PROVE  /\ [Idle EXCEPT !.step = s, !.d = d] \in Req
               /\ Fits([Idle EXCEPT !.step = s, !.d = d])
    BY IdleReq DEF Req, Steps, Fits, Idle
  <2> QED BY <1>7, <1>16, <2>1 DEF IssueRead, RejectRead
<1>17. ASSUME NEW r \in Requests, ActivateCount(r) PROVE Typed'
  <2>1. RequestsOK'
    <3>1. CASE Done(r)
      BY <1>1, <3>1, DoneOK
    <3>2. CASE req' = [req EXCEPT ![r].step = "activate", ![r].found = req[r].d \in activations]
      <4> DEFINE q == [req[r] EXCEPT !.step = "activate", !.found = req[r].d \in activations]
      <4>1. (req[r].d \in activations) \in BOOLEAN
        OBVIOUS
      <4>2. PICK b \in BOOLEAN : b = (req[r].d \in activations)
        BY <4>1, Zenon
      <4>3. [req[r] EXCEPT !.step = "activate", !.found = b] \in Req
        BY <1>1 DEF Req, Steps
      <4>4. q \in Req
        BY <4>2, <4>3, Zenon
      <4>5. Fits(q)
        BY <1>1, <1>17 DEF Fits, Req, ActivateCount
      <4>6. req' = [req EXCEPT ![r] = q]
        BY <1>1, <3>2 DEF RequestsOK, Req
      <4> HIDE DEF q
      <4> QED BY <1>1, <4>4, <4>5, <4>6, ReqBecomes
    <3> QED BY <1>17, <3>1, <3>2 DEF ActivateCount, Done
  <2> QED BY <1>1, <1>17, <2>1, WithRow DEF ActivateCount
<1>18. ASSUME NEW r \in Requests, ActivateRow(r) PROVE Typed'
  <2>1. req[r].d \in Deployments /\ req[r].step = "activate"
    BY <1>1, <1>18 DEF ActivateRow, Fits
  <2>2. RequestsOK'
    <3>1. CASE req' = [req EXCEPT ![r].step = "status"]
      <4>1. Fits([req[r] EXCEPT !.step = "status"])
        BY <1>1 DEF Fits, Req
      <4> QED BY <1>1, <3>1, <4>1, StepOK DEF Steps
    <3>2. CASE Done(r)
      BY <1>1, <3>2, DoneOK
    <3> QED BY <1>18, <3>1, <3>2 DEF ActivateRow, Done
  <2>3. ActivationsOK'
    BY <1>1, <1>18, <2>1 DEF ActivateRow, ActivationsOK
  <2> QED BY <1>1, <1>18, <2>2, <2>3, Quietly DEF ActivateRow, CountsOK, countVars
<1>19. ASSUME NEW r \in Requests, ActivateStatus(r) PROVE Typed'
  <2>1. license' \in Row
    BY <1>1, <1>19 DEF ActivateStatus, Row, Statuses
  <2> QED BY <1>1, <1>19, <2>1, DoneOK, WithRow DEF ActivateStatus
<1>20. ASSUME NEW r \in Requests, IssueActivation(r) PROVE Typed'
  <2>1. Fits([req[r] EXCEPT !.step = "certificate"])
    BY <1>1, <1>20 DEF IssueActivation, Fits, Req
  <2>2. RequestsOK'
    BY <1>1, <1>20, <2>1, StepOK DEF IssueActivation, Steps
  <2>3. ActivationsOK'
    BY <1>1, <1>20 DEF IssueActivation, ActivationsOK, Fits
  <2> QED BY <1>1, <1>20, <2>2, <2>3, Quietly DEF IssueActivation, CountsOK, countVars
<1>21. ASSUME NEW r \in Requests, IssueCertificate(r) PROVE Typed'
  <2>1. RequestsOK'
    <3>1. CASE req' = [req EXCEPT ![r].step = "fulfil"]
      <4>1. Fits([req[r] EXCEPT !.step = "fulfil"])
        BY <1>1, <1>21 DEF IssueCertificate, Fits, Req
      <4> QED BY <1>1, <3>1, <4>1, StepOK DEF Steps
    <3>2. CASE Done(r)
      BY <1>1, <3>2, DoneOK
    <3> QED BY <1>21, <3>1, <3>2 DEF IssueCertificate, Done
  <2>2. ActivationsOK'
    BY <1>1, <1>21 DEF IssueCertificate, ActivationsOK, Fits
  <2> QED BY <1>1, <1>21, <2>1, <2>2, Quietly DEF IssueCertificate, CountsOK, countVars
<1>22. ASSUME NEW r \in Requests, IssueFulfil(r) \/ RejectWrite(r) PROVE Typed'
  <2>1. RequestsOK'
    BY <1>1, <1>22, DoneOK DEF IssueFulfil, RejectWrite
  <2>2. ActivationsOK'
    BY <1>1, <1>22 DEF IssueFulfil, RejectWrite, ActivationsOK
  <2> QED BY <1>1, <1>22, <2>1, <2>2, Quietly DEF IssueFulfil, RejectWrite, CountsOK, countVars
<1>23. ASSUME NEW r \in Requests, Fail(r) PROVE Typed'
  <2>1. CountsOK'
    BY <1>1, <1>23 DEF Fail, CountsOK
  <2> QED BY <1>1, <1>23, <2>1, DoneOK, Quietly DEF Fail, ActivationsOK, activationVars
<1>24. CASE UNCHANGED vars
  BY <1>1, <1>24, WithRow DEF vars, RequestsOK, activationVars, revocationVars, countVars
<1> QED
  BY <1>2, <1>3, <1>4, <1>5, <1>6, <1>9, <1>10, <1>11, <1>12, <1>13, <1>14, <1>15, <1>16,
     <1>17, <1>18, <1>19, <1>20, <1>21, <1>22, <1>23, <1>24
     DEF Next

LEMMA AlwaysTyped == Spec => []Typed
<1>1. Init => Typed
  BY InitTyped
<1>2. Typed /\ [Next]_vars => Typed'
  BY NextTyped
<1> QED BY <1>1, <1>2, PTL DEF Spec

\* Rows, requests and certificates keep their types.
THEOREM TypeCorrect == Spec => []TypeOK
  BY AlwaysTyped, TypedIsTypeOK, PTL

-----------------------------------------------------------------------------
(* What is marked was published.  Versions have no gap below any of them,  *)
(* so the one a publication read stands for all that markPropagated marks. *)

Reaches(v, K) == \A n \in 1 .. v : \E k \in K : revocations[k].version = n

PublishedInv ==
    /\ \A k \in DOMAIN revocations : Reaches(revocations[k].version, DOMAIN revocations)
    /\ \A r \in Requests : req[r].step = "row" => Reaches(req[r].version - 1, DOMAIN revocations)
    /\ \A r \in Requests : req[r].step = "mark" => Reaches(req[r].version, published)
    /\ PropagatedWasPublished

LEMMA InitPublished == Init => PublishedInv
  BY DEF Init, PublishedInv, PropagatedWasPublished, Idle

\* The requests that have a version to write or to mark had it before.
VersionsKept == \A r \in Requests : req'[r].step \in {"row", "mark"} => req'[r] = req[r]

LEMMA KeepsPublished ==
  ASSUME PublishedInv, VersionsKept, UNCHANGED revocationVars
  PROVE  PublishedInv'
  BY DEF PublishedInv, VersionsKept, Reaches, PropagatedWasPublished, revocationVars

\* What the steps leave as it is, for all but those of revoke and of the CRL.
LEMMA OtherSteps ==
  ASSUME Typed, [Next]_vars,
         \A r \in Requests : ~ (\/ RevokeVersion(r) \/ RevokeRow(r)
                                \/ BuildAndSign(r) \/ MarkPropagated(r))
  PROVE  VersionsKept /\ UNCHANGED revocationVars
<1> USE DEF revocationVars
<1>1. req \in [Requests -> Req]
  BY DEF Typed, RequestsOK
<1>2. ASSUME NEW r \in Requests, NEW q, req' = [req EXCEPT ![r] = q], q.step \notin {"row", "mark"}
      PROVE  VersionsKept
  BY <1>1, <1>2 DEF VersionsKept
<1>3. ASSUME NEW r \in Requests, Done(r) PROVE VersionsKept
  BY <1>2, <1>3 DEF Done, Idle
<1>4. ASSUME NEW r \in Requests, NEW s \in Steps \ {"row", "mark"},
             req' = [req EXCEPT ![r].step = s]
      PROVE  VersionsKept
  BY <1>1, <1>4 DEF VersionsKept, Req
<1>5. CASE Issue \/ ExpireDueLicenses \/ NextDay \/ ReceiveHeartbeat \/ UNCHANGED vars
           \/ \E d \in Offline : IntakeOfflineRequest(d)
  BY <1>5 DEF Issue, ExpireDueLicenses, NextDay, ReceiveHeartbeat, IntakeOfflineRequest, vars,
              VersionsKept
<1>6. ASSUME NEW r \in Requests,
             \/ RenewRead(r) \/ RevokeRead(r) \/ \E d \in Deployments : ActivateRead(r, d)
             \/ \E d \in Offline : IssueRead(r, d) \/ RejectRead(r, d)
      PROVE  VersionsKept /\ UNCHANGED revocationVars
  BY <1>2, <1>6 DEF RenewRead, RevokeRead, ActivateRead, IssueRead, RejectRead, Idle
<1>7. ASSUME NEW r \in Requests,
             \/ RenewWrite(r) \/ ActivateStatus(r) \/ IssueFulfil(r) \/ RejectWrite(r) \/ Fail(r)
      PROVE  VersionsKept /\ UNCHANGED revocationVars
  BY <1>3, <1>7 DEF RenewWrite, ActivateStatus, IssueFulfil, RejectWrite, Fail
<1>8. ASSUME NEW r \in Requests, RevokeMark(r) \/ IssueActivation(r)
      PROVE  VersionsKept /\ UNCHANGED revocationVars
  BY <1>4, <1>8 DEF RevokeMark, IssueActivation, Steps
<1>9. ASSUME NEW r \in Requests, IssueCertificate(r) \/ ActivateRow(r)
      PROVE  VersionsKept /\ UNCHANGED revocationVars
  BY <1>3, <1>4, <1>9 DEF IssueCertificate, ActivateRow, Steps, Done
<1>10. ASSUME NEW r \in Requests, ActivateCount(r)
       PROVE  VersionsKept /\ UNCHANGED revocationVars
  <2>1. req' = [req EXCEPT ![r].step = "activate", ![r].found = req[r].d \in activations]
           => req'[r].step = "activate" /\ \A q \in Requests \ {r} : req'[q] = req[q]
    BY <1>1 DEF Req
  <2> QED BY <1>3, <1>10, <2>1 DEF ActivateCount, Done, VersionsKept
<1> QED BY <1>5, <1>6, <1>7, <1>8, <1>9, <1>10 DEF Next

LEMMA NextPublished ==
  ASSUME Typed, Typed', PublishedInv, [Next]_vars
  PROVE  PublishedInv'
<1>1. RequestsOK /\ RevocationsOK /\ req \in [Requests -> Req]
  BY DEF Typed, RequestsOK
<1>2. ASSUME NEW r \in Requests, RevokeVersion(r) PROVE PublishedInv'
  <2>1. UNCHANGED <<revocations, published>>
    BY <1>2 DEF RevokeVersion, revocationVars
  <2>2. req'[r].step = "row" /\ req'[r].version = MaxVersion + 1
    BY <1>1, <1>2 DEF RevokeVersion, Req
  <2>3. \A q \in Requests \ {r} : req'[q] = req[q]
    BY <1>1, <1>2 DEF RevokeVersion
  <2>4. Reaches(MaxVersion, DOMAIN revocations)
    BY <1>1, MaxVersionIs DEF PublishedInv, Reaches
  <2>5. req'[r].version - 1 = MaxVersion
    BY <1>1, <2>2, MaxVersionIs
  <2> QED BY <2>1, <2>2, <2>3, <2>4, <2>5 DEF PublishedInv, Reaches, PropagatedWasPublished
<1>3. ASSUME NEW r \in Requests, RevokeRow(r) PROVE PublishedInv'
  <2> DEFINE v   == req[r].version
             new == Len(revocations) + 1
  <2>1. v \in Nat \ {0} /\ Reaches(v - 1, DOMAIN revocations)
    BY <1>1, <1>3 DEF RevokeRow, RequestsOK, Fits, Req, PublishedInv
  <2>2. /\ DOMAIN revocations' = DOMAIN revocations \cup {new}
        /\ revocations'[new] = [version |-> v, propagated |-> FALSE]
        /\ \A k \in DOMAIN revocations : revocations'[k] = revocations[k]
        /\ published' = published
    BY <1>1, <1>3, <2>1, AppendOK DEF RevokeRow
  <2>3. \A q \in Requests : req'[q].step \in {"row", "mark"} => req'[q] = req[q]
    BY <1>1, <1>3 DEF RevokeRow, Done, Idle
  <2>4. published \subseteq DOMAIN revocations
    BY <1>1 DEF RevocationsOK
  <2> HIDE DEF v, new
  <2>5. ASSUME NEW n, Reaches(n, DOMAIN revocations) PROVE Reaches(n, DOMAIN revocations)'
    BY <2>2, <2>5 DEF Reaches
  <2>6. ASSUME NEW k \in DOMAIN revocations'
        PROVE  Reaches(revocations[k].version, DOMAIN revocations)'
    <3>1. CASE k \in DOMAIN revocations
      BY <2>2, <2>5, <3>1 DEF PublishedInv
    <3>2. CASE k = new
      <4>1. ASSUME NEW n \in 1 .. v PROVE \E j \in DOMAIN revocations' : revocations'[j].version = n
        <5>1. n \in 1 .. (v - 1) \/ n = v
          BY <2>1
        <5> QED BY <2>1, <2>2, <5>1 DEF Reaches
      <4> QED BY <2>2, <3>2, <4>1 DEF Reaches
    <3> QED BY <2>2, <2>6, <3>1, <3>2
  <2>7. ASSUME NEW q \in Requests, req'[q].step = "row"
        PROVE  Reaches(req[q].version - 1, DOMAIN revocations)'
    <3>1. req'[q] = req[q] /\ Reaches(req[q].version - 1, DOMAIN revocations)
      BY <2>3, <2>7 DEF PublishedInv
    <3> QED BY <2>2, <3>1 DEF Reaches
  <2>8. ASSUME NEW q \in Requests, req'[q].step = "mark"
        PROVE  Reaches(req[q].version, published)'
    <3>1. req'[q] = req[q] /\ Reaches(req[q].version, published)
      BY <2>3, <2>8 DEF PublishedInv
    <3> QED BY <2>2, <2>4, <3>1 DEF Reaches
  <2>9. PropagatedWasPublished'
    BY <2>2, <2>4 DEF PublishedInv, PropagatedWasPublished
  <2> QED BY <2>6, <2>7, <2>8, <2>9 DEF PublishedInv
<1>4. ASSUME NEW r \in Requests, BuildAndSign(r) PROVE PublishedInv'
  <2>1. revocations' = revocations /\ published' = DOMAIN revocations
    BY <1>1, <1>4 DEF BuildAndSign, RevocationsOK
  <2>2. req'[r].step = "mark" /\ req'[r].version = MaxVersion
    BY <1>1, <1>4 DEF BuildAndSign, Idle
  <2>3. \A q \in Requests \ {r} : req'[q] = req[q]
    BY <1>1, <1>4 DEF BuildAndSign
  <2>4. Reaches(MaxVersion, DOMAIN revocations)
    BY <1>1, MaxVersionIs DEF PublishedInv, Reaches
  <2>5. published \subseteq DOMAIN revocations
    BY <1>1 DEF RevocationsOK
  <2> QED BY <2>1, <2>2, <2>3, <2>4, <2>5 DEF PublishedInv, Reaches, PropagatedWasPublished
<1>5. ASSUME NEW r \in Requests, MarkPropagated(r) PROVE PublishedInv'
  <2> DEFINE v == req[r].version
  <2>1. v \in Nat /\ Reaches(v, published)
    BY <1>1, <1>5 DEF MarkPropagated, Req, PublishedInv
  <2>2. /\ published' = published
        /\ DOMAIN revocations' = DOMAIN revocations
        /\ \A k \in DOMAIN revocations :
              /\ revocations'[k].version = revocations[k].version
              /\ revocations'[k].propagated => revocations[k].propagated \/ revocations[k].version <= v
    BY <1>1, <1>5, <2>1, MarkOK DEF MarkPropagated
  <2>3. \A q \in Requests : req'[q].step \in {"row", "mark"} => req'[q] = req[q]
    BY <1>1, <1>5 DEF MarkPropagated, Done, Idle
  <2>4. published \subseteq DOMAIN revocations
    BY <1>1 DEF RevocationsOK
  <2>5. \A k \in DOMAIN revocations : revocations[k].version \in Nat \ {0}
    <3>1. \A k \in DOMAIN revocations : revocations[k] \in Revocation
      BY <1>1 DEF RevocationsOK
    <3> QED BY <3>1 DEF Revocation
  <2> HIDE DEF v
  <2>6. ASSUME NEW k \in DOMAIN revocations', revocations'[k].propagated
        PROVE  \E j \in published : revocations'[j].version = revocations'[k].version
    <3>1. CASE revocations[k].propagated
      BY <2>2, <2>4, <3>1 DEF PublishedInv, PropagatedWasPublished
    <3>2. CASE revocations[k].version <= v
      <4>1. revocations[k].version \in 1 .. v
        BY <2>1, <2>2, <2>5, <3>2
      <4> QED BY <2>1, <2>2, <2>4, <4>1 DEF Reaches
    <3> QED BY <2>2, <2>6, <3>1, <3>2
  <2>7. \A n : /\ Reaches(n, DOMAIN revocations) => Reaches(n, DOMAIN revocations)'
               /\ Reaches(n, published) => Reaches(n, published)'
    BY <2>2, <2>4 DEF Reaches
  <2> QED BY <2>2, <2>3, <2>6, <2>7 DEF PublishedInv, PropagatedWasPublished
<1>6. CASE \A r \in Requests : ~ (\/ RevokeVersion(r) \/ RevokeRow(r)
                                  \/ BuildAndSign(r) \/ MarkPropagated(r))
  BY <1>6, OtherSteps, KeepsPublished
<1> QED BY <1>2, <1>3, <1>4, <1>5, <1>6

\* However requests overlap, a revocation marked as propagated has the
\* crlVersion of one that was in a signed CRL (markPropagated).
THEOREM PropagationCorrect == Spec => []PropagatedWasPublished
<1>1. Init => PublishedInv
  BY InitPublished
<1>2. Typed /\ Typed' /\ PublishedInv /\ [Next]_vars => PublishedInv'
  BY NextPublished
<1>3. PublishedInv => PropagatedWasPublished
  BY DEF PublishedInv
<1> QED BY <1>1, <1>2, <1>3, AlwaysTyped, PTL DEF Spec

-----------------------------------------------------------------------------
(* A revocation that was told stays told.                                  *)

RowStays == told.row => revocations # <<>>

LEMMA RowsStay ==
  ASSUME Typed, Typed', [Next]_vars, revocations # <<>>
  PROVE  revocations' # <<>>
<1>1. RequestsOK /\ RevocationsOK /\ RevocationsOK' /\ \A r \in Requests : req[r] \in Req /\ Fits(req[r])
  BY DEF Typed, RequestsOK
<1>2. ASSUME NEW r \in Requests, RevokeRow(r) PROVE revocations' # <<>>
  <2>1. DOMAIN revocations' # {}
    BY <1>1, <1>2, AppendOK DEF RevokeRow, Fits, Req
  <2> QED BY <2>1
<1>3. ASSUME NEW r \in Requests, MarkPropagated(r) PROVE revocations' # <<>>
  <2>1. DOMAIN revocations' = DOMAIN revocations
    BY <1>3 DEF MarkPropagated
  <2>2. Len(revocations) \in Nat \ {0}
    BY <1>1, EmptySeq DEF RevocationsOK
  <2>3. 1 \in DOMAIN revocations
    BY <1>1, <2>2, LenProperties DEF RevocationsOK
  <2> QED BY <2>1, <2>3
<1>4. ASSUME NEW r \in Requests, RevokeVersion(r) \/ BuildAndSign(r) PROVE revocations' # <<>>
  BY <1>4 DEF RevokeVersion, BuildAndSign, revocationVars
<1>5. CASE \A r \in Requests : ~ (\/ RevokeVersion(r) \/ RevokeRow(r)
                                  \/ BuildAndSign(r) \/ MarkPropagated(r))
  BY <1>5, OtherSteps DEF revocationVars
<1> QED BY <1>2, <1>3, <1>4, <1>5

LEMMA ToldStays ==
  ASSUME [Next]_vars
  PROVE  ReceiveHeartbeat \/ UNCHANGED told
  BY DEF Next, vars, Issue, ExpireDueLicenses, NextDay, IntakeOfflineRequest, RenewRead,
         RenewWrite, RevokeRead, RevokeMark, RevokeVersion, RevokeRow, ActivateRead,
         ActivateCount, ActivateRow, ActivateStatus, IssueRead, RejectRead, IssueActivation,
         IssueCertificate, IssueFulfil, RejectWrite, BuildAndSign, MarkPropagated, Fail

LEMMA NextRow ==
  ASSUME Typed, Typed', [Next]_vars, RowStays
  PROVE  /\ RowStays'
         /\ told.answer = "revoked" /\ told.row => told'.answer = "revoked"
<1>1. CASE ReceiveHeartbeat
  <2>1. /\ told'.row = (revocations # <<>>) /\ revocations' = revocations
        /\ told'.answer = Answer
    BY <1>1 DEF ReceiveHeartbeat, revocationVars
  <2>2. revocations # <<>> => Answer = "revoked"
    BY DEF Answer
  <2> QED BY <2>1, <2>2 DEF RowStays
<1>2. CASE UNCHANGED told
  BY <1>2, RowsStay DEF RowStays
<1> QED BY <1>1, <1>2, ToldStays

\* A deployment told of a revocation that has a row is told so for good,
\* whatever becomes of the status of the license (receiveHeartbeat).
THEOREM RevocationLasts == Spec => RevokedForGood
<1>1. Init => RowStays
  BY DEF Init, RowStays, NotTold
<1>2. Typed /\ Typed' /\ RowStays /\ [Next]_vars =>
        RowStays' /\ [told.answer = "revoked" /\ told.row => told'.answer = "revoked"]_vars
  BY NextRow
<1> QED BY <1>1, <1>2, AlwaysTyped, PTL DEF Spec, RevokedForGood

-----------------------------------------------------------------------------
(* The overrun.  A request counts once it has found a free slot: with the  *)
(* activations there are, those that have and have not created theirs are  *)
(* no more than the limit and the other requests.                          *)

Counted == {r \in Requests : req[r].step = "activate"}

OverrunInv ==
    /\ IsFiniteSet(activations)
    /\ Cardinality(online) + Cardinality(Counted) <= MaxDevices + Cardinality(Requests) - 1

LEMMA FiniteSets ==
  ASSUME Typed, IsFiniteSet(activations)
  PROVE  /\ IsFiniteSet(online) /\ Cardinality(online) \in Nat
         /\ Cardinality(online) <= Cardinality(activations)
         /\ Cardinality(activations) \in Nat
         /\ IsFiniteSet(Counted) /\ Cardinality(Counted) \in Nat
         /\ Cardinality(Counted) <= Cardinality(Requests)
         /\ Cardinality(Requests) \in Nat
<1>1. online \in SUBSET activations /\ Counted \in SUBSET Requests
  BY DEF Typed, ActivationsOK, Counted
<1>2. IsFiniteSet(online) /\ Cardinality(online) <= Cardinality(activations)
  BY <1>1, FS_Subset
<1>3. IsFiniteSet(Counted) /\ Cardinality(Counted) <= Cardinality(Requests)
  BY <1>1, FS_Subset, LicenseAssumption
<1> QED BY <1>2, <1>3, FS_CardinalityType, LicenseAssumption

LEMMA InitOverrun == Init => OverrunInv
<1> SUFFICES ASSUME Init PROVE OverrunInv
  OBVIOUS
<1>1. activations = {} /\ online = {} /\ Counted = {}
  BY DEF Init, Counted, Idle
<1>2. Cardinality(Requests) \in Nat
  BY FS_CardinalityType, LicenseAssumption
<1> QED BY <1>1, <1>2, FS_EmptySet, LicenseAssumption DEF OverrunInv

\* Fewer requests have counted, and no activation is new to the limit.
LEMMA NoOverrun ==
  ASSUME Typed, Typed', OverrunInv, IsFiniteSet(activations'),
         online' = online, Counted' \subseteq Counted
  PROVE  OverrunInv'
<1>1. /\ IsFiniteSet(Counted) /\ Cardinality(Counted) \in Nat
      /\ Cardinality(online) \in Nat /\ Cardinality(Requests) \in Nat
  BY FiniteSets DEF OverrunInv
<1>2. IsFiniteSet(Counted') /\ Cardinality(Counted') <= Cardinality(Counted)
  BY <1>1, FS_Subset
<1>3. Cardinality(Counted') \in Nat
  BY <1>2, FS_CardinalityType
<1> QED BY <1>1, <1>2, <1>3, LicenseAssumption DEF OverrunInv
LEMMA NextOverrun ==
  ASSUME Typed, Typed', OverrunInv, [Next]_vars
  PROVE  OverrunInv'
<1> USE LicenseAssumption
<1>1. /\ req \in [Requests -> Req] /\ \A r \in Requests : Fits(req[r])
      /\ online \subseteq activations /\ IsFiniteSet(activations)
  BY DEF Typed, RequestsOK, ActivationsOK, OverrunInv
<1>2. /\ IsFiniteSet(online) /\ Cardinality(online) \in Nat
      /\ Cardinality(online) <= Cardinality(activations)
      /\ Cardinality(activations) \in Nat
      /\ IsFiniteSet(Counted) /\ Cardinality(Counted) \in Nat
      /\ Cardinality(Counted) <= Cardinality(Requests)
      /\ Cardinality(Requests) \in Nat
  BY <1>1, FiniteSets
<1>3. ASSUME NEW r \in Requests, ActivateCount(r) PROVE OverrunInv'
  <2>1. UNCHANGED <<activations, online>>
    BY <1>3 DEF ActivateCount, activationVars
  <2>2. CASE Done(r)
    <3>1. Counted' \subseteq Counted
      BY <1>1, <2>2 DEF Done, Idle, Counted
    <3> QED BY <1>1, <2>1, <3>1, NoOverrun
  <2>3. CASE ~ Done(r)
    <3>1. ~ Cardinality(activations) >= MaxDevices
      BY <1>3, <2>3 DEF ActivateCount, Done
    <3>2. Cardinality(online) <= MaxDevices - 1
      BY <1>2, <3>1
    <3>3. Counted' \in SUBSET Requests
      BY DEF Counted
    <3>4. Cardinality(Counted') <= Cardinality(Requests) /\ Cardinality(Counted') \in Nat
      BY <3>3, FS_Subset, FS_CardinalityType
    <3> QED BY <1>1, <1>2, <2>1, <3>2, <3>4 DEF OverrunInv
  <2> QED BY <2>2, <2>3
<1>4. ASSUME NEW r \in Requests, ActivateRow(r) PROVE OverrunInv'
  <2>1. r \in Counted /\ Counted' = Counted \ {r}
    BY <1>1, <1>4 DEF ActivateRow, Counted, Idle, Req
  <2>2. Cardinality(Counted') = Cardinality(Counted) - 1
    BY <1>2, <2>1, FS_RemoveElement
  <2>3. /\ activations' = activations \cup {req[r].d}
        /\ online' \in {online, online \cup {req[r].d}}
    BY <1>4 DEF ActivateRow
  <2>4. IsFiniteSet(activations')
    BY <1>1, <2>3, FS_AddElement
  <2>5. Cardinality(online') \in Nat /\ Cardinality(online') <= Cardinality(online) + 1
    <3>1. Cardinality(online \cup {req[r].d}) \in {Cardinality(online), Cardinality(online) + 1}
      BY <1>2, FS_AddElement
    <3>2. CASE online' = online
      BY <1>2, <3>2
    <3>3. CASE online' = online \cup {req[r].d}
      <4>1. Cardinality(online') \in {Cardinality(online), Cardinality(online) + 1}
        BY <3>1, <3>3, Zenon
      <4> QED BY <1>2, <4>1
    <3> QED BY <2>3, <3>2, <3>3
  <2> QED BY <1>2, <2>2, <2>4, <2>5 DEF OverrunInv
<1>5. ASSUME NEW r \in Requests, IssueActivation(r) PROVE OverrunInv'
  <2>1. IsFiniteSet(activations') /\ online' = online
    BY <1>1, <1>5, FS_AddElement DEF IssueActivation
  <2>2. Counted' \subseteq Counted
    BY <1>1, <1>5 DEF IssueActivation, Counted, Req
  <2> QED BY <2>1, <2>2, NoOverrun
<1>6. ASSUME UNCHANGED <<activations, online>>,
             \A p \in Requests : req'[p].step = "activate" => req[p].step = "activate"
      PROVE  OverrunInv'
  <2>1. Counted' \subseteq Counted
    BY <1>6 DEF Counted
  <2> QED BY <1>1, <1>6, <2>1, NoOverrun
<1>7. CASE Issue \/ ExpireDueLicenses \/ NextDay \/ ReceiveHeartbeat \/ UNCHANGED vars
           \/ \E d \in Offline : IntakeOfflineRequest(d)
  BY <1>6, <1>7 DEF Issue, ExpireDueLicenses, NextDay, ReceiveHeartbeat, IntakeOfflineRequest,
              vars, activationVars
<1>8. ASSUME NEW r \in Requests, Done(r), UNCHANGED <<activations, online>> PROVE OverrunInv'
  BY <1>1, <1>6, <1>8 DEF Done, Idle
<1>9. ASSUME NEW r \in Requests,
             \/ RenewWrite(r) \/ ActivateStatus(r) \/ IssueFulfil(r) \/ RejectWrite(r) \/ Fail(r)
             \/ RevokeRow(r) \/ MarkPropagated(r)
      PROVE  OverrunInv'
  BY <1>8, <1>9 DEF RenewWrite, ActivateStatus, IssueFulfil, RejectWrite, Fail, RevokeRow,
                    MarkPropagated, activationVars
<1>10. ASSUME NEW r \in Requests, IssueCertificate(r) PROVE OverrunInv'
  <2>1. CASE Done(r)
    BY <1>8, <1>10, <2>1 DEF IssueCertificate
  <2>2. CASE req' = [req EXCEPT ![r].step = "fulfil"]
    <3>1. \A p \in Requests : req'[p].step = "activate" => req[p].step = "activate"
      BY <1>1, <2>2 DEF Req
    <3> QED BY <1>6, <1>10, <3>1 DEF IssueCertificate
  <2> QED BY <1>10, <2>1, <2>2 DEF IssueCertificate, Done
<1>11. ASSUME NEW r \in Requests, RevokeMark(r) \/ RevokeVersion(r) PROVE OverrunInv'
  <2>1. \A p \in Requests : req'[p].step = "activate" => req[p].step = "activate"
    BY <1>1, <1>11 DEF RevokeMark, RevokeVersion, Req
  <2> QED BY <1>6, <1>11, <2>1 DEF RevokeMark, RevokeVersion, activationVars
<1>12. ASSUME NEW r \in Requests, NEW q, q.step # "activate", req' = [req EXCEPT ![r] = q],
              UNCHANGED activationVars
       PROVE  OverrunInv'
  BY <1>1, <1>6, <1>12 DEF activationVars
<1>13. ASSUME NEW r \in Requests, RenewRead(r) PROVE OverrunInv'
  <2>1. [Idle EXCEPT !.step = "renew", !.read = license].step # "activate"
    BY DEF Idle
  <2> QED BY <1>12, <1>13, <2>1 DEF RenewRead
<1>14. ASSUME NEW r \in Requests, RevokeRead(r) PROVE OverrunInv'
  <2>1. [Idle EXCEPT !.step = "revoke"].step # "activate"
    BY DEF Idle
  <2> QED BY <1>12, <1>14, <2>1 DEF RevokeRead
<1>15. ASSUME NEW r \in Requests, BuildAndSign(r) PROVE OverrunInv'
  <2>1. [Idle EXCEPT !.step = "mark", !.version = MaxVersion].step # "activate"
    BY DEF Idle
  <2> QED BY <1>12, <1>15, <2>1 DEF BuildAndSign
<1>16. ASSUME NEW r \in Requests, NEW d \in Deployments, ActivateRead(r, d) PROVE OverrunInv'
  <2>1. [Idle EXCEPT !.step = "count", !.read = license, !.d = d].step # "activate"
    BY DEF Idle
  <2> QED BY <1>12, <1>16, <2>1 DEF ActivateRead
<1>17. ASSUME NEW r \in Requests, NEW d \in Offline, IssueRead(r, d) \/ RejectRead(r, d)
       PROVE  OverrunInv'
  <2>1. \A s \in {"upsert", "reject"} : [Idle EXCEPT !.step = s, !.d = d].step # "activate"
    BY DEF Idle
  <2> QED BY <1>12, <1>17, <2>1 DEF IssueRead, RejectRead
<1> QED BY <1>3, <1>4, <1>5, <1>7, <1>9, <1>10, <1>11, <1>13, <1>14, <1>15, <1>16, <1>17
        DEF Next

\* Activations by code exceed the limit by less than the requests at a time,
\* for any limit and any number of them (activateOnline).
THEOREM OverrunCorrect == Spec => []OverrunBounded
<1>1. Init => OverrunInv
  BY InitOverrun
<1>2. Typed /\ Typed' /\ OverrunInv /\ [Next]_vars => OverrunInv'
  BY NextOverrun
<1>3. Typed /\ OverrunInv => OverrunBounded
  BY FiniteSets, LicenseAssumption DEF OverrunInv, OverrunBounded
<1> QED BY <1>1, <1>2, <1>3, AlwaysTyped, PTL DEF Spec

-----------------------------------------------------------------------------
(* The row.                                                                *)

\* A license that was issued stays issued.  What a renewal has read of the end
\* date was counted, and is the end date while nothing overlaps.
RowInv ==
    /\ license.status = "none" => license = NoLicense
    /\ \A r \in Requests :
          req[r].step \in {"renew", "revoke", "count", "activate", "status"} =>
              license.status # "none"
    /\ \A r \in Requests : req[r].step = "renew" =>
          /\ req[r].read.status # "none"
          /\ req[r].read.end <= FirstEnd + license.renewals
          /\ ~ overlap => req[r].read.end = license.end
    /\ RenewedAsCounted

\* Requests that have not overlapped are one at a time.
Serial == ~ overlap => \A p, q \in Requests : req[p] # Idle /\ req[q] # Idle => p = q

\* The offline requests whatever happens: the certificate is created after the
\* activation and before the status.
OfflineInv ==
    /\ \A d \in Offline : offline[d] = "fulfilled" => d \in certificates /\ d \in activations
    /\ \A r \in Requests :
          /\ req[r].step \in {"certificate", "fulfil"} => req[r].d \in activations
          /\ req[r].step = "fulfil" => req[r].d \in certificates

Calm == ~ overlap /\ failures = 0

\* While requests come one after the other and none dies: revoke is the only
\* one that finds the license not revoked and leaves it otherwise, and it ends
\* with the row.
RevokedInv ==
    Calm =>
      /\ \A r \in Requests :
            /\ req[r].step \in {"renew", "revoke", "count", "activate", "status"} =>
                  license.status # "revoked" /\ revocations = <<>>
            /\ req[r].step = "renew" => req[r].read.status # "revoked"
            /\ req[r].step \in {"version", "row"} =>
                  license.status = "revoked" /\ revocations = <<>>
      /\ (\A r \in Requests : req[r].step \notin {"version", "row"}) =>
            (license.status = "revoked" <=> revocations # <<>>)

\* Likewise, a certificate is followed by the status, and no request that has
\* one is rejected.
CertifiedInv ==
    Calm =>
      /\ \A r \in Requests : req[r].step = "reject" => req[r].d \notin certificates
      /\ \A d \in certificates :
            offline[d] = "fulfilled" \/ \E r \in Requests : req[r].step = "fulfil" /\ req[r].d = d

-----------------------------------------------------------------------------
\* A step is that of one slot: it begins a request, or goes on with one.
Begins(r) ==
    /\ req[r] = Idle
    /\ overlap' = (overlap \/ \E q \in Requests : req[q] # Idle)
    /\ UNCHANGED failures

GoesOn(r) ==
    /\ req[r] # Idle
    /\ UNCHANGED overlap
    /\ failures' \in {failures, failures + 1}

StepOf(r) ==
    /\ Begins(r) \/ GoesOn(r)
    /\ \A p \in Requests \ {r} : req'[p] = req[p]

LEMMA Slots ==
  ASSUME Typed, [Next]_vars
  PROVE  \/ UNCHANGED <<req, overlap, failures>>
         \/ \E r \in Requests : StepOf(r)
<1>1. req \in [Requests -> Req] /\ Idle.step = "idle"
  BY DEF Typed, RequestsOK, Idle
<1>2. CASE Issue \/ ExpireDueLicenses \/ NextDay \/ ReceiveHeartbeat \/ UNCHANGED vars
           \/ \E d \in Offline : IntakeOfflineRequest(d)
  BY <1>2 DEF Issue, ExpireDueLicenses, NextDay, ReceiveHeartbeat, IntakeOfflineRequest, vars,
              countVars
<1>3. ASSUME NEW r \in Requests,
             \/ RenewRead(r) \/ RevokeRead(r) \/ BuildAndSign(r)
             \/ \E d \in Deployments : ActivateRead(r, d)
             \/ \E d \in Offline : IssueRead(r, d) \/ RejectRead(r, d)
      PROVE  StepOf(r)
  <2>1. Begins(r)
    BY <1>3 DEF RenewRead, RevokeRead, BuildAndSign, ActivateRead, IssueRead, RejectRead, Begin,
                Begins
  <2>2. PICK q : req' = [req EXCEPT ![r] = q]
    BY <1>3 DEF RenewRead, RevokeRead, BuildAndSign, ActivateRead, IssueRead, RejectRead
  <2> QED BY <1>1, <2>1, <2>2 DEF StepOf
<1>4. ASSUME NEW r \in Requests, Done(r), req[r].step # "idle", UNCHANGED overlap,
             failures' \in {failures, failures + 1}
      PROVE  StepOf(r)
  BY <1>1, <1>4 DEF Done, StepOf, GoesOn
<1>5. ASSUME NEW r \in Requests,
             \/ RenewWrite(r) \/ RevokeRow(r) \/ ActivateStatus(r) \/ IssueFulfil(r)
             \/ RejectWrite(r) \/ MarkPropagated(r)
      PROVE  StepOf(r)
  BY <1>4, <1>5 DEF RenewWrite, RevokeRow, ActivateStatus, IssueFulfil, RejectWrite,
                    MarkPropagated, countVars
<1>6. ASSUME NEW r \in Requests, Fail(r) PROVE StepOf(r)
  BY <1>1, <1>6 DEF Fail, Done, StepOf, GoesOn
<1>7. ASSUME NEW r \in Requests, RevokeMark(r) \/ RevokeVersion(r) \/ IssueActivation(r)
      PROVE  StepOf(r)
  BY <1>1, <1>7 DEF RevokeMark, RevokeVersion, IssueActivation, StepOf, GoesOn, countVars
<1>8. ASSUME NEW r \in Requests, ActivateCount(r) PROVE StepOf(r)
  BY <1>1, <1>8 DEF ActivateCount, StepOf, GoesOn, countVars
<1>9. ASSUME NEW r \in Requests, ActivateRow(r) \/ IssueCertificate(r) PROVE StepOf(r)
  BY <1>1, <1>9 DEF ActivateRow, IssueCertificate, StepOf, GoesOn, countVars
<1> QED BY <1>2, <1>3, <1>5, <1>6, <1>7, <1>8, <1>9 DEF Next

LEMMA SerialStays ==
  ASSUME Typed, Serial, [Next]_vars
  PROVE  Serial'
  BY Slots DEF Serial, StepOf, Begins, GoesOn

\* What was calm until now has been calm all the time.
LEMMA CalmBefore ==
  ASSUME Typed, [Next]_vars
  PROVE  (~ overlap' => ~ overlap) /\ (Calm' => Calm)
<1>1. failures \in Nat
  BY LicenseAssumption DEF Typed, CountsOK
<1>2. overlap => overlap'
  BY Slots, Zenon DEF StepOf, Begins, GoesOn
<1>3. failures' = 0 => failures = 0
  <2>1. failures' \in {failures, failures + 1}
    BY Slots DEF StepOf, Begins, GoesOn
  <2> QED BY <1>1, <2>1
<1> QED BY <1>2, <1>3, Zenon DEF Calm

\* While nothing overlaps, the slots beside the one that moves are idle.
LEMMA Alone ==
  ASSUME Typed, Serial, [Next]_vars, ~ overlap', NEW r \in Requests, req'[r] # req[r]
  PROVE  \A p \in Requests \ {r} : req[p] = Idle /\ req'[p] = Idle
<1>1. PICK s \in Requests : StepOf(s)
  BY Slots
<1>2. s = r
  BY <1>1 DEF StepOf
<1> QED BY <1>1, <1>2, CalmBefore DEF StepOf, Begins, GoesOn, Serial

THEOREM SerialHolds == Spec => []Serial
<1>1. Init => Serial
  BY DEF Init, Serial
<1>2. Typed /\ Serial /\ [Next]_vars => Serial'
  BY SerialStays
<1> QED BY <1>1, <1>2, AlwaysTyped, PTL DEF Spec

-----------------------------------------------------------------------------
LEMMA InitRevoked == Init => RevokedInv
  BY DEF Init, RevokedInv, Idle, NoLicense

LEMMA NextRevoked ==
  ASSUME Typed, Typed', Serial, RevokedInv, [Next]_vars
  PROVE  RevokedInv'
<1> SUFFICES ASSUME Calm' PROVE RevokedInv'
  BY DEF RevokedInv
<1> USE DEF revocationVars
<1>1. req \in [Requests -> Req] /\ Idle.step = "idle" /\ RevocationsOK
  BY DEF Typed, RequestsOK, Idle
<1>2. Calm /\ ~ overlap'
  BY CalmBefore DEF Calm
<1>3. /\ \A r \in Requests :
            /\ req[r].step \in {"renew", "revoke", "count", "activate", "status"} =>
                  license.status # "revoked" /\ revocations = <<>>
            /\ req[r].step = "renew" => req[r].read.status # "revoked"
            /\ req[r].step \in {"version", "row"} =>
                  license.status = "revoked" /\ revocations = <<>>
      /\ (\A r \in Requests : req[r].step \notin {"version", "row"}) =>
            (license.status = "revoked" <=> revocations # <<>>)
  BY <1>2 DEF RevokedInv
<1>4. ASSUME UNCHANGED <<req, revocations>>,
             license'.status = "revoked" <=> license.status = "revoked"
      PROVE  RevokedInv'
  BY <1>3, <1>4 DEF RevokedInv
<1>5. CASE Issue \/ ExpireDueLicenses \/ NextDay \/ ReceiveHeartbeat \/ UNCHANGED vars
           \/ \E d \in Offline : IntakeOfflineRequest(d)
  <2>1. UNCHANGED <<req, revocations>>
    BY <1>5 DEF Issue, ExpireDueLicenses, NextDay, ReceiveHeartbeat, IntakeOfflineRequest, vars
  <2>2. license'.status = "revoked" <=> license.status = "revoked"
    <3>1. license \in Row
      BY DEF Typed
    <3> QED BY <1>5, <3>1 DEF Issue, ExpireDueLicenses, NextDay, ReceiveHeartbeat, vars,
            IntakeOfflineRequest, NoLicense, Live, Row
  <2> QED BY <1>4, <2>1, <2>2
<1>6. ASSUME NEW r \in Requests,
             RenewRead(r) \/ RevokeRead(r) \/ \E d \in Deployments : ActivateRead(r, d)
      PROVE  RevokedInv'
  <2>1. /\ req'[r].step \in {"renew", "revoke", "count"}
        /\ req'[r].step = "renew" => req'[r].read = license
        /\ req[r] = Idle /\ license.status # "revoked" /\ UNCHANGED <<license, revocations>>
    BY <1>1, <1>6 DEF RenewRead, RevokeRead, ActivateRead, Begin, Idle
  <2>2. \A p \in Requests \ {r} : req[p] = Idle /\ req'[p] = Idle
    BY <1>1, <1>2, <2>1, Alone
  <2> QED BY <1>1, <1>3, <2>1, <2>2 DEF RevokedInv
<1>7. ASSUME NEW r \in Requests, req[r].step \notin {"version", "row"}, req'[r] # req[r],
             req'[r].step \in {"upsert", "reject", "mark", "certificate", "fulfil", "idle"},
             UNCHANGED license, revocations' = <<>> <=> revocations = <<>>
      PROVE  RevokedInv'
  <2>1. \A p \in Requests \ {r} : req[p] = Idle /\ req'[p] = Idle
    BY <1>2, <1>7, Alone
  <2> QED BY <1>1, <1>3, <1>7, <2>1 DEF RevokedInv
<1>8. ASSUME NEW r \in Requests,
             BuildAndSign(r) \/ \E d \in Offline : IssueRead(r, d) \/ RejectRead(r, d)
      PROVE  RevokedInv'
  <2>1. /\ req'[r].step \in {"upsert", "reject", "mark"} /\ req[r] = Idle
        /\ UNCHANGED <<license, revocations>>
    BY <1>1, <1>8 DEF BuildAndSign, IssueRead, RejectRead, Begin, Idle
  <2> QED BY <1>1, <1>7, <2>1
<1>9. ASSUME NEW r \in Requests,
             IssueActivation(r) \/ IssueCertificate(r) \/ IssueFulfil(r) \/ RejectWrite(r)
      PROVE  RevokedInv'
  <2>1. /\ req[r].step \in {"upsert", "certificate", "fulfil", "reject"}
        /\ UNCHANGED <<license, revocations>>
    BY <1>9 DEF IssueActivation, IssueCertificate, IssueFulfil, RejectWrite
  <2>2. req'[r].step \in {"certificate", "fulfil", "idle"}
    BY <1>1, <1>9 DEF IssueActivation, IssueCertificate, IssueFulfil, RejectWrite, Done, Req
  <2>3. req'[r] # req[r]
    BY <1>1, <1>9, <2>1 DEF IssueActivation, IssueCertificate, IssueFulfil, RejectWrite, Done, Req
  <2> QED BY <1>7, <2>1, <2>2, <2>3
<1>10. ASSUME NEW r \in Requests, MarkPropagated(r) PROVE RevokedInv'
  <2>1. req[r].step = "mark" /\ req'[r] = Idle /\ license' = license
    BY <1>1, <1>10 DEF MarkPropagated, Done
  <2>2. DOMAIN revocations' = DOMAIN revocations
    BY <1>10 DEF MarkPropagated
  <2>3. revocations \in Seq(Revocation) /\ revocations' \in Seq(Revocation)
    BY DEF Typed, RevocationsOK
  <2>4. revocations' = <<>> <=> revocations = <<>>
    <3>1. DOMAIN revocations = 1 .. Len(revocations) /\ Len(revocations) \in Nat
      BY <2>3
    <3>2. DOMAIN revocations' = 1 .. Len(revocations') /\ Len(revocations') \in Nat
      BY <2>3
    <3>3. Len(revocations) = 0 <=> Len(revocations') = 0
      BY <2>2, <3>1, <3>2
    <3> QED BY <2>3, <3>3, EmptySeq
  <2> QED BY <1>1, <1>7, <2>1, <2>4
<1>11. ASSUME NEW r \in Requests, RenewWrite(r) \/ ActivateStatus(r) PROVE RevokedInv'
  <2>1. /\ req[r].step \in {"renew", "status"} /\ req'[r] = Idle /\ revocations' = revocations
        /\ license'.status # "revoked"
    BY <1>1, <1>3, <1>11 DEF RenewWrite, ActivateStatus, Done, Typed, Row
  <2>2. \A p \in Requests \ {r} : req[p] = Idle /\ req'[p] = Idle
    BY <1>1, <1>2, <2>1, Alone
  <2> QED BY <1>1, <1>3, <2>1, <2>2 DEF RevokedInv
<1>12. ASSUME NEW r \in Requests, RevokeMark(r) \/ RevokeVersion(r) PROVE RevokedInv'
  <2>1. /\ req[r].step \in {"revoke", "version"} /\ req'[r].step \in {"version", "row"}
        /\ req'[r].step # req[r].step /\ revocations' = revocations
        /\ license'.status = "revoked"
    BY <1>1, <1>3, <1>12 DEF RevokeMark, RevokeVersion, Typed, Row, Req
  <2>2. \A p \in Requests \ {r} : req[p] = Idle /\ req'[p] = Idle
    BY <1>1, <1>2, <2>1, Alone
  <2> QED BY <1>1, <1>3, <2>1, <2>2 DEF RevokedInv
<1>13. ASSUME NEW r \in Requests, RevokeRow(r) PROVE RevokedInv'
  <2>1. req[r].step = "row" /\ req'[r] = Idle /\ license' = license
    BY <1>1, <1>13 DEF RevokeRow, Done
  <2>2. revocations' # <<>>
    <3>1. Fits(req[r]) /\ req[r].version \in Nat
      BY <1>1 DEF Typed, RequestsOK, Req
    <3>2. Len(revocations) + 1 \in DOMAIN revocations'
      BY <1>1, <1>13, <2>1, <3>1, AppendOK DEF RevokeRow, Fits
    <3> QED BY <3>2
  <2>3. \A p \in Requests \ {r} : req[p] = Idle /\ req'[p] = Idle
    BY <1>1, <1>2, <2>1, Alone
  <2> QED BY <1>1, <1>3, <2>1, <2>2, <2>3 DEF RevokedInv
<1>14. ASSUME NEW r \in Requests, ActivateCount(r) \/ ActivateRow(r) PROVE RevokedInv'
  <2>1. req[r].step \in {"count", "activate"} /\ UNCHANGED <<license, revocations>>
    BY <1>14 DEF ActivateCount, ActivateRow
  <2>2. req'[r].step \in {"activate", "status", "idle"} /\ req'[r].step # req[r].step
    <3>1. CASE ActivateCount(r)
      BY <1>1, <3>1 DEF ActivateCount, Req
    <3>2. CASE ActivateRow(r)
      BY <1>1, <3>2 DEF ActivateRow, Req
    <3> QED BY <1>14, <3>1, <3>2
  <2>3. \A p \in Requests \ {r} : req[p] = Idle /\ req'[p] = Idle
    BY <1>2, <2>2, Alone
  <2> QED BY <1>1, <1>3, <2>1, <2>2, <2>3 DEF RevokedInv
<1>15. ASSUME NEW r \in Requests, Fail(r) PROVE FALSE
  BY <1>2, <1>15 DEF Fail, Calm
<1> QED BY <1>5, <1>6, <1>8, <1>9, <1>10, <1>11, <1>12, <1>13, <1>14, <1>15 DEF Next

\* Outside of a request, a license is revoked just when the revocation list has
\* a row for it, as long as requests came one after the other and none died
\* (revoke).
THEOREM RevokedIsListed == Spec => []RevokedIffListed
<1>1. Typed /\ Serial /\ RevokedInv /\ [Next]_vars /\ Typed' => RevokedInv'
  BY NextRevoked
<1>2. RevokedInv => RevokedIffListed
  BY DEF RevokedInv, RevokedIffListed, Quiet, Calm, Idle
<1> QED BY <1>1, <1>2, InitRevoked, AlwaysTyped, SerialHolds, PTL DEF Spec

-----------------------------------------------------------------------------
LEMMA InitRow == Init => RowInv
  BY DEF Init, RowInv, RenewedAsCounted, Idle, NoLicense

\* The row stays and the request that moves is not at a write of it, or begins.
LEMMA RowKept ==
  ASSUME Typed, RowInv, [Next]_vars, license' = license,
         \A r \in Requests :
            \/ req'[r] = req[r]
            \/ req'[r].step \notin {"renew", "revoke", "count", "activate", "status"}
            \/ /\ license.status # "none"
               /\ req'[r].step = "renew" => req'[r].read = license
  PROVE  RowInv'
<1>1. license \in Row /\ FirstEnd \in Nat
  BY LicenseAssumption DEF Typed
<1>2. ~ overlap' => ~ overlap
  BY CalmBefore
<1>3. RenewedAsCounted'
  BY <1>2 DEF RowInv, RenewedAsCounted
<1>4. \A r \in Requests :
          req'[r].step \in {"renew", "revoke", "count", "activate", "status"} =>
              license.status # "none"
  BY DEF RowInv
<1>5. ASSUME NEW r \in Requests, req'[r].step = "renew"
      PROVE  /\ req'[r].read.status # "none"
             /\ req'[r].read.end <= FirstEnd + license.renewals
             /\ ~ overlap' => req'[r].read.end = license.end
  <2>1. CASE req'[r] = req[r]
    BY <1>2, <1>5, <2>1 DEF RowInv
  <2>2. CASE license.status # "none" /\ req'[r].read = license
    <3>1. license # NoLicense
      BY <2>2 DEF NoLicense
    <3> QED BY <2>2, <3>1 DEF RowInv, RenewedAsCounted
  <2> QED BY <1>5, <2>1, <2>2
<1> QED BY <1>3, <1>4, <1>5 DEF RowInv

LEMMA NextRowInv ==
  ASSUME Typed, Typed', Serial, RowInv, [Next]_vars
  PROVE  RowInv'
<1> USE DEF revocationVars
<1>1. /\ req \in [Requests -> Req] /\ Idle.step = "idle"
      /\ license \in Row /\ FirstEnd \in Nat
  BY LicenseAssumption DEF Typed, RequestsOK, Idle
<1>2. ~ overlap' => ~ overlap
  BY CalmBefore
<1>3. CASE Issue
  <2>1. license' = [status |-> "pending_activation", end |-> FirstEnd, renewals |-> 0]
    BY <1>3 DEF Issue
  <2>2. req' = req /\ license.status = "none"
    BY <1>3 DEF Issue, NoLicense
  <2> QED BY <1>1, <2>1, <2>2 DEF RowInv, RenewedAsCounted, NoLicense
<1>4. ASSUME NEW s \in Statuses \ {"none"}, license' = [license EXCEPT !.status = s],
             license.status # "none",
             \A r \in Requests : req'[r] = req[r] \/ req'[r].step \in {"idle", "version"}
      PROVE  RowInv'
  <2>1. license'.end = license.end /\ license'.renewals = license.renewals /\ license'.status = s
    BY <1>1, <1>4 DEF Row
  <2>2. license # NoLicense /\ license' # NoLicense
    BY <1>4, <2>1 DEF NoLicense
  <2> QED BY <1>2, <1>4, <2>1, <2>2 DEF RowInv, RenewedAsCounted
<1>5. CASE ExpireDueLicenses
  BY <1>4, <1>5 DEF ExpireDueLicenses, Live, Statuses
<1>6. CASE NextDay \/ ReceiveHeartbeat \/ UNCHANGED vars \/ \E d \in Offline : IntakeOfflineRequest(d)
  BY <1>6, RowKept DEF NextDay, ReceiveHeartbeat, vars, IntakeOfflineRequest
<1>7. ASSUME NEW r \in Requests,
             \/ RenewRead(r) \/ RevokeRead(r) \/ BuildAndSign(r)
             \/ \E d \in Deployments : ActivateRead(r, d)
             \/ \E d \in Offline : IssueRead(r, d) \/ RejectRead(r, d)
      PROVE  RowInv'
  <2>1. /\ license' = license
        /\ \/ req'[r].step \in {"upsert", "reject", "mark"}
           \/ license.status # "none" /\ (req'[r].step = "renew" => req'[r].read = license)
    BY <1>1, <1>7 DEF RenewRead, RevokeRead, BuildAndSign, ActivateRead, IssueRead, RejectRead,
                      Begin, Idle
  <2>2. \A p \in Requests \ {r} : req'[p] = req[p]
    BY <1>1, <1>7 DEF RenewRead, RevokeRead, BuildAndSign, ActivateRead, IssueRead, RejectRead
  <2> QED BY <2>1, <2>2, RowKept
<1>8. ASSUME NEW r \in Requests, RenewWrite(r) PROVE RowInv'
  <2> DEFINE read == req[r].read
  <2>1. /\ read \in Row /\ read.status # "none" /\ read.end <= FirstEnd + license.renewals
        /\ ~ overlap => read.end = license.end
        /\ license.status # "none" /\ license # NoLicense
    BY <1>1, <1>8 DEF RenewWrite, RowInv, Req, NoLicense
  <2>2. /\ license'.end = read.end + 1 /\ license'.renewals = license.renewals + 1
        /\ license'.status # "none" /\ license' # NoLicense
        /\ req[r].step = "renew" /\ req'[r] = Idle /\ overlap' = overlap
    BY <1>1, <1>8, <2>1 DEF RenewWrite, Done, countVars, NoLicense
  <2>3. \A p \in Requests \ {r} : req'[p] = req[p]
    BY <1>1, <1>8 DEF RenewWrite, Done
  <2>4. ~ overlap' => \A p \in Requests \ {r} : req'[p] = Idle
    BY <1>1, <2>2, Alone
  <2> HIDE DEF read
  <2>5. license.renewals \in Nat /\ license.end \in Nat /\ read.end \in Nat
    BY <1>1, <2>1 DEF Row
  <2>6. RenewedAsCounted'
    <3>1. license'.end <= FirstEnd + license'.renewals
      BY <1>1, <2>1, <2>2, <2>5
    <3>2. ~ overlap' => license'.end = FirstEnd + license'.renewals
      <4>1. ~ overlap' => license.end = FirstEnd + license.renewals /\ read.end = license.end
        BY <1>2, <2>1 DEF RowInv, RenewedAsCounted
      <4> QED BY <1>1, <2>2, <2>5, <4>1
    <3> QED BY <3>1, <3>2 DEF RenewedAsCounted
  <2>7. ASSUME NEW p \in Requests, req'[p].step = "renew"
        PROVE  /\ req'[p].read.status # "none"
               /\ req'[p].read.end <= FirstEnd + license'.renewals
               /\ ~ overlap' => req'[p].read.end = license'.end
    <3>1. p # r /\ req'[p] = req[p]
      BY <1>1, <2>2, <2>3, <2>7
    <3>2. req[p].read.end \in Nat
      BY <1>1 DEF Req, Row
    <3>3. /\ req[p].read.status # "none"
          /\ req[p].read.end <= FirstEnd + license.renewals
      BY <2>7, <3>1 DEF RowInv
    <3>4. ~ overlap' => FALSE
      BY <1>1, <2>4, <2>7, <3>1
    <3> QED BY <1>1, <2>2, <2>5, <3>1, <3>2, <3>3, <3>4
  <2> QED BY <2>2, <2>6, <2>7 DEF RowInv
<1>9. ASSUME NEW r \in Requests, RevokeMark(r) \/ ActivateStatus(r) PROVE RowInv'
  <2>1. /\ license.status # "none"
        /\ \E s \in {"revoked", "active"} : license' = [license EXCEPT !.status = s]
    BY <1>9 DEF RevokeMark, ActivateStatus, RowInv
  <2>2. \A p \in Requests : req'[p] = req[p] \/ req'[p].step \in {"idle", "version"}
    BY <1>1, <1>9 DEF RevokeMark, ActivateStatus, Done, Req
  <2> QED BY <1>4, <2>1, <2>2 DEF Statuses
<1>10. ASSUME NEW r \in Requests,
              \/ RevokeVersion(r) \/ RevokeRow(r) \/ MarkPropagated(r) \/ Fail(r)
              \/ IssueActivation(r) \/ IssueCertificate(r) \/ IssueFulfil(r) \/ RejectWrite(r)
       PROVE  RowInv'
  <2>1. license' = license
    BY <1>10 DEF RevokeVersion, RevokeRow, MarkPropagated, Fail, IssueActivation,
                 IssueCertificate, IssueFulfil, RejectWrite
  <2>2. \A p \in Requests :
           req'[p] = req[p] \/ req'[p].step \in {"idle", "row", "certificate", "fulfil"}
    BY <1>1, <1>10 DEF RevokeVersion, RevokeRow, MarkPropagated, Fail, IssueActivation,
                       IssueCertificate, IssueFulfil, RejectWrite, Done, Req
  <2> QED BY <2>1, <2>2, RowKept
<1>11. ASSUME NEW r \in Requests, ActivateCount(r) \/ ActivateRow(r) PROVE RowInv'
  <2>1. license' = license /\ license.status # "none"
    BY <1>11 DEF ActivateCount, ActivateRow, RowInv
  <2>2. \A p \in Requests \ {r} : req'[p] = req[p]
    BY <1>1, <1>11 DEF ActivateCount, ActivateRow
  <2>3. req'[r].step \in {"idle", "activate", "status"}
    <3>1. CASE ActivateCount(r)
      BY <1>1, <3>1 DEF ActivateCount, Req
    <3>2. CASE ActivateRow(r)
      BY <1>1, <3>2 DEF ActivateRow, Req
    <3> QED BY <1>11, <3>1, <3>2
  <2> QED BY <2>1, <2>2, <2>3, RowKept
<1> QED BY <1>3, <1>5, <1>6, <1>7, <1>8, <1>9, <1>10, <1>11 DEF Next

\* The end date has moved on by no more periods than renewals were counted, and
\* by all of them while requests do not overlap (renew).
THEOREM RenewalsCounted == Spec => []RenewedAsCounted
<1>1. Typed /\ Serial /\ RowInv /\ [Next]_vars /\ Typed' => RowInv'
  BY NextRowInv
<1>2. RowInv => RenewedAsCounted
  BY DEF RowInv
<1> QED BY <1>1, <1>2, InitRow, AlwaysTyped, SerialHolds, PTL DEF Spec

-----------------------------------------------------------------------------
CertificateInv == OfflineInv /\ CertifiedInv

LEMMA InitCertificate == Init => CertificateInv
  BY DEF Init, CertificateInv, OfflineInv, CertifiedInv, Idle

\* A step that is not one of an offline request.
LEMMA CertificatesKept ==
  ASSUME Typed, CertificateInv, [Next]_vars, UNCHANGED <<offline, certificates>>,
         activations \subseteq activations',
         \A r \in Requests :
            \/ req'[r] = req[r]
            \/ /\ req[r].step # "fulfil" \/ ~ Calm'
               /\ req'[r].step \notin {"reject", "certificate", "fulfil"}
  PROVE  CertificateInv'
<1>1. Calm' => Calm
  BY CalmBefore
<1> QED BY <1>1 DEF CertificateInv, OfflineInv, CertifiedInv

LEMMA NextCertificate ==
  ASSUME Typed, Serial, CertificateInv, [Next]_vars
  PROVE  CertificateInv'
<1> USE DEF activationVars
<1>1. /\ req \in [Requests -> Req] /\ Idle.step = "idle"
      /\ \A r \in Requests : Fits(req[r])
      /\ offline \in [Offline -> {"none", "pending", "fulfilled", "rejected"}]
      /\ certificates \subseteq Offline
  BY DEF Typed, RequestsOK, ActivationsOK, Idle
<1>2. (Calm' => Calm) /\ (Calm' => ~ overlap')
  BY CalmBefore DEF Calm
<1>3. CASE Issue \/ ExpireDueLicenses \/ NextDay \/ ReceiveHeartbeat \/ UNCHANGED vars
  BY <1>3, CertificatesKept DEF Issue, ExpireDueLicenses, NextDay, ReceiveHeartbeat, vars
<1>4. ASSUME NEW d \in Offline, IntakeOfflineRequest(d) PROVE CertificateInv'
  <2>1. /\ offline[d] = "none" /\ offline' = [offline EXCEPT ![d] = "pending"]
        /\ UNCHANGED <<activations, certificates, req>>
    BY <1>4 DEF IntakeOfflineRequest
  <2> QED BY <1>1, <1>2, <2>1 DEF CertificateInv, OfflineInv, CertifiedInv
<1>5. ASSUME NEW r \in Requests,
             \/ RenewRead(r) \/ RevokeRead(r) \/ BuildAndSign(r)
             \/ \E d \in Deployments : ActivateRead(r, d)
             \/ \E d \in Offline : IssueRead(r, d)
      PROVE  CertificateInv'
  <2>1. /\ UNCHANGED activationVars /\ req[r] = Idle
        /\ req'[r].step \in {"renew", "revoke", "mark", "count", "upsert"}
    BY <1>1, <1>5 DEF RenewRead, RevokeRead, BuildAndSign, ActivateRead, IssueRead, Begin, Idle
  <2>2. \A p \in Requests \ {r} : req'[p] = req[p]
    BY <1>1, <1>5 DEF RenewRead, RevokeRead, BuildAndSign, ActivateRead, IssueRead
  <2> QED BY <1>1, <2>1, <2>2, CertificatesKept
<1>6. ASSUME NEW r \in Requests, NEW d \in Offline, RejectRead(r, d) PROVE CertificateInv'
  <2>1. /\ UNCHANGED activationVars /\ req[r] = Idle /\ offline[d] = "pending"
        /\ req'[r].step = "reject" /\ req'[r].d = d
    BY <1>1, <1>6 DEF RejectRead, Begin, Idle
  <2>2. \A p \in Requests \ {r} : req'[p] = req[p]
    BY <1>1, <1>6 DEF RejectRead
  <2>3. OfflineInv'
    BY <2>1, <2>2 DEF CertificateInv, OfflineInv
  <2>4. CertifiedInv'
    <3> SUFFICES ASSUME Calm' PROVE CertifiedInv'
      BY DEF CertifiedInv
    <3>1. \A p \in Requests \ {r} : req[p] = Idle /\ req'[p] = Idle
      BY <1>1, <1>2, <2>1, Alone
    <3>2. \A e \in certificates : offline[e] = "fulfilled"
      BY <1>1, <1>2, <2>1, <3>1 DEF CertificateInv, CertifiedInv
    <3> QED BY <1>1, <2>1, <3>1, <3>2 DEF CertifiedInv
  <2> QED BY <2>3, <2>4 DEF CertificateInv
<1>7. ASSUME NEW r \in Requests,
             \/ RenewWrite(r) \/ RevokeMark(r) \/ RevokeVersion(r) \/ RevokeRow(r)
             \/ ActivateStatus(r) \/ MarkPropagated(r)
      PROVE  CertificateInv'
  <2>1. UNCHANGED activationVars /\ req[r].step # "fulfil"
    BY <1>7 DEF RenewWrite, RevokeMark, RevokeVersion, RevokeRow, ActivateStatus, MarkPropagated
  <2>2. req'[r].step \in {"idle", "version", "row"} /\ \A p \in Requests \ {r} : req'[p] = req[p]
    BY <1>1, <1>7 DEF RenewWrite, RevokeMark, RevokeVersion, RevokeRow, ActivateStatus,
                      MarkPropagated, Done, Req
  <2> QED BY <2>1, <2>2, CertificatesKept
<1>8. ASSUME NEW r \in Requests, ActivateCount(r) \/ ActivateRow(r) PROVE CertificateInv'
  <2>1. /\ UNCHANGED <<offline, certificates>> /\ activations \subseteq activations'
        /\ req[r].step # "fulfil"
    BY <1>8 DEF ActivateCount, ActivateRow
  <2>2. \A p \in Requests \ {r} : req'[p] = req[p]
    BY <1>1, <1>8 DEF ActivateCount, ActivateRow
  <2>3. req'[r].step \in {"idle", "activate", "status"}
    <3>1. CASE ActivateCount(r)
      BY <1>1, <3>1 DEF ActivateCount, Req
    <3>2. CASE ActivateRow(r)
      BY <1>1, <3>2 DEF ActivateRow, Req
    <3> QED BY <1>8, <3>1, <3>2
  <2> QED BY <2>1, <2>2, <2>3, CertificatesKept
<1>9. ASSUME NEW r \in Requests, Fail(r) PROVE CertificateInv'
  <2>1. UNCHANGED activationVars /\ req'[r] = Idle /\ \A p \in Requests \ {r} : req'[p] = req[p]
    BY <1>1, <1>9 DEF Fail, Done
  <2>2. ~ Calm'
    BY LicenseAssumption, <1>9 DEF Fail, Calm, Typed, CountsOK
  <2> QED BY <1>1, <2>1, <2>2, CertificatesKept
<1>10. ASSUME NEW r \in Requests, IssueActivation(r) PROVE CertificateInv'
  <2>1. /\ activations' = activations \cup {req[r].d} /\ UNCHANGED <<offline, certificates>>
        /\ req[r].step = "upsert" /\ req'[r].step = "certificate" /\ req'[r].d = req[r].d
    BY <1>1, <1>10 DEF IssueActivation, Req
  <2>2. \A p \in Requests \ {r} : req'[p] = req[p]
    BY <1>1, <1>10 DEF IssueActivation
  <2> QED BY <1>2, <2>1, <2>2 DEF CertificateInv, OfflineInv, CertifiedInv
<1>11. ASSUME NEW r \in Requests, IssueCertificate(r) PROVE CertificateInv'
  <2>1. /\ UNCHANGED <<offline, activations>> /\ req[r].step = "certificate"
        /\ certificates' = certificates \cup {req[r].d}
        /\ \/ req[r].d \in certificates /\ req'[r] = Idle
           \/ req'[r].step = "fulfil" /\ req'[r].d = req[r].d
    BY <1>1, <1>11 DEF IssueCertificate, Req
  <2>2. \A p \in Requests \ {r} : req'[p] = req[p]
    BY <1>1, <1>11 DEF IssueCertificate
  <2>3. OfflineInv'
    BY <1>1, <2>1, <2>2 DEF CertificateInv, OfflineInv
  <2>4. CertifiedInv'
    <3> SUFFICES ASSUME Calm' PROVE CertifiedInv'
      BY DEF CertifiedInv
    <3>1. \A p \in Requests \ {r} : req[p] = Idle /\ req'[p] = Idle
      BY <1>1, <1>2, <2>1, Alone
    <3> QED BY <1>1, <1>2, <2>1, <3>1 DEF CertificateInv, CertifiedInv
  <2> QED BY <2>3, <2>4 DEF CertificateInv
<1>12. ASSUME NEW r \in Requests, IssueFulfil(r) PROVE CertificateInv'
  <2>1. /\ UNCHANGED <<certificates, activations>> /\ req[r].step = "fulfil"
        /\ offline' = [offline EXCEPT ![req[r].d] = "fulfilled"] /\ req'[r] = Idle
        /\ req[r].d \in Offline
    BY <1>1, <1>12 DEF IssueFulfil, Done, Fits
  <2>2. \A p \in Requests \ {r} : req'[p] = req[p]
    BY <1>1, <1>12 DEF IssueFulfil, Done
  <2>3. OfflineInv'
    BY <1>1, <2>1, <2>2 DEF CertificateInv, OfflineInv
  <2>4. CertifiedInv'
    BY <1>1, <1>2, <2>1, <2>2 DEF CertificateInv, CertifiedInv
  <2> QED BY <2>3, <2>4 DEF CertificateInv
<1>13. ASSUME NEW r \in Requests, RejectWrite(r) PROVE CertificateInv'
  <2>1. /\ UNCHANGED <<certificates, activations>> /\ req[r].step = "reject"
        /\ offline' = [offline EXCEPT ![req[r].d] = "rejected"] /\ req'[r] = Idle
        /\ req[r].d \in Offline
    BY <1>1, <1>13 DEF RejectWrite, Done, Fits
  <2>2. \A p \in Requests \ {r} : req'[p] = req[p]
    BY <1>1, <1>13 DEF RejectWrite, Done
  <2>3. OfflineInv'
    BY <1>1, <2>1, <2>2 DEF CertificateInv, OfflineInv
  <2>4. CertifiedInv'
    BY <1>1, <1>2, <2>1, <2>2 DEF CertificateInv, CertifiedInv
  <2> QED BY <2>3, <2>4 DEF CertificateInv
<1> QED BY <1>3, <1>4, <1>5, <1>6, <1>7, <1>8, <1>9, <1>10, <1>11, <1>12, <1>13 DEF Next

\* A fulfilled offline request has its certificate and its activation, whatever
\* overlaps or dies; and a certificate means fulfilled while nothing does
\* (issueOfflineLicense).
THEOREM FulfilledCertified == Spec => []FulfilledHasCertificate
<1>1. Typed /\ Serial /\ CertificateInv /\ [Next]_vars => CertificateInv'
  BY NextCertificate
<1>2. CertificateInv => FulfilledHasCertificate
  BY DEF CertificateInv, OfflineInv, CertifiedInv, FulfilledHasCertificate, Quiet, Calm, Idle
<1> QED BY <1>1, <1>2, InitCertificate, AlwaysTyped, SerialHolds, PTL DEF Spec

=============================================================================
