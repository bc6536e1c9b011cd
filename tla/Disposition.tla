----------------------------- MODULE Disposition -----------------------------
(***************************************************************************)
(* RetentionService and RetentionCron: the nightly evaluation that opens a *)
(* disposition record for every document whose retention expired, and the  *)
(* records managers who approve or cancel it.  One tenant, one schedule.   *)
(*                                                                         *)
(* The API process and the worker process both import RetentionModule and  *)
(* ScheduleModule, so each runs the cron, with a `running` flag of its own. *)
(***************************************************************************)
EXTENDS Naturals, Sequences, FiniteSets

CONSTANTS
    Docs,
    Evaluators,    \* the processes that run RetentionCron
    Managers,      \* approve and cancel requests that may be in flight
    TriggerKinds,  \* kinds of trigger that the schedule may be given
    MaxRecords,    \* bound: no record is cancelled once a document has so many
    MaxFailures,   \* bound: evaluation runs that fail or die
    None

AllTriggerKinds == {"creation", "last_modified", "declaration_of_record",
                    "classification_set", "workflow_completed", "custom"}

ASSUME DispositionAssumption ==
    /\ TriggerKinds \subseteq AllTriggerKinds
    /\ TriggerKinds # {}
    /\ MaxRecords \in Nat /\ MaxFailures \in Nat
    /\ None \notin Docs
    /\ IsFiniteSet(Evaluators)

VARIABLES
    schedule,  \* the retention_schedules row: isActive and triggerKind
    document,  \* document[d]: what the evaluation reads of a documents row
    disp,      \* disp[d]: the disposition_records of d, oldest first
    job,       \* job[e]: the evaluation that process e runs
    ask,       \* ask[m]: the request of a records manager
    failures

vars == <<schedule, document, disp, job, ask, failures>>

\* The enum DispositionStatus.  Nothing in the backend writes "EXECUTED".
Status == {"PENDING", "APPROVED", "BLOCKED_LEGAL_HOLD", "CANCELLED", "EXECUTED"}
Open   == {"PENDING", "APPROVED", "BLOCKED_LEGAL_HOLD"}

\* The timestamps of a document that lie retentionDays or more in the past;
\* createdAt is never later than updatedAt.
Ages == {{}, {"createdAt"}, {"createdAt", "updatedAt"}}

Document == [deleted : BOOLEAN, held : BOOLEAN, aged : Ages]

Resting == [running |-> FALSE, step |-> "idle", todo |-> {}, held |-> {}, doc |-> None]
NoRequest == [step |-> "idle", doc |-> None, record |-> 0]

Init ==
    /\ schedule \in [isActive : {TRUE}, triggerKind : TriggerKinds]
    /\ document = [d \in Docs |-> [deleted |-> FALSE, held |-> FALSE, aged |-> {}]]
    /\ disp = [d \in Docs |-> <<>>]
    /\ job = [e \in Evaluators |-> Resting]
    /\ ask = [m \in Managers |-> NoRequest]
    /\ failures = 0

-----------------------------------------------------------------------------
(* The rest of the system, as far as the evaluation sees it.               *)

\* resolveTriggerDate: every kind without a timestamp of its own falls back.
TriggerDate(kind) == IF kind \in {"creation", "custom"} THEN "createdAt" ELSE "updatedAt"

Expired(d) == TriggerDate(schedule.triggerKind) \in document[d].aged

Due(d) == schedule.isActive /\ ~document[d].deleted /\ Expired(d)

Write(d, row) ==
    /\ document' = [document EXCEPT ![d] = row]
    /\ UNCHANGED <<schedule, disp, job, ask, failures>>

\* updatedAt is @updatedAt: every UPDATE of the row makes it recent again.
Fresh(d) == [document[d] EXCEPT !.aged = @ \ {"updatedAt"}]

\* Time passes.
Age(d) ==
    \E age \in Ages :
        document[d].aged \subseteq age /\ Write(d, [document[d] EXCEPT !.aged = age])

Edit(d) == ~document[d].deleted /\ Write(d, Fresh(d))

\* LegalHoldService raises and clears the flag of a document.
PlaceHold(d) ==
    ~document[d].deleted /\ ~document[d].held /\ Write(d, [Fresh(d) EXCEPT !.held = TRUE])
LiftHold(d) == document[d].held /\ Write(d, [Fresh(d) EXCEPT !.held = FALSE])

Delete(d) ==
    ~document[d].deleted /\ ~document[d].held /\ Write(d, [Fresh(d) EXCEPT !.deleted = TRUE])

\* updateSchedule and deleteSchedule; new retentionDays change every age.
UpdateSchedule ==
    /\ schedule' \in [isActive : BOOLEAN, triggerKind : TriggerKinds]
    /\ \E age \in [Docs -> Ages] :
         document' = [d \in Docs |-> [document[d] EXCEPT !.aged = age[d]]]
    /\ UNCHANGED <<disp, job, ask, failures>>

Environment ==
    \/ \E d \in Docs : Age(d) \/ Edit(d) \/ PlaceHold(d) \/ LiftHold(d) \/ Delete(d)
    \/ UpdateSchedule

-----------------------------------------------------------------------------
(* RetentionCron.runOnce and evaluateDispositionForTenant.                 *)

Work(e, j) ==
    /\ job' = [job EXCEPT ![e] = j]
    /\ UNCHANGED <<schedule, document, ask>>

\* The cron fires: unless a run of this process is in flight, one starts, and
\* reads all documents it will look at together with their hold flag.
Start(e) ==
    /\ ~job[e].running
    /\ Work(e, [running |-> TRUE, step |-> "scan",
                todo |-> {d \in Docs : Due(d)},
                held |-> {d \in Docs : document[d].held}, doc |-> None])
    /\ UNCHANGED <<disp, failures>>

\* Faulty: only PENDING records count as open.
HasOpenPending(d) == \E i \in DOMAIN disp[d] : disp[d][i] = "PENDING"

HasOpen(d) == \E i \in DOMAIN disp[d] : disp[d][i] \in Open

\* "is there an existing non-terminal disposition record?": skip, or go on.
Check(e, d) ==
    /\ job[e].step = "scan"
    /\ d \in job[e].todo
    /\ Work(e, IF HasOpen(d)
               THEN [job[e] EXCEPT !.todo = @ \ {d}]
               ELSE [job[e] EXCEPT !.todo = @ \ {d}, !.step = "create", !.doc = d])
    /\ UNCHANGED <<disp, failures>>

Create(e) ==
    LET d == job[e].doc
        status == IF d \in job[e].held THEN "BLOCKED_LEGAL_HOLD" ELSE "PENDING" IN
    /\ job[e].step = "create"
    /\ disp' = [disp EXCEPT ![d] = Append(@, status)]
    /\ Work(e, [job[e] EXCEPT !.step = "scan", !.doc = None])
    /\ UNCHANGED failures

\* The loop is done; the finally clause ends the run.
Finish(e) ==
    /\ job[e].step = "scan"
    /\ job[e].todo = {}
    /\ Work(e, Resting)
    /\ UNCHANGED <<disp, failures>>

\* Faulty: no finally clause, so a failed run leaves `running` up.
FailRunning(e) ==
    /\ job[e].running
    /\ failures < MaxFailures
    /\ failures' = failures + 1
    /\ Work(e, [Resting EXCEPT !.running = TRUE])
    /\ UNCHANGED disp

\* A database call rejects and the run is given up (catch, finally), or the
\* process dies and comes back.
Fail(e) ==
    /\ job[e].running
    /\ failures < MaxFailures
    /\ failures' = failures + 1
    /\ Work(e, Resting)
    /\ UNCHANGED disp

-----------------------------------------------------------------------------
(* approveDisposition and cancelDisposition.                               *)

Request(m, q) ==
    /\ ask' = [ask EXCEPT ![m] = q]
    /\ UNCHANGED <<schedule, document, job, failures>>

ReadPending(m, d, i, step) ==
    /\ ask[m] = NoRequest
    /\ disp[d][i] = "PENDING"
    /\ Request(m, [step |-> step, doc |-> d, record |-> i])
    /\ UNCHANGED disp

ApproveRead(m, d, i) == ReadPending(m, d, i, "approve")

\* The document is read next; deletedAt does not matter.
ApproveDocRead(m) ==
    /\ ask[m].step = "approve"
    /\ Request(m, [ask[m] EXCEPT !.step = IF document[ask[m].doc].held
                                          THEN "BLOCKED_LEGAL_HOLD" ELSE "APPROVED"])
    /\ UNCHANGED disp

\* Faulty: a record that was already decided is cancelled.
CancelReadDecided(m, d, i) ==
    /\ ask[m] = NoRequest
    /\ disp[d][i] \in Open
    /\ Len(disp[d]) < MaxRecords
    /\ Request(m, [step |-> "CANCELLED", doc |-> d, record |-> i])
    /\ UNCHANGED disp

CancelRead(m, d, i) ==
    /\ Len(disp[d]) < MaxRecords
    /\ ReadPending(m, d, i, "CANCELLED")

\* The UPDATE of either handler: WHERE id = ..., whatever the status is now.
Decide(m) ==
    /\ ask[m].step \in Status
    /\ disp' = [disp EXCEPT ![ask[m].doc][ask[m].record] = ask[m].step]
    /\ Request(m, NoRequest)

\* The request dies between two calls.
GiveUp(m) ==
    /\ ask[m] # NoRequest
    /\ Request(m, NoRequest)
    /\ UNCHANGED disp

-----------------------------------------------------------------------------

Evaluate(e) ==
    \/ Start(e)
    \/ \E d \in Docs : Check(e, d)
    \/ Create(e)
    \/ Finish(e)

Manage(m) ==
    \/ \E d \in Docs : \E i \in DOMAIN disp[d] : ApproveRead(m, d, i) \/ CancelRead(m, d, i)
    \/ ApproveDocRead(m)
    \/ Decide(m)
    \/ GiveUp(m)

Next ==
    \/ Environment
    \/ \E e \in Evaluators : Evaluate(e) \/ Fail(e)
    \/ \E m \in Managers : Manage(m)

Spec == Init /\ [][Next]_vars

\* The cron fires every night and Node runs what an await resumes.
FairSpec == Spec /\ \A e \in Evaluators : WF_vars(Evaluate(e))

-----------------------------------------------------------------------------

TypeOK ==
    /\ schedule \in [isActive : BOOLEAN, triggerKind : TriggerKinds]
    /\ document \in [Docs -> Document]
    /\ disp \in [Docs -> Seq(Status)]
    /\ job \in [Evaluators ->
                 [running : BOOLEAN, step : {"idle", "scan", "create"},
                  todo : SUBSET Docs, held : SUBSET Docs, doc : Docs \cup {None}]]
    /\ ask \in [Managers ->
                 [step : Status \cup {"idle", "approve"}, doc : Docs \cup {None},
                  record : Nat]]
    /\ failures \in 0 .. MaxFailures

OpenRecords(d) == {i \in DOMAIN disp[d] : disp[d][i] \in Open}

\* With one records manager at a time: what was approved, blocked or cancelled
\* stays so.
DecisionIsFinal ==
    [][\A d \in Docs : \A i \in DOMAIN disp[d] :
          disp[d][i] # "PENDING" => disp'[d][i] = disp[d][i]]_vars

\* With one records manager at a time: n evaluating processes open at most n
\* dispositions of a document beside each other, however their runs overlap.
OpenBounded == \A d \in Docs : Cardinality(OpenRecords(d)) <= Cardinality(Evaluators)

\* A document that stays due gets a disposition, however often the evaluation
\* failed before.
DueIsOpened == \A d \in Docs : []<>(~Due(d) \/ HasOpen(d))

=============================================================================
