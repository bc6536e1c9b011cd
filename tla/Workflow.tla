------------------------------- MODULE Workflow -------------------------------
(***************************************************************************)
(* One instance of a published workflow: WorkflowService.instantiate,      *)
(* submitApproval, delegateStep and cancelInstance, the step router of     *)
(* workflow-engine.ts, and the cron of workflow-reminder-cron.ts that      *)
(* escalates overdue steps.                                                *)
(*                                                                         *)
(* A decision takes four turns: it reads the instance, commits the         *)
(* approval with the step, reads the instance again to compute the route,  *)
(* and carries the route out, one statement per row.  Other requests and   *)
(* the cron may run in between, and a request may fail at any of them.     *)
(* The 'advance' jobs only call processInstance, which changes nothing.    *)
(***************************************************************************)
EXTENDS Naturals, Sequences, FiniteSets, SequencesExt

CONSTANTS
    Users,       \* each has one request in flight at most
    Admins,
    Definition,  \* the enabled steps of the definition, as they are listed
    MaxSubmits,  \* bound: decisions submitted
    MaxFailures, \* bound: requests and scans that fail half way
    None

Decisions == {"approve", "reject", "delegate", "escalate", "recuse"}

\* An order, whether the title names an escalation, a user or None for a role,
\* a group or a resolver, and whether there is a dueInHours.
DefinitionStep == [order : Nat \ {0}, escalation : BOOLEAN,
                   assignee : Users \cup {None}, due : BOOLEAN]

ASSUME WorkflowAssumption ==
    /\ Definition \in Seq(DefinitionStep)
    /\ Definition # <<>>
    /\ Admins \subseteq Users
    /\ None \notin Users
    /\ MaxSubmits \in Nat
    /\ MaxFailures \in Nat

VARIABLES
    status,    \* of the instance
    steps,     \* the workflow_steps rows, in the order of their creation
    approvals, \* the approvals rows, with the step each was given for
    req,       \* req[u]: the request of user u
    scan,      \* the overdue steps a run of the cron still has to treat
    flagged,   \* the steps with a workflow:escalated key in Redis
    submits,   \* how many decisions were submitted: their clock as well
    failures,
    odd        \* what happened besides one request after the other

vars == <<status, steps, approvals, req, scan, flagged, submits, failures, odd>>

Ended   == {"COMPLETED", "REJECTED", "CANCELLED", "FAILED"}
Success == {"approved", "completed", "skipped"}

Order(i)   == Definition[i].order
StepsAt(o) == {i \in DOMAIN Definition : Order(i) = o}
Orders     == {Order(i) : i \in DOMAIN Definition}
First(S)   == CHOOSE n \in S : \A m \in S : n <= m

NoRequest == [step |-> "idle", row |-> 0, decision |-> None, now |-> 0,
              route |-> None, todo |-> {}]

Init ==
    /\ status = "none"
    /\ steps = <<>>
    /\ approvals = {}
    /\ req = [u \in Users |-> NoRequest]
    /\ scan = {}
    /\ flagged = {}
    /\ submits = 0
    /\ failures = 0
    /\ odd = {}

Busy == scan # {} \/ \E u \in Users : req[u] # NoRequest

\* A request or a scan that begins while another one is under way.
Begin == odd' = odd \cup {k \in {"overlap"} : Busy}

StepRow(i, now, due) ==
    [step |-> i, status |-> "in_progress", started |-> now, due |-> due]

-----------------------------------------------------------------------------
(* instantiate: the instance and its first steps in one transaction, with  *)
(* one startedAt.                                                          *)

Instantiate ==
    /\ status = "none"
    /\ status' = "RUNNING"
    /\ \E first \in SetToSeqs(StepsAt(First(Orders))) :
          steps' = [k \in DOMAIN first |-> StepRow(first[k], 0, Definition[first[k]].due)]
    /\ UNCHANGED <<approvals, req, scan, flagged, submits, failures, odd>>

-----------------------------------------------------------------------------
(* routeNext of workflow-engine.ts.                                        *)

Route(kind, o) == [kind |-> kind, order |-> o]

\* Faulty: the branch is done as soon as one of its steps is.
RouteNextAny(o) ==
    LET branch == {steps[r].status : r \in {q \in DOMAIN steps : Order(steps[q].step) = o}}
        later  == {p \in Orders : p > o}
    IN  IF status = "COMPLETED" THEN Route("complete", 0)
        ELSE IF status \in Ended \/ "rejected" \in branch THEN Route("reject", 0)
        ELSE IF branch \cap Success = {} THEN Route("wait", 0)
        ELSE IF later = {} THEN Route("complete", 0)
        ELSE Route("advance", First(later))

\* Faulty: the order that comes next is passed over.
RouteNextSkip(o) ==
    LET branch == {steps[r].status : r \in {q \in DOMAIN steps : Order(steps[q].step) = o}}
        later  == {p \in Orders : p > o + 1}
    IN  IF status = "COMPLETED" THEN Route("complete", 0)
        ELSE IF status \in Ended \/ "rejected" \in branch THEN Route("reject", 0)
        ELSE IF ~ (branch \subseteq Success) THEN Route("wait", 0)
        ELSE IF later = {} THEN Route("complete", 0)
        ELSE Route("advance", First(later))

\* Faulty: a rejection is taken for a step that is still open.
RouteNextWait(o) ==
    LET branch == {steps[r].status : r \in {q \in DOMAIN steps : Order(steps[q].step) = o}}
        later  == {p \in Orders : p > o}
    IN  IF status = "COMPLETED" THEN Route("complete", 0)
        ELSE IF status \in Ended THEN Route("reject", 0)
        ELSE IF ~ (branch \subseteq Success) THEN Route("wait", 0)
        ELSE IF later = {} THEN Route("complete", 0)
        ELSE Route("advance", First(later))

\* After a decision on a step of order o.  An escalation step is the first one
\* listed, of a higher order, whose title says so.
RouteNext(o) ==
    LET branch == {steps[r].status : r \in {q \in DOMAIN steps : Order(steps[q].step) = o}}
        later  == {p \in Orders : p > o}
        escape == {i \in DOMAIN Definition : Order(i) > o /\ Definition[i].escalation}
    IN  IF status = "COMPLETED" THEN Route("complete", 0)
        ELSE IF status \in Ended \/ "rejected" \in branch THEN Route("reject", 0)
        ELSE IF "escalated" \in branch
             THEN Route("escalate", IF escape = {} THEN 0 ELSE Order(First(escape)))
        ELSE IF ~ (branch \subseteq Success) THEN Route("wait", 0)
        ELSE IF later = {} THEN Route("complete", 0)
        ELSE Route("advance", First(later))

-----------------------------------------------------------------------------
(* submitApproval.                                                         *)

Active == {r \in DOMAIN steps : steps[r].status = "in_progress"}

\* The steps started last; of several, any.
Current == {r \in Active : \A q \in Active : steps[q].started <= steps[r].started}

\* delegateId is set only on a step that is decided by that.
MayDecide(u, r) == u \in Admins \/ Definition[steps[r].step].assignee = u

SubmitRead(u, decision) ==
    /\ req[u] = NoRequest
    /\ status = "RUNNING"
    /\ submits < MaxSubmits
    /\ \E r \in Current :
          /\ MayDecide(u, r)
          /\ req' = [req EXCEPT ![u] = [NoRequest EXCEPT
                       !.step = "decide", !.row = r, !.decision = decision,
                       !.now = submits + 1]]
    /\ submits' = submits + 1
    /\ Begin
    /\ UNCHANGED <<status, steps, approvals, scan, flagged, failures>>

\* Faulty: a status that routeNext does not know.
OutcomeDelegated ==
    [approve  |-> "approved",  reject |-> "rejected", delegate |-> "delegated",
     escalate |-> "escalated", recuse |-> "skipped"]

Outcome == [approve  |-> "approved",  reject |-> "rejected", delegate |-> "completed",
            escalate |-> "escalated", recuse |-> "skipped"]

\* The transaction: it does not look at the step again.
Decide(u) ==
    LET r == req[u].row IN
    /\ req[u].step = "decide"
    /\ approvals' = approvals \cup {[row |-> r, decision |-> req[u].decision]}
    /\ steps' = [steps EXCEPT ![r].status = Outcome[req[u].decision]]
    /\ req' = [req EXCEPT ![u].step = "refetch"]
    /\ UNCHANGED <<status, scan, flagged, submits, failures, odd>>

Refetch(u) ==
    LET route == RouteNext(Order(steps[req[u].row].step))
        todo  == CASE route.kind = "advance" -> StepsAt(route.order)
                   [] route.kind = "escalate" /\ route.order # 0 ->
                        {First(StepsAt(route.order))}
                   [] OTHER -> {}
    IN
    /\ req[u].step = "refetch"
    /\ req' = IF route.kind = "wait"
              THEN [req EXCEPT ![u] = NoRequest]
              ELSE [req EXCEPT ![u].step = IF todo = {} THEN "close" ELSE "create",
                               ![u].route = route.kind, ![u].todo = todo]
    /\ UNCHANGED <<status, steps, approvals, scan, flagged, submits, failures, odd>>

\* One create per step of the branch, in the order of the definition, no
\* transaction around them.  An escalation step gets no dueAt.
CreateStep(u) ==
    LET i   == First(req[u].todo)
        due == Definition[i].due /\ req[u].route = "advance"
    IN
    /\ req[u].step = "create"
    /\ steps' = Append(steps, StepRow(i, req[u].now, due))
    /\ req' = IF req[u].todo = {i} THEN [req EXCEPT ![u] = NoRequest]
              ELSE [req EXCEPT ![u].todo = @ \ {i}]
    /\ UNCHANGED <<status, approvals, scan, flagged, submits, failures, odd>>

Close(u) ==
    /\ req[u].step = "close"
    /\ status' = [complete |-> "COMPLETED", reject |-> "REJECTED",
                  escalate |-> "FAILED"][req[u].route]
    /\ req' = [req EXCEPT ![u] = NoRequest]
    /\ UNCHANGED <<steps, approvals, scan, flagged, submits, failures, odd>>

-----------------------------------------------------------------------------
(* cancelInstance.                                                         *)

\* Faulty: an instance that has ended may be cancelled.
CancelReadAny(u) ==
    /\ req[u] = NoRequest
    /\ status \notin {"none", "CANCELLED"}
    /\ req' = [req EXCEPT ![u].step = "cancel"]
    /\ Begin
    /\ UNCHANGED <<status, steps, approvals, scan, flagged, submits, failures>>

\* A FAILED instance may be cancelled.
CancelRead(u) ==
    /\ req[u] = NoRequest
    /\ status \in {"RUNNING", "FAILED"}
    /\ req' = [req EXCEPT ![u].step = "cancel"]
    /\ Begin
    /\ UNCHANGED <<status, steps, approvals, scan, flagged, submits, failures>>

CancelWrite(u) ==
    /\ req[u].step = "cancel"
    /\ status' = "CANCELLED"
    /\ req' = [req EXCEPT ![u] = NoRequest]
    /\ UNCHANGED <<steps, approvals, scan, flagged, submits, failures, odd>>

\* A request dies between two of its statements: an error of the database or
\* of Redis, or the process stops.  Nothing takes it up again.
Fail(u) ==
    /\ req[u] # NoRequest
    /\ failures < MaxFailures
    /\ req' = [req EXCEPT ![u] = NoRequest]
    /\ failures' = failures + 1
    /\ odd' = odd \cup {"failure"}
    /\ UNCHANGED <<status, steps, approvals, scan, flagged, submits>>

-----------------------------------------------------------------------------
(* checkOverdueSteps: it looks at the steps, not at their instances.       *)

ScanRead ==
    /\ scan = {}
    /\ \E overdue \in SUBSET {r \in Active :
                         steps[r].due /\ Definition[steps[r].step].assignee # None} :
          /\ overdue # {}
          /\ scan' = overdue
    /\ Begin
    /\ UNCHANGED <<status, steps, approvals, req, flagged, submits, failures>>

\* A step with its key set is passed over.
ScanStep(r) ==
    /\ r \in scan
    /\ scan' = scan \ {r}
    /\ flagged' = flagged \cup {r}
    /\ steps' = IF r \in flagged THEN steps
                ELSE [steps EXCEPT ![r].status = "escalated"]
    /\ odd' = odd \cup {k \in {"overdue"} : r \notin flagged}
    /\ UNCHANGED <<status, approvals, req, submits, failures>>

\* The key is set and the update fails: the run ends there.
ScanFail(r) ==
    /\ r \in scan \ flagged
    /\ failures < MaxFailures
    /\ flagged' = flagged \cup {r}
    /\ scan' = {}
    /\ failures' = failures + 1
    /\ odd' = odd \cup {"failure"}
    /\ UNCHANGED <<status, steps, approvals, req, submits>>

\* The key lives for 24 hours.
KeyExpires(r) ==
    /\ r \in flagged
    /\ flagged' = flagged \ {r}
    /\ UNCHANGED <<status, steps, approvals, req, scan, submits, failures, odd>>

-----------------------------------------------------------------------------
Next ==
    \/ Instantiate
    \/ \E u \in Users :
          \/ \E decision \in Decisions : SubmitRead(u, decision)
          \/ Decide(u)
          \/ Refetch(u)
          \/ CreateStep(u)
          \/ Close(u)
          \/ CancelRead(u)
          \/ CancelWrite(u)
          \/ Fail(u)
    \/ ScanRead
    \/ \E r \in DOMAIN steps : ScanStep(r) \/ ScanFail(r) \/ KeyExpires(r)

Spec == Init /\ [][Next]_vars

-----------------------------------------------------------------------------
(* Properties.                                                             *)

Request ==
    [step : {"idle", "decide", "refetch", "create", "close", "cancel"},
     row : Nat, decision : Decisions \cup {None}, now : 0 .. MaxSubmits,
     route : {"advance", "complete", "reject", "escalate", None},
     todo : SUBSET DOMAIN Definition]

\* Every variable has its type.
TypeOK ==
    /\ status \in {"none", "RUNNING"} \cup Ended
    /\ steps \in Seq([step : DOMAIN Definition, started : 0 .. MaxSubmits, due : BOOLEAN,
                      status : Success \cup {"in_progress", "rejected", "escalated"}])
    /\ approvals \subseteq [row : DOMAIN steps, decision : Decisions]
    /\ req \in [Users -> Request]
    /\ scan \subseteq DOMAIN steps
    /\ flagged \subseteq DOMAIN steps
    /\ submits \in 0 .. MaxSubmits
    /\ failures \in 0 .. MaxFailures
    /\ odd \subseteq {"overlap", "failure", "overdue"}

Decided(i, decisions) ==
    \E a \in approvals : steps[a.row].step = i /\ a.decision \in decisions

Passing == {"approve", "delegate", "recuse"}

\* However requests overlap, fail or are escalated, an instance is COMPLETED
\* only after somebody passed a step of the last order: submitApproval
\* completes it when routeNext finds no later step.
CompletedAtTheEnd ==
    status = "COMPLETED" =>
        \E i \in DOMAIN Definition :
            /\ \A o \in Orders : o <= Order(i)
            /\ Decided(i, Passing)

\* While requests come one after the other and none fails, an instance that
\* nobody escalated is COMPLETED only when every step of every parallel branch
\* was passed, and none was rejected.  Overlapping requests break it: a step
\* of a branch can be decided before submitApproval has created the next one.
EveryBranchPassed ==
    status = "COMPLETED" /\ odd = {} /\ (\A a \in approvals : a.decision # "escalate") =>
        \A i \in DOMAIN Definition : Decided(i, Passing) /\ ~ Decided(i, {"reject"})

\* A running instance that no request is working on has a step to decide on,
\* unless a request died half way or the cron escalated a step: these are the
\* only ways to leave an instance nobody can move.  It holds for overlapping
\* decisions too: one of two siblings decided at once sees both.
StuckOnlyIf ==
    status = "RUNNING" /\ Active = {} /\ (\A u \in Users : req[u] = NoRequest) =>
        odd \cap {"failure", "overdue"} # {}

\* While requests come one after the other an instance that has ended stays as
\* it is; only a FAILED one may be cancelled.  A decision under way when the
\* instance is cancelled overwrites that.
EndIsFinal ==
    [][(status \in Ended /\ status' # status) =>
          ("overlap" \in odd \/ (status = "FAILED" /\ status' = "CANCELLED"))]_vars

=============================================================================
