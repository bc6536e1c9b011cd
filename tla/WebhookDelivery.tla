--------------------------- MODULE WebhookDelivery ---------------------------
(***************************************************************************)
(* One delivery of one event to one webhook of the license server:         *)
(* WebhookService.emit and replayDelivery, WebhookWorker.deliver, and the  *)
(* BullMQ queue between them as these use it.                              *)
(*                                                                         *)
(* The first job is the one emit adds; each replay adds another for the    *)
(* same row, and the worker may run several at a time.                     *)
(***************************************************************************)
EXTENDS Naturals, FiniteSets

CONSTANTS
    First, Replays, \* the jobs
    MaxAttempts,    \* WEBHOOK_MAX_ATTEMPTS
    MaxFailures     \* bound: statements that fail and workers that stop

ASSUME WebhookAssumption ==
    /\ First \notin Replays /\ IsFiniteSet(Replays)
    /\ MaxAttempts \in Nat \ {0}
    /\ MaxFailures \in Nat

Jobs == {First} \cup Replays

VARIABLES
    row,      \* the webhook_deliveries row: its status and its attempts
    webhook,  \* whether the webhook is there: its deliveries go with it
    emit,     \* where emit is: "idle", "queue" between the two writes, "done"
    job,      \* the jobs of the queue
    posts,    \* how many POSTs were sent
    failures

deliveryVars == <<row, webhook, emit, job, posts, failures>>

NoRow == [status |-> "none", attempts |-> 0]
NoJob == [state |-> "none", step |-> "post", response |-> "none", made |-> 0,
          stalled |-> FALSE, seen |-> 0]

DeliveryInit ==
    /\ row = NoRow
    /\ webhook = TRUE
    /\ emit = "idle"
    /\ job = [j \in Jobs |-> NoJob]
    /\ posts = 0
    /\ failures = 0

Gone == row = NoRow

-----------------------------------------------------------------------------
(* WebhookService.                                                         *)

EmitRow ==
    /\ emit = "idle"
    /\ webhook
    /\ row' = [status |-> "pending", attempts |-> 0]
    /\ emit' = "queue"
    /\ UNCHANGED <<webhook, job, posts, failures>>

EmitAdd ==
    /\ emit = "queue"
    /\ emit' = "done"
    /\ job' = [job EXCEPT ![First].state = "waiting"]
    /\ UNCHANGED <<row, webhook, posts, failures>>

\* The error is logged and swallowed: the row stays without a job.
EmitFail ==
    /\ emit = "queue"
    /\ failures < MaxFailures
    /\ failures' = failures + 1
    /\ emit' = "done"
    /\ UNCHANGED <<row, webhook, job, posts>>

\* Whatever the status of the delivery, and whether a job for it is at work.
ReplayDelivery(j) ==
    /\ ~ Gone
    /\ job[j] = NoJob
    /\ job' = [job EXCEPT ![j].state = "waiting"]
    /\ UNCHANGED <<row, webhook, emit, posts, failures>>

DeleteWebhook ==
    /\ webhook
    /\ webhook' = FALSE
    /\ row' = NoRow
    /\ UNCHANGED <<emit, job, posts, failures>>

-----------------------------------------------------------------------------
(* WebhookWorker.deliver, for one attempt of a job.                        *)

To(j, step) == job' = [job EXCEPT ![j].step = step, ![j].seen = 0]

\* The attempt is over, and its local variables with it.
Leave(j, state, made, stalled) ==
    job' = [job EXCEPT ![j] = [NoJob EXCEPT !.state = state, !.made = made,
                                            !.stalled = stalled]]

At(j, step) == job[j].state = "active" /\ job[j].step = step

\* Faulty: the job of a webhook that is gone is passed over.
StartIfThere(j) ==
    /\ job[j].state = "waiting"
    /\ webhook
    /\ job' = [job EXCEPT ![j].state = "active"]
    /\ UNCHANGED <<row, webhook, emit, posts, failures>>

Start(j) ==
    /\ job[j].state = "waiting"
    /\ job' = [job EXCEPT ![j].state = "active"]
    /\ UNCHANGED <<row, webhook, emit, posts, failures>>

\* "ok" is 2xx, "refused" 4xx but 408 and 429, "busy" any other answer.
Post(j, response) ==
    /\ At(j, "post")
    /\ job' = [job EXCEPT ![j].step = "read", ![j].response = response]
    /\ posts' = posts + 1
    /\ UNCHANGED <<row, webhook, emit, failures>>

\* The connection fails or the time is up, before or after the customer has
\* dealt with it.
PostFails(j) ==
    /\ At(j, "post")
    /\ job' = [job EXCEPT ![j].step = "catchRead", ![j].response = "none"]
    /\ posts' = posts + 1
    /\ UNCHANGED <<row, webhook, emit, failures>>

After(response) == IF response = "busy" THEN "catchRead" ELSE "status"

\* recordAttempt reads the array and writes it back with one more entry, here
\* and in the catch clause; without a row it does nothing.
RecordRead(j) ==
    \E catch \in BOOLEAN :
        /\ At(j, IF catch THEN "catchRead" ELSE "read")
        /\ job' = [job EXCEPT
                     ![j].seen = row.attempts,
                     ![j].step = IF ~ Gone THEN (IF catch THEN "catchWrite" ELSE "write")
                                 ELSE IF catch THEN "catchWebhook"
                                 ELSE After(job[j].response)]
        /\ UNCHANGED <<row, webhook, emit, posts, failures>>

\* Faulty: the array holds the last attempt only.
RecordWriteLast(j) ==
    \E catch \in BOOLEAN :
        /\ At(j, IF catch THEN "catchWrite" ELSE "write")
        /\ ~ Gone
        /\ row' = [row EXCEPT !.attempts = 1]
        /\ To(j, IF catch THEN "catchWebhook" ELSE After(job[j].response))
        /\ UNCHANGED <<webhook, emit, posts, failures>>

RecordWrite(j) ==
    \E catch \in BOOLEAN :
        /\ At(j, IF catch THEN "catchWrite" ELSE "write")
        /\ ~ Gone
        /\ row' = [row EXCEPT !.attempts = job[j].seen + 1]
        /\ To(j, IF catch THEN "catchWebhook" ELSE After(job[j].response))
        /\ UNCHANGED <<webhook, emit, posts, failures>>

\* Faulty: a permanent failure is left pending.
SetStatusPending(j) ==
    /\ At(j, "status")
    /\ ~ Gone
    /\ row' = [row EXCEPT !.status = IF job[j].response = "ok" THEN "delivered" ELSE @]
    /\ To(j, "webhook")
    /\ UNCHANGED <<webhook, emit, posts, failures>>

SetStatus(j) ==
    /\ At(j, "status")
    /\ ~ Gone
    /\ row' = [row EXCEPT !.status =
                 IF job[j].response = "ok" THEN "delivered" ELSE "dead_lettered"]
    /\ To(j, "webhook")
    /\ UNCHANGED <<webhook, emit, posts, failures>>

\* Faulty: after the update of the webhook the code runs on into the throw.
SetWebhookRetry(j) ==
    /\ At(j, "webhook")
    /\ webhook
    /\ To(j, "catchRead")
    /\ UNCHANGED <<row, webhook, emit, posts, failures>>

\* The last statement before the job returns.
SetWebhook(j) ==
    /\ At(j, "webhook")
    /\ webhook
    /\ Leave(j, "completed", job[j].made, job[j].stalled)
    /\ UNCHANGED <<row, webhook, emit, posts, failures>>

\* Faulty: one attempt too many.
RetryOnceMore(j) ==
    LET made == job[j].made + 1
    IN  Leave(j, IF made <= MaxAttempts THEN "waiting" ELSE "failed", made, job[j].stalled)

\* BullMQ: the job is tried again until its attempts are used up.
Retry(j) ==
    LET made == job[j].made + 1
    IN  Leave(j, IF made < MaxAttempts THEN "waiting" ELSE "failed", made, job[j].stalled)

\* The error is thrown again once the webhook is updated.
Rethrow(j) ==
    /\ At(j, "catchWebhook")
    /\ webhook
    /\ Retry(j)
    /\ UNCHANGED <<row, webhook, emit, posts, failures>>

Trying   == {"read", "write", "status", "webhook"}
Catching == {"catchRead", "catchWrite", "catchWebhook"}

\* A statement finds its row deleted (Prisma throws), or fails by itself: in the
\* try the catch clause takes over, in the catch clause that error leaves it.
Missing(j) == \/ job[j].step \in {"write", "status", "catchWrite"} /\ Gone
              \/ job[j].step \in {"webhook", "catchWebhook"} /\ ~ webhook

Throw(j) ==
    /\ job[j].state = "active"
    /\ \/ job[j].step \in Trying /\ To(j, "catchRead")
       \/ job[j].step \in Catching /\ Retry(j)
    /\ UNCHANGED <<row, webhook, emit, posts>>

RowMissing(j) == Missing(j) /\ Throw(j) /\ UNCHANGED failures

StatementFails(j) ==
    /\ failures < MaxFailures
    /\ failures' = failures + 1
    /\ Throw(j)

\* The process stops with the job at work.  BullMQ finds it stalled and queues
\* it again once; the second time it fails.
WorkerStops(j) ==
    /\ job[j].state = "active"
    /\ failures < MaxFailures
    /\ failures' = failures + 1
    /\ Leave(j, IF job[j].stalled THEN "failed" ELSE "waiting", job[j].made, TRUE)
    /\ UNCHANGED <<row, webhook, emit, posts>>

-----------------------------------------------------------------------------
Deliver(j) ==
    \/ Start(j)
    \/ \E response \in {"ok", "refused", "busy"} : Post(j, response)
    \/ PostFails(j)
    \/ RecordRead(j) \/ RecordWrite(j)
    \/ SetStatus(j) \/ SetWebhook(j)
    \/ Rethrow(j) \/ RowMissing(j)

DeliveryNext ==
    \/ EmitRow \/ EmitAdd \/ EmitFail \/ DeleteWebhook
    \/ \E j \in Replays : ReplayDelivery(j)
    \/ \E j \in Jobs : Deliver(j) \/ StatementFails(j) \/ WorkerStops(j)

\* A worker runs all the time and takes the jobs of the queue; fetch has a
\* timeout, so that an attempt always ends.
DeliverySpec == DeliveryInit /\ [][DeliveryNext]_deliveryVars /\ \A j \in Jobs : WF_deliveryVars(Deliver(j))

-----------------------------------------------------------------------------
(* Properties.                                                             *)

MaxPosts == Cardinality(Jobs) * (MaxAttempts + MaxFailures)

\* Every variable has its type.
DeliveryTypeOK ==
    /\ row \in [status : {"none", "pending", "delivered", "dead_lettered"},
                attempts : 0 .. 2 * MaxPosts]
    /\ webhook \in BOOLEAN
    /\ emit \in {"idle", "queue", "done"}
    /\ job \in [Jobs ->
          [state : {"none", "waiting", "active", "completed", "failed"},
           step : {"post"} \cup Trying \cup Catching,
           response : {"none", "ok", "refused", "busy"},
           made : 0 .. MaxAttempts, stalled : BOOLEAN, seen : 0 .. 2 * MaxPosts]]
    /\ posts \in 0 .. MaxPosts
    /\ failures \in 0 .. MaxFailures

Replayed == \E j \in Replays : job[j] # NoJob

\* Without a replay, and with no statement failing and no worker stopping, a
\* delivery that has its final status keeps it while its row is there.  A
\* failure after the status was written sends the job back to the queue, where
\* a second POST may be refused; a replay may do the same.
FinalStatusStays ==
    [][(row.status \in {"delivered", "dead_lettered"} /\ row'.status # row.status)
          => Replayed \/ failures > 0 \/ row' = NoRow]_deliveryVars

\* As long as no replay runs beside the first job and no failure occurs, every
\* POST that has come back is in the log: the array grows with each attempt, by
\* two entries for an answer that is to be retried.
EveryPostLogged ==
    ~ Replayed /\ failures = 0 /\ ~ Gone /\ job[First].state # "active" =>
        row.attempts >= posts

\* However jobs and replays overlap and fail, and whatever the customer answers,
\* a job that ends well leaves its delivery with a final status: no replay puts
\* it back to pending.
CompletedIsFinal ==
    \A j \in Jobs : job[j].state = "completed" =>
        Gone \/ row.status \in {"delivered", "dead_lettered"}

\* Whatever the customer answers and even when the webhook is deleted meanwhile,
\* a job that is queued comes to an end: attempts are bounded.
EveryJobEnds ==
    \A j \in Jobs : job[j].state = "waiting" ~> job[j].state \in {"completed", "failed"}

=============================================================================
