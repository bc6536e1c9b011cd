---------------------- MODULE DispositionFoldersProofs -----------------------
(***************************************************************************)
(* Retention (Disposition), for any number of documents, records,          *)
(* evaluations and requests: the types.  With one records manager at a     *)
(* time, however many processes evaluate: what was decided stays decided,  *)
(* and a document has at most as many open dispositions as there are       *)
(* processes.                                                              *)
(*                                                                         *)
(* The folder tree (Folders), for any number of folders, documents, names  *)
(* and requests: where the documents are and, with requests that do not    *)
(* overlap, that every path is that of the parent and the name.            *)
(***************************************************************************)
EXTENDS Disposition, Folders, FiniteSetTheorems, SequenceTheorems, TLAPS

OneManager == \A m, n \in Managers : m = n

JobType == [running : BOOLEAN, step : {"idle", "scan", "create"},
            todo : SUBSET Docs, held : SUBSET Docs, doc : Docs \cup {None}]

AskType == [step : Status \cup {"idle", "approve"}, doc : Docs \cup {None}, record : Nat]

\* A request in flight has a record of its document.
AskValid ==
    \A m \in Managers :
        ask[m].step # "idle" => ask[m].doc \in Docs /\ ask[m].record \in DOMAIN disp[ask[m].doc]

JobValid == \A e \in Evaluators : job[e].step = "create" => job[e].doc \in Docs

Inv == TypeOK /\ AskValid /\ JobValid

\* One request: the record is still as it was read.
StillPending ==
    \A m \in Managers :
        ask[m].step # "idle" => disp[ask[m].doc][ask[m].record] = "PENDING"

\* The evaluations that found no open disposition of d and will open one.
Creating(d) == {e \in Evaluators : job[e].step = "create" /\ job[e].doc = d}

\* An evaluation sets out to open a disposition only when none is open, so what
\* is open and what is on its way never outnumber the evaluations.
Room ==
    \A d \in Docs :
        Cardinality(OpenRecords(d)) + Cardinality(Creating(d)) <= Cardinality(Evaluators)

\* A record gets a status: the UPDATE of approveDisposition and cancelDisposition.
Decides(d, i, s) == disp' = [disp EXCEPT ![d][i] = s]

-----------------------------------------------------------------------------

LEMMA Types ==
  TypeOK <=> /\ schedule \in [isActive : BOOLEAN, triggerKind : TriggerKinds]
             /\ document \in [Docs -> Document]
             /\ disp \in [Docs -> Seq(Status)]
             /\ job \in [Evaluators -> JobType]
             /\ ask \in [Managers -> AskType]
             /\ failures \in 0 .. MaxFailures
  BY DEF TypeOK, JobType, AskType

LEMMA RestingType == Resting \in JobType /\ Resting.step = "idle"
  BY DEF Resting, JobType

LEMMA NoRequestType == NoRequest \in AskType /\ NoRequest.step = "idle"
  BY DEF NoRequest, AskType

LEMMA InitInv == Init => Inv
<1> SUFFICES ASSUME Init PROVE Inv
  OBVIOUS
<1>1. document \in [Docs -> Document]
  BY DEF Init, Document, Ages
<1>2. disp \in [Docs -> Seq(Status)]
  BY DEF Init
<1>3. schedule \in [isActive : BOOLEAN, triggerKind : TriggerKinds]
  BY DEF Init
<1>4. TypeOK
  BY <1>1, <1>2, <1>3, Types, RestingType, NoRequestType, DispositionAssumption DEF Init
<1>5. AskValid /\ JobValid
  BY RestingType, NoRequestType DEF Init, AskValid, JobValid
<1> QED BY <1>4, <1>5 DEF Inv

\* What the rest of the system does to a document keeps it a document.
LEMMA EnvironmentType ==
  ASSUME TypeOK, Environment
  PROVE  /\ document' \in [Docs -> Document]
         /\ schedule' \in [isActive : BOOLEAN, triggerKind : TriggerKinds]
         /\ UNCHANGED <<disp, job, ask, failures>>
<1>1. ASSUME NEW d \in Docs, NEW row \in Document, Write(d, row)
      PROVE  document' \in [Docs -> Document] /\ schedule' = schedule
             /\ UNCHANGED <<disp, job, ask, failures>>
  BY <1>1 DEF Write, TypeOK
<1>2. ASSUME NEW d \in Docs PROVE Fresh(d) \in Document /\ document[d] \in Document
  <2>1. document[d] \in Document
    BY DEF TypeOK
  <2>2. \A age \in Ages : age \ {"updatedAt"} \in Ages
    BY DEF Ages
  <2> QED BY <2>1, <2>2 DEF Fresh, Document
<1>3. ASSUME NEW d \in Docs, Age(d) \/ Edit(d) \/ PlaceHold(d) \/ LiftHold(d) \/ Delete(d)
      PROVE  document' \in [Docs -> Document] /\ schedule' = schedule
             /\ UNCHANGED <<disp, job, ask, failures>>
  <2>1. CASE Age(d)
    <3>1. PICK age \in Ages : Write(d, [document[d] EXCEPT !.aged = age])
      BY <2>1 DEF Age
    <3>2. [document[d] EXCEPT !.aged = age] \in Document
      BY <1>2 DEF Document
    <3> QED BY <1>1, <3>1, <3>2
  <2>2. CASE Edit(d)
    BY <1>1, <1>2, <2>2 DEF Edit
  <2>3. CASE PlaceHold(d) \/ LiftHold(d) \/ Delete(d)
    <3>1. /\ [Fresh(d) EXCEPT !.held = TRUE] \in Document
          /\ [Fresh(d) EXCEPT !.held = FALSE] \in Document
          /\ [Fresh(d) EXCEPT !.deleted = TRUE] \in Document
      BY <1>2 DEF Document
    <3> QED BY <1>1, <2>3, <3>1 DEF PlaceHold, LiftHold, Delete
  <2> QED BY <1>3, <2>1, <2>2, <2>3
<1>4. ASSUME UpdateSchedule
      PROVE  /\ document' \in [Docs -> Document]
             /\ schedule' \in [isActive : BOOLEAN, triggerKind : TriggerKinds]
             /\ UNCHANGED <<disp, job, ask, failures>>
  <2>1. PICK age \in [Docs -> Ages] :
          document' = [d \in Docs |-> [document[d] EXCEPT !.aged = age[d]]]
    BY <1>4 DEF UpdateSchedule
  <2>2. ASSUME NEW d \in Docs PROVE [document[d] EXCEPT !.aged = age[d]] \in Document
    BY <1>2 DEF Document
  <2> QED BY <1>4, <2>1, <2>2 DEF UpdateSchedule
<1> QED BY <1>3, <1>4 DEF Environment, TypeOK

-----------------------------------------------------------------------------
(* Evaluations.                                                            *)

\* What a step of an evaluation leaves of its run, and of the dispositions.
LEMMA EvaluateShape ==
  ASSUME Inv, NEW e \in Evaluators, Evaluate(e) \/ Fail(e)
  PROVE  /\ UNCHANGED <<schedule, document, ask>>
         /\ failures' \in 0 .. MaxFailures
         /\ \E j \in JobType :
              /\ job' = [job EXCEPT ![e] = j]
              /\ \/ j.step # "create" /\ disp' = disp
                 \/ /\ j.step = "create" /\ disp' = disp
                    /\ j.doc \in Docs /\ ~HasOpen(j.doc)
                 \/ /\ j.step # "create" /\ job[e].step = "create" /\ job[e].doc \in Docs
                    /\ \E s \in {"PENDING", "BLOCKED_LEGAL_HOLD"} :
                         disp' = [disp EXCEPT ![job[e].doc] = Append(@, s)]
<1>1. job[e] \in JobType /\ failures \in 0 .. MaxFailures
  BY Types DEF Inv
<1>2. ASSUME NEW d \in Docs, Check(e, d)
      PROVE  /\ UNCHANGED <<schedule, document, ask, disp, failures>>
             /\ \E j \in JobType :
                  /\ job' = [job EXCEPT ![e] = j]
                  /\ \/ j.step # "create"
                     \/ j.step = "create" /\ j.doc \in Docs /\ ~HasOpen(j.doc)
  <2>1. CASE HasOpen(d)
    <3> DEFINE j == [job[e] EXCEPT !.todo = @ \ {d}]
    <3>1. j \in JobType /\ j.step # "create"
      BY <1>1, <1>2 DEF JobType, Check
    <3>2. job' = [job EXCEPT ![e] = j]
      BY <1>2, <2>1 DEF Check, Work
    <3> QED BY <1>2, <3>1, <3>2 DEF Check, Work
  <2>2. CASE ~HasOpen(d)
    <3> DEFINE j == [job[e] EXCEPT !.todo = @ \ {d}, !.step = "create", !.doc = d]
    <3>1. j \in JobType /\ j.step = "create" /\ j.doc = d
      BY <1>1 DEF JobType
    <3>2. job' = [job EXCEPT ![e] = j]
      BY <1>2, <2>2 DEF Check, Work
    <3> QED BY <1>2, <2>2, <3>1, <3>2 DEF Check, Work
  <2> QED BY <2>1, <2>2
<1>3. CASE Start(e)
  <2> DEFINE j == [running |-> TRUE, step |-> "scan", todo |-> {d \in Docs : Due(d)},
                   held |-> {d \in Docs : document[d].held}, doc |-> None]
  <2>1. j \in JobType /\ j.step = "scan"
    BY DEF JobType
  <2>2. job' = [job EXCEPT ![e] = j]
    BY <1>3 DEF Start, Work
  <2> HIDE DEF j
  <2> QED BY <1>1, <1>3, <2>1, <2>2 DEF Start, Work
<1>4. CASE Create(e)
  <2> DEFINE j == [job[e] EXCEPT !.step = "scan", !.doc = None]
             s == IF job[e].doc \in job[e].held THEN "BLOCKED_LEGAL_HOLD" ELSE "PENDING"
  <2>1. j \in JobType /\ j.step = "scan"
    BY <1>1 DEF JobType
  <2>2. job' = [job EXCEPT ![e] = j] /\ disp' = [disp EXCEPT ![job[e].doc] = Append(@, s)]
    BY <1>4 DEF Create, Work
  <2>3. s \in {"PENDING", "BLOCKED_LEGAL_HOLD"} /\ job[e].step = "create" /\ job[e].doc \in Docs
    BY <1>4 DEF Create, Inv, JobValid
  <2> HIDE DEF j, s
  <2> QED BY <1>1, <1>4, <2>1, <2>2, <2>3 DEF Create, Work
<1>5. CASE Finish(e) \/ Fail(e)
  <2>1. job' = [job EXCEPT ![e] = Resting] /\ disp' = disp
    BY <1>5 DEF Finish, Fail, Work
  <2>2. failures' \in 0 .. MaxFailures
    BY <1>1, <1>5, DispositionAssumption DEF Finish, Fail
  <2> QED BY <1>5, <2>1, <2>2, RestingType DEF Finish, Fail, Work
<1> QED BY <1>1, <1>2, <1>3, <1>4, <1>5 DEF Evaluate

\* Appending a record.
LEMMA Appended ==
  ASSUME TypeOK, NEW d \in Docs, NEW s \in Status,
         disp' = [disp EXCEPT ![d] = Append(@, s)]
  PROVE  /\ disp' \in [Docs -> Seq(Status)]
         /\ \A c \in Docs : \A i \in DOMAIN disp[c] : i \in DOMAIN disp'[c] /\ disp'[c][i] = disp[c][i]
         /\ \A c \in Docs \ {d} : disp'[c] = disp[c]
         /\ \A i \in DOMAIN disp'[d] : i \in DOMAIN disp[d] \/ i = Len(disp[d]) + 1
<1>1. disp[d] \in Seq(Status) /\ disp'[d] = Append(disp[d], s)
  BY DEF TypeOK
<1>2. Append(disp[d], s) \in Seq(Status) /\ Len(Append(disp[d], s)) = Len(disp[d]) + 1
  BY <1>1
<1>3. DOMAIN Append(disp[d], s) = 1 .. Len(disp[d]) + 1 /\ DOMAIN disp[d] = 1 .. Len(disp[d])
  BY <1>1, <1>2
<1>4. \A i \in 1 .. Len(disp[d]) : Append(disp[d], s)[i] = disp[d][i]
  BY <1>1
<1>5. Len(disp[d]) \in Nat
  BY <1>1
<1>6. disp' \in [Docs -> Seq(Status)]
  BY <1>1, <1>2 DEF TypeOK
<1>7. \A c \in Docs \ {d} : disp'[c] = disp[c]
  BY DEF TypeOK
<1> QED BY <1>1, <1>3, <1>4, <1>5, <1>6, <1>7

LEMMA EvaluateInv ==
  ASSUME Inv, NEW e \in Evaluators, Evaluate(e) \/ Fail(e)
  PROVE  Inv'
<1>1. PICK j \in JobType :
        /\ job' = [job EXCEPT ![e] = j]
        /\ \/ disp' = disp
           \/ \E d \in Docs, s \in {"PENDING", "BLOCKED_LEGAL_HOLD"} :
                disp' = [disp EXCEPT ![d] = Append(@, s)]
        /\ j.step = "create" => j.doc \in Docs
  BY EvaluateShape
<1>2. /\ disp' \in [Docs -> Seq(Status)]
      /\ \A c \in Docs : \A i \in DOMAIN disp[c] : i \in DOMAIN disp'[c]
  <2>1. CASE disp' = disp
    BY <2>1 DEF Inv, TypeOK
  <2>2. CASE disp' # disp
    BY <1>1, <2>2, Appended DEF Inv, Status
  <2> QED BY <2>1, <2>2
<1>3. UNCHANGED <<schedule, document, ask>> /\ failures' \in 0 .. MaxFailures
  BY EvaluateShape
<1>4. job' \in [Evaluators -> JobType]
  BY <1>1, Types DEF Inv
<1>5. TypeOK'
  BY <1>2, <1>3, <1>4 DEF Inv, TypeOK, JobType
<1>6. AskValid'
  BY <1>2, <1>3 DEF Inv, AskValid
<1>7. JobValid'
  BY <1>1, Types DEF Inv, JobValid
<1> QED BY <1>5, <1>6, <1>7 DEF Inv

-----------------------------------------------------------------------------
(* Records managers.                                                       *)

\* What a step of a request leaves of it, and of the dispositions.
LEMMA ManageShape ==
  ASSUME Inv, NEW m \in Managers, Manage(m)
  PROVE  /\ UNCHANGED <<schedule, document, job, failures>>
         /\ \E q \in AskType :
              /\ ask' = [ask EXCEPT ![m] = q]
              /\ \/ /\ disp' = disp
                    /\ q.step = "idle"
                 \/ /\ disp' = disp
                    /\ q.doc \in Docs /\ q.record \in DOMAIN disp[q.doc]
                    /\ \/ disp[q.doc][q.record] = "PENDING"
                       \/ ask[m].step # "idle" /\ q.doc = ask[m].doc /\ q.record = ask[m].record
                 \/ /\ q.step = "idle" /\ ask[m].step # "idle"
                    /\ ask[m].doc \in Docs /\ ask[m].record \in DOMAIN disp[ask[m].doc]
                    /\ \E s \in Status : Decides(ask[m].doc, ask[m].record, s)
<1>1. ask[m] \in AskType
  BY Types DEF Inv
<1>2. ASSUME NEW d \in Docs, NEW i \in DOMAIN disp[d], ApproveRead(m, d, i) \/ CancelRead(m, d, i)
      PROVE  /\ UNCHANGED <<schedule, document, job, failures, disp>>
             /\ \E q \in AskType : /\ ask' = [ask EXCEPT ![m] = q]
                                   /\ q.doc = d /\ q.record = i /\ disp[d][i] = "PENDING"
  <2>1. PICK s \in {"approve", "CANCELLED"} : ReadPending(m, d, i, s)
    BY <1>2 DEF ApproveRead, CancelRead
  <2> DEFINE q == [step |-> s, doc |-> d, record |-> i]
  <2>2. i \in Nat
    <3>1. disp[d] \in Seq(Status)
      BY DEF Inv, TypeOK
    <3> QED BY <3>1
  <2>3. q \in AskType /\ q.doc = d /\ q.record = i
    BY <2>1, <2>2 DEF AskType, Status
  <2>4. ask' = [ask EXCEPT ![m] = q] /\ disp[d][i] = "PENDING"
    BY <2>1 DEF ReadPending, Request
  <2>5. UNCHANGED <<schedule, document, job, failures, disp>>
    BY <2>1 DEF ReadPending, Request
  <2> HIDE DEF q
  <2> QED BY <2>3, <2>4, <2>5
<1>3. CASE ApproveDocRead(m)
  <2> DEFINE s == IF document[ask[m].doc].held THEN "BLOCKED_LEGAL_HOLD" ELSE "APPROVED"
             q == [ask[m] EXCEPT !.step = s]
  <2>1. s \in Status
    BY DEF Status
  <2>2. q \in AskType /\ q.doc = ask[m].doc /\ q.record = ask[m].record
    BY <1>1, <2>1 DEF AskType
  <2>3. ask' = [ask EXCEPT ![m] = q] /\ disp' = disp /\ ask[m].step = "approve"
    BY <1>3 DEF ApproveDocRead, Request
  <2>4. ask[m].doc \in Docs /\ ask[m].record \in DOMAIN disp[ask[m].doc]
    BY <2>3 DEF Inv, AskValid
  <2> HIDE DEF q
  <2> QED BY <1>3, <2>2, <2>3, <2>4 DEF ApproveDocRead, Request
<1>4. CASE Decide(m)
  <2>1. ask[m].step # "idle" /\ ask[m].step \in Status
    BY <1>4 DEF Decide, Status
  <2>2. ask[m].doc \in Docs /\ ask[m].record \in DOMAIN disp[ask[m].doc]
    BY <2>1 DEF Inv, AskValid
  <2>3. \E s \in Status : Decides(ask[m].doc, ask[m].record, s)
    BY <1>4, <2>1 DEF Decide, Decides
  <2> QED BY <1>4, <2>1, <2>2, <2>3, NoRequestType DEF Decide, Request
<1>5. CASE GiveUp(m)
  BY <1>5, NoRequestType DEF GiveUp, Request
<1>6. ASSUME NEW d \in Docs, NEW i \in DOMAIN disp[d], ApproveRead(m, d, i) \/ CancelRead(m, d, i)
      PROVE  /\ UNCHANGED <<schedule, document, job, failures>>
             /\ \E q \in AskType :
                  /\ ask' = [ask EXCEPT ![m] = q] /\ disp' = disp
                  /\ q.doc \in Docs /\ q.record \in DOMAIN disp[q.doc]
                  /\ disp[q.doc][q.record] = "PENDING"
  BY <1>2, <1>6
<1> QED BY <1>3, <1>4, <1>5, <1>6 DEF Manage

\* Deciding a record.
LEMMA Decided ==
  ASSUME TypeOK, NEW d \in Docs, NEW i \in DOMAIN disp[d], NEW s \in Status, Decides(d, i, s)
  PROVE  /\ disp' \in [Docs -> Seq(Status)]
         /\ \A c \in Docs : DOMAIN disp'[c] = DOMAIN disp[c]
         /\ \A c \in Docs : \A j \in DOMAIN disp[c] :
              disp'[c][j] = IF c = d /\ j = i THEN s ELSE disp[c][j]
<1>1. disp[d] \in Seq(Status)
  BY DEF TypeOK
<1> DEFINE t == [disp[d] EXCEPT ![i] = s]
<1>2. t \in Seq(Status) /\ DOMAIN t = DOMAIN disp[d]
  BY <1>1
<1>3. \A j \in DOMAIN disp[d] : t[j] = IF j = i THEN s ELSE disp[d][j]
  BY <1>1
<1>4. disp' = [disp EXCEPT ![d] = t]
  BY DEF Decides
<1> HIDE DEF t
<1> QED BY <1>2, <1>3, <1>4 DEF TypeOK

LEMMA ManageInv ==
  ASSUME Inv, NEW m \in Managers, Manage(m)
  PROVE  Inv'
<1>1. PICK q \in AskType :
        /\ ask' = [ask EXCEPT ![m] = q]
        /\ \/ disp' = disp
           \/ \E d \in Docs : \E i \in DOMAIN disp[d] : \E s \in Status : Decides(d, i, s)
        /\ q.step # "idle" => q.doc \in Docs /\ q.record \in DOMAIN disp[q.doc]
  BY ManageShape
<1>2. disp' \in [Docs -> Seq(Status)] /\ \A c \in Docs : DOMAIN disp'[c] = DOMAIN disp[c]
  <2>1. CASE disp' = disp
    BY <2>1 DEF Inv, TypeOK
  <2>2. CASE disp' # disp
    BY <1>1, <2>2, Decided DEF Inv
  <2> QED BY <2>1, <2>2
<1>3. UNCHANGED <<schedule, document, job, failures>>
  BY ManageShape
<1>4. ask' \in [Managers -> AskType]
  BY <1>1, Types DEF Inv
<1>5. TypeOK'
  BY <1>2, <1>3, <1>4 DEF Inv, TypeOK, AskType
<1>6. AskValid'
  BY <1>1, <1>2, Types DEF Inv, AskValid
<1>7. JobValid'
  BY <1>3 DEF Inv, JobValid
<1> QED BY <1>5, <1>6, <1>7 DEF Inv

LEMMA EnvironmentInv ==
  ASSUME Inv, Environment
  PROVE  Inv'
<1>1. TypeOK'
  BY EnvironmentType DEF Inv, TypeOK
<1>2. AskValid' /\ JobValid'
  BY EnvironmentType DEF Inv, AskValid, JobValid
<1> QED BY <1>1, <1>2 DEF Inv

THEOREM InvHolds == Spec => []Inv
<1>1. Init => Inv
  BY InitInv
<1>2. Inv /\ [Next]_vars => Inv'
  <2> SUFFICES ASSUME Inv, [Next]_vars PROVE Inv'
    OBVIOUS
  <2>1. CASE Environment
    BY <2>1, EnvironmentInv
  <2>2. CASE \E e \in Evaluators : Evaluate(e) \/ Fail(e)
    BY <2>2, EvaluateInv
  <2>3. CASE \E m \in Managers : Manage(m)
    BY <2>3, ManageInv
  <2>4. CASE UNCHANGED vars
    BY <2>4 DEF vars, Inv, TypeOK, AskValid, JobValid
  <2> QED BY <2>1, <2>2, <2>3, <2>4 DEF Next
<1> QED BY <1>1, <1>2, PTL DEF Spec

\* The types of the schedule, the documents, the records and the requests.
THEOREM TypeCorrect == Spec => []TypeOK
  BY InvHolds, PTL DEF Inv

-----------------------------------------------------------------------------
(* One records manager at a time: what was decided stays decided.          *)

LEMMA PendingStep ==
  ASSUME OneManager, Inv, StillPending, [Next]_vars
  PROVE  /\ StillPending'
         /\ \A d \in Docs : \A i \in DOMAIN disp[d] :
              disp[d][i] # "PENDING" => disp'[d][i] = disp[d][i]
<1>1. CASE Environment
  BY <1>1, EnvironmentType DEF Inv, StillPending
<1>2. ASSUME NEW e \in Evaluators, Evaluate(e) \/ Fail(e)
      PROVE  /\ ask' = ask
             /\ \A c \in Docs : \A i \in DOMAIN disp[c] : disp'[c][i] = disp[c][i]
  <2>1. /\ ask' = ask
        /\ \/ disp' = disp
           \/ \E d \in Docs, s \in {"PENDING", "BLOCKED_LEGAL_HOLD"} :
                disp' = [disp EXCEPT ![d] = Append(@, s)]
    BY <1>2, EvaluateShape
  <2>2. CASE disp' = disp
    BY <2>1, <2>2
  <2>3. CASE disp' # disp
    BY <2>1, <2>3, Appended DEF Inv, Status
  <2> QED BY <2>1, <2>2, <2>3
<1>3. ASSUME NEW m \in Managers, Manage(m)
      PROVE  /\ StillPending'
             /\ \A d \in Docs : \A i \in DOMAIN disp[d] :
                  disp[d][i] # "PENDING" => disp'[d][i] = disp[d][i]
  <2>1. PICK q \in AskType :
          /\ ask' = [ask EXCEPT ![m] = q]
          /\ \/ /\ disp' = disp
                /\ \/ q.step = "idle"
                   \/ disp[q.doc][q.record] = "PENDING"
             \/ /\ q.step = "idle" /\ ask[m].step # "idle"
                /\ ask[m].doc \in Docs /\ ask[m].record \in DOMAIN disp[ask[m].doc]
                /\ \E s \in Status : Decides(ask[m].doc, ask[m].record, s)
    <3>1. ask[m].step # "idle" => disp[ask[m].doc][ask[m].record] = "PENDING"
      BY DEF StillPending
    <3> QED BY <1>3, <3>1, ManageShape
  <2>2. \A n \in Managers : n = m
    BY DEF OneManager
  <2>3. ask'[m] = q
    BY <2>1, Types DEF Inv
  <2>4. CASE disp' = disp
    BY <2>1, <2>2, <2>3, <2>4 DEF StillPending
  <2>5. CASE disp' # disp
    <3>1. /\ q.step = "idle"
          /\ disp[ask[m].doc][ask[m].record] = "PENDING"
      BY <2>1, <2>5 DEF StillPending
    <3>2. \A d \in Docs : \A i \in DOMAIN disp[d] :
            disp'[d][i] = disp[d][i] \/ (d = ask[m].doc /\ i = ask[m].record)
      <4>1. PICK s \in Status : Decides(ask[m].doc, ask[m].record, s)
        BY <2>1, <2>5
      <4>2. ask[m].doc \in Docs /\ ask[m].record \in DOMAIN disp[ask[m].doc]
        BY <2>1, <2>5
      <4> QED BY <4>1, <4>2, Decided DEF Inv
    <3>3. StillPending'
      BY <2>2, <2>3, <3>1 DEF StillPending
    <3> QED BY <3>1, <3>2, <3>3
  <2> QED BY <2>4, <2>5
<1>4. CASE UNCHANGED vars
  BY <1>4 DEF vars, StillPending
<1>5. ASSUME NEW e \in Evaluators, Evaluate(e) \/ Fail(e) PROVE StillPending'
  <2> SUFFICES ASSUME NEW m \in Managers, ask'[m].step # "idle"
               PROVE  disp'[ask'[m].doc][ask'[m].record] = "PENDING"
    BY DEF StillPending
  <2>1. ask[m].doc \in Docs /\ ask[m].record \in DOMAIN disp[ask[m].doc]
    BY <1>2, <1>5 DEF Inv, AskValid
  <2> QED BY <1>2, <1>5, <2>1 DEF StillPending
<1>6. CASE \E e \in Evaluators : Evaluate(e) \/ Fail(e)
  BY <1>2, <1>5, <1>6
<1>7. CASE \E m \in Managers : Manage(m)
  BY <1>3, <1>7
<1> QED BY <1>1, <1>4, <1>6, <1>7 DEF Next

LEMMA PendingHolds ==
  ASSUME OneManager
  PROVE  Spec => []StillPending
<1>1. Init => StillPending
  BY NoRequestType DEF Init, StillPending
<1>2. Inv /\ StillPending /\ [Next]_vars => StillPending'
  BY PendingStep
<1> QED BY <1>1, <1>2, InvHolds, PTL DEF Spec

\* With one records manager at a time, and any number of evaluating processes:
\* a disposition that was approved, blocked or cancelled keeps its status.
THEOREM DecisionsFinal ==
  ASSUME OneManager
  PROVE  Spec => DecisionIsFinal
<1>1. Inv /\ StillPending /\ [Next]_vars =>
        [\A d \in Docs : \A i \in DOMAIN disp[d] :
            disp[d][i] # "PENDING" => disp'[d][i] = disp[d][i]]_vars
  BY PendingStep
<1> QED BY <1>1, InvHolds, PendingHolds, PTL DEF Spec, DecisionIsFinal

-----------------------------------------------------------------------------
(* One records manager at a time: the open dispositions are bounded.       *)

LEMMA Finite ==
  ASSUME TypeOK, NEW d \in Docs
  PROVE  IsFiniteSet(OpenRecords(d)) /\ IsFiniteSet(Creating(d))
<1>1. DOMAIN disp[d] = 1 .. Len(disp[d]) /\ Len(disp[d]) \in Nat
  <2>1. disp[d] \in Seq(Status)
    BY DEF TypeOK
  <2> QED BY <2>1
<1>2. IsFiniteSet(1 .. Len(disp[d]))
  BY <1>1, FS_Interval
<1>3. OpenRecords(d) \in SUBSET (1 .. Len(disp[d]))
  BY <1>1 DEF OpenRecords
<1>4. Creating(d) \in SUBSET Evaluators
  BY DEF Creating
<1> QED BY <1>2, <1>3, <1>4, FS_Subset, DispositionAssumption

\* There is still room when neither set gained a member.
LEMMA Shrinks ==
  ASSUME NEW O, NEW C, IsFiniteSet(O), IsFiniteSet(C),
         Cardinality(O) + Cardinality(C) <= Cardinality(Evaluators),
         NEW P \in SUBSET O, NEW D \in SUBSET C
  PROVE  Cardinality(P) + Cardinality(D) <= Cardinality(Evaluators)
<1>1. Cardinality(O) \in Nat /\ Cardinality(C) \in Nat /\ Cardinality(Evaluators) \in Nat
  BY FS_CardinalityType, DispositionAssumption
<1>2. IsFiniteSet(P) /\ IsFiniteSet(D) /\ Cardinality(P) <= Cardinality(O)
      /\ Cardinality(D) <= Cardinality(C)
  BY FS_Subset
<1>3. Cardinality(P) \in Nat /\ Cardinality(D) \in Nat
  BY <1>2, FS_CardinalityType
<1> QED BY <1>1, <1>2, <1>3

LEMMA RoomUnlessCreated ==
  ASSUME TypeOK, Room,
         \A d \in Docs : OpenRecords(d)' \subseteq OpenRecords(d),
         \A d \in Docs : Creating(d)' \subseteq Creating(d)
  PROVE  Room'
  BY Finite, Shrinks DEF Room

LEMMA EvaluateRoom ==
  ASSUME Inv, Room, NEW e \in Evaluators, Evaluate(e) \/ Fail(e)
  PROVE  Room'
<1>1. PICK j \in JobType :
        /\ job' = [job EXCEPT ![e] = j]
        /\ \/ j.step # "create" /\ disp' = disp
           \/ j.step = "create" /\ disp' = disp /\ j.doc \in Docs /\ ~HasOpen(j.doc)
           \/ /\ j.step # "create" /\ job[e].step = "create" /\ job[e].doc \in Docs
              /\ \E s \in {"PENDING", "BLOCKED_LEGAL_HOLD"} :
                   disp' = [disp EXCEPT ![job[e].doc] = Append(@, s)]
  BY EvaluateShape
<1>2. \A f \in Evaluators : job'[f] = IF f = e THEN j ELSE job[f]
  BY <1>1, Types DEF Inv
<1>3. CASE j.step # "create" /\ disp' = disp
  <2>1. \A d \in Docs : OpenRecords(d)' \subseteq OpenRecords(d)
    BY <1>3 DEF OpenRecords
  <2>2. \A d \in Docs : Creating(d)' \subseteq Creating(d)
    BY <1>2, <1>3 DEF Creating
  <2> QED BY <2>1, <2>2, RoomUnlessCreated DEF Inv
<1>4. CASE j.step = "create" /\ disp' = disp /\ j.doc \in Docs /\ ~HasOpen(j.doc)
  <2> SUFFICES ASSUME NEW d \in Docs
               PROVE  Cardinality(OpenRecords(d)') + Cardinality(Creating(d)')
                        <= Cardinality(Evaluators)
    BY DEF Room
  <2>1. OpenRecords(d)' = OpenRecords(d)
    BY <1>4 DEF OpenRecords
  <2>2. CASE d = j.doc
    <3>1. Cardinality(OpenRecords(d)') = 0
      <4>1. OpenRecords(d) = {}
        BY <1>4, <2>2 DEF OpenRecords, HasOpen
      <4> QED BY <2>1, <4>1, FS_EmptySet
    <3>2. Creating(d)' \in SUBSET Evaluators
      BY DEF Creating
    <3>3. IsFiniteSet(Creating(d)') /\ Cardinality(Creating(d)') <= Cardinality(Evaluators)
      BY <3>2, FS_Subset, DispositionAssumption
    <3>4. Cardinality(Creating(d)') \in Nat
      BY <3>3, FS_CardinalityType
    <3> QED BY <3>1, <3>3, <3>4
  <2>3. CASE d # j.doc
    <3>1. Creating(d)' \in SUBSET Creating(d)
      BY <1>2, <2>3 DEF Creating
    <3>2. Cardinality(OpenRecords(d)) + Cardinality(Creating(d)) <= Cardinality(Evaluators)
      BY DEF Room
    <3>3. IsFiniteSet(OpenRecords(d)) /\ IsFiniteSet(Creating(d))
      BY Finite DEF Inv
    <3> QED BY <2>1, <3>1, <3>2, <3>3, Shrinks
  <2> QED BY <2>2, <2>3
<1>5. ASSUME NEW s \in {"PENDING", "BLOCKED_LEGAL_HOLD"},
             j.step # "create", job[e].step = "create", job[e].doc \in Docs,
             disp' = [disp EXCEPT ![job[e].doc] = Append(@, s)]
      PROVE  Room'
  <2> DEFINE n == Len(disp[job[e].doc]) + 1
  <2>1. /\ \A c \in Docs \ {job[e].doc} : disp'[c] = disp[c]
        /\ \A i \in DOMAIN disp[job[e].doc] : disp'[job[e].doc][i] = disp[job[e].doc][i]
        /\ \A i \in DOMAIN disp'[job[e].doc] : i \in DOMAIN disp[job[e].doc] \/ i = n
    BY <1>5, Appended DEF Inv, Status
  <2> HIDE DEF n
  <2> SUFFICES ASSUME NEW d \in Docs
               PROVE  Cardinality(OpenRecords(d)') + Cardinality(Creating(d)')
                        <= Cardinality(Evaluators)
    BY DEF Room
  <2>2. Cardinality(OpenRecords(d)) + Cardinality(Creating(d)) <= Cardinality(Evaluators)
    BY DEF Room
  <2>3. IsFiniteSet(OpenRecords(d)) /\ IsFiniteSet(Creating(d))
    BY Finite DEF Inv
  <2>4. Creating(d)' = Creating(d) \ {e}
    BY <1>2, <1>5 DEF Creating
  <2>5. CASE d # job[e].doc
    <3>1. OpenRecords(d)' = OpenRecords(d)
      BY <2>1, <2>5 DEF OpenRecords
    <3> QED BY <2>2, <2>3, <2>4, <3>1, Shrinks
  <2>6. CASE d = job[e].doc
    <3> DEFINE O == OpenRecords(d) \cup {n}
               C == Creating(d) \ {e}
    <3>1. OpenRecords(d)' \in SUBSET O
      BY <2>1, <2>6 DEF OpenRecords
    <3>2. e \in Creating(d)
      BY <1>5, <2>6 DEF Creating
    <3>3. Cardinality(OpenRecords(d)) \in Nat /\ Cardinality(Creating(d)) \in Nat
      BY <2>3, FS_CardinalityType
    <3>4. IsFiniteSet(O) /\ Cardinality(O) <= Cardinality(OpenRecords(d)) + 1
      BY <2>3, <3>3, FS_AddElement
    <3>5. IsFiniteSet(C) /\ Cardinality(C) = Cardinality(Creating(d)) - 1
      BY <2>3, <3>2, FS_RemoveElement
    <3>6. Cardinality(O) \in Nat /\ Cardinality(Evaluators) \in Nat
      BY <3>4, FS_CardinalityType, DispositionAssumption
    <3>7. Cardinality(O) + Cardinality(C) <= Cardinality(Evaluators)
      BY <2>2, <3>3, <3>4, <3>5, <3>6
    <3> HIDE DEF O
    <3> QED BY <2>4, <3>1, <3>4, <3>5, <3>7, Shrinks
  <2> QED BY <2>5, <2>6
<1> QED BY <1>1, <1>3, <1>4, <1>5

LEMMA ManageRoom ==
  ASSUME Inv, StillPending, Room, NEW m \in Managers, Manage(m)
  PROVE  Room'
<1>1. /\ job' = job
      /\ \/ disp' = disp
         \/ /\ ask[m].step # "idle" /\ ask[m].doc \in Docs
            /\ ask[m].record \in DOMAIN disp[ask[m].doc]
            /\ \E s \in Status : Decides(ask[m].doc, ask[m].record, s)
  BY ManageShape
<1>2. \A d \in Docs : Creating(d)' \subseteq Creating(d)
  BY <1>1 DEF Creating
<1>3. \A d \in Docs : OpenRecords(d)' \subseteq OpenRecords(d)
  <2>1. CASE disp' = disp
    BY <2>1 DEF OpenRecords
  <2>2. CASE disp' # disp
    <3>1. disp[ask[m].doc][ask[m].record] = "PENDING"
      BY <1>1, <2>2 DEF StillPending
    <3>2. PICK s \in Status : Decides(ask[m].doc, ask[m].record, s)
      BY <1>1, <2>2
    <3>3. /\ \A c \in Docs : DOMAIN disp'[c] = DOMAIN disp[c]
          /\ \A c \in Docs : \A j \in DOMAIN disp[c] :
               disp'[c][j] = IF c = ask[m].doc /\ j = ask[m].record THEN s ELSE disp[c][j]
      BY <1>1, <2>2, <3>2, Decided DEF Inv
    <3> QED BY <3>1, <3>3 DEF OpenRecords, Open
  <2> QED BY <2>1, <2>2
<1> QED BY <1>2, <1>3, RoomUnlessCreated DEF Inv

LEMMA RoomHolds ==
  ASSUME OneManager
  PROVE  Spec => []Room
<1>1. Init => Room
  <2> SUFFICES ASSUME Init, NEW d \in Docs
               PROVE  Cardinality(OpenRecords(d)) + Cardinality(Creating(d))
                        <= Cardinality(Evaluators)
    BY DEF Room
  <2>1. OpenRecords(d) = {} /\ Creating(d) = {}
    BY RestingType DEF Init, OpenRecords, Creating
  <2>2. Cardinality(Evaluators) \in Nat
    BY FS_CardinalityType, DispositionAssumption
  <2> QED BY <2>1, <2>2, FS_EmptySet
<1>2. Inv /\ StillPending /\ Room /\ [Next]_vars => Room'
  <2> SUFFICES ASSUME Inv, StillPending, Room, [Next]_vars PROVE Room'
    OBVIOUS
  <2>1. CASE Environment \/ UNCHANGED vars
    <3>1. UNCHANGED <<disp, job>>
      BY <2>1, EnvironmentType DEF Inv, vars
    <3> QED BY <3>1 DEF Room, OpenRecords, Creating
  <2>2. CASE \E e \in Evaluators : Evaluate(e) \/ Fail(e)
    BY <2>2, EvaluateRoom
  <2>3. CASE \E m \in Managers : Manage(m)
    BY <2>3, ManageRoom
  <2> QED BY <2>1, <2>2, <2>3 DEF Next
<1> QED BY <1>1, <1>2, InvHolds, PendingHolds, PTL DEF Spec

\* With one records manager at a time: however the runs of n evaluating
\* processes overlap and fail, a document has at most n open dispositions; with
\* one such process it has at most one, as the service promises.
THEOREM OpenStaysBounded ==
  ASSUME OneManager
  PROVE  Spec => []OpenBounded
<1>1. Inv /\ Room => OpenBounded
  <2> SUFFICES ASSUME Inv, Room, NEW d \in Docs
               PROVE  Cardinality(OpenRecords(d)) <= Cardinality(Evaluators)
    BY DEF OpenBounded
  <2>1. IsFiniteSet(OpenRecords(d)) /\ IsFiniteSet(Creating(d))
    BY Finite DEF Inv
  <2>2. Cardinality(OpenRecords(d)) \in Nat /\ Cardinality(Creating(d)) \in Nat
        /\ Cardinality(Evaluators) \in Nat
    BY <2>1, FS_CardinalityType, DispositionAssumption
  <2> QED BY <2>2 DEF Room
<1> QED BY <1>1, InvHolds, RoomHolds, PTL

-----------------------------------------------------------------------------
(* Folders: shapes.                                                        *)

Segment  == STRING
Segments == Seq(Segment)

FolderRow == [parent : Folder \cup {NoId}, name : Segments, path : Segments,
              deleted : BOOLEAN]

FolderRequest == [step : {"idle", "create", "rename", "delete", "move"},
                  f : Folder \cup {NoId}, d : DocIds \cup {NoId},
                  name : Segments, path : Segments]

RowsOK ==
    /\ folder \in [Folder -> FolderRow]
    /\ \A f \in Created : folder[f].name # <<>> /\ folder[f].path # <<>>

\* Folders are created once and never go, so that what a request has found is
\* still a folder when it writes.
RequestOK(r) ==
    /\ req[r].step = "idle" => req[r] = Idle
    /\ req[r].step = "create" => req[r].f \in Created \cup {NoId}
    /\ req[r].step \in {"rename", "delete"} => req[r].f \in Created
    /\ req[r].step \in {"create", "rename"} => req[r].name # <<>> /\ req[r].path # <<>>

FolderShape ==
    /\ RowsOK
    /\ place \in [DocIds -> Folder \cup {NoId}]
    /\ req \in [Requests -> FolderRequest]
    /\ \A r \in Requests : RequestOK(r)

LEMMA NoFolderTyped ==
  NoFolder \in FolderRow /\ NoFolder.name = <<>> /\ NoFolder.path = <<>>
  BY DEF NoFolder, FolderRow, Segments

LEMMA IdleTyped == Idle \in FolderRequest /\ Idle.step = "idle"
  BY DEF Idle, FolderRequest, Segments

LEMMA JustOne ==
  ASSUME NEW s \in Segments, s # <<>>, ~(Len(s) > 1)
  PROVE  Len(s) = 1
<1>1. PICK n \in Nat : n = Len(s)
  BY DEF Segments
<1>2. n # 0
  BY <1>1 DEF Segments
<1>3. ~(n > 1)
  BY <1>1
<1>4. n = 1
  BY <1>2, <1>3
<1> QED BY <1>1, <1>4

LEMMA Joined ==
  ASSUME NEW s \in Segments, NEW t \in Segments, t # <<>>
  PROVE  /\ s \o t \in Segments /\ s \o t # <<>>
         /\ Len(s \o t) = Len(s) + Len(t)
<1>1. Len(t) > 0
  BY DEF Segments
<1> QED BY <1>1 DEF Segments

\* The first n segments.
LEMMA Cut ==
  ASSUME NEW s \in Segments, NEW n \in 0 .. Len(s)
  PROVE  /\ SubSeq(s, 1, n) \in Segments /\ Len(SubSeq(s, 1, n)) = n
         /\ \A i \in 1 .. n : SubSeq(s, 1, n)[i] = s[i]
<1>1. \A i \in 1 .. n : s[i] \in Segment
  BY DEF Segments
<1>2. /\ SubSeq(s, 1, n) \in Seq(Segment)
      /\ Len(SubSeq(s, 1, n)) = IF 1 <= n THEN n - 1 + 1 ELSE 0
      /\ \A i \in 1 .. n - 1 + 1 : SubSeq(s, 1, n)[i] = s[1 + i - 1]
  BY <1>1, SubSeqProperties
<1>3. n \in Nat /\ n - 1 + 1 = n /\ (~(1 <= n) => n = 0)
  OBVIOUS
<1>4. \A i \in 1 .. n : 1 + i - 1 = i
  OBVIOUS
<1> QED BY <1>2, <1>3, <1>4 DEF Segments

LEMMA FrontTyped ==
  ASSUME NEW s \in Segments, s # <<>>
  PROVE  /\ Front(s) \in Segments /\ Len(Front(s)) = Len(s) - 1
         /\ \A i \in 1 .. Len(s) - 1 : Front(s)[i] = s[i]
<1>1. Len(s) - 1 \in 0 .. Len(s)
  BY DEF Segments
<1> QED BY <1>1, Cut DEF Front

LEMMA FolderShapeInit == FoldersInit => FolderShape
<1> SUFFICES ASSUME FoldersInit PROVE FolderShape
  OBVIOUS
<1>1. Created = {}
  BY DEF FoldersInit, Created
<1>2. RowsOK
  BY <1>1, NoFolderTyped DEF FoldersInit, RowsOK
<1>3. req \in [Requests -> FolderRequest] /\ \A r \in Requests : RequestOK(r)
  BY IdleTyped DEF FoldersInit, RequestOK
<1> QED BY <1>2, <1>3 DEF FoldersInit, FolderShape

\* A request that starts.
LEMMA BeginShape ==
  ASSUME FolderShape, NEW r \in Requests, NEW q \in FolderRequest, Begin(r, q),
         q.step # "idle",
         q.step = "create" => q.f \in Created \cup {NoId},
         q.step \in {"rename", "delete"} => q.f \in Created,
         q.step \in {"create", "rename"} => q.name # <<>> /\ q.path # <<>>
  PROVE  FolderShape'
<1>1. /\ req' = [req EXCEPT ![r] = q] /\ UNCHANGED <<folder, place>>
  BY DEF Begin
<1>2. RowsOK' /\ Created' = Created
  BY <1>1 DEF FolderShape, RowsOK, Created
<1>3. req' \in [Requests -> FolderRequest]
  BY <1>1 DEF FolderShape
<1>4. ASSUME NEW k \in Requests PROVE RequestOK(k)'
  <2>1. CASE k = r
    <3>1. req'[k] = q
      BY <1>1, <2>1 DEF FolderShape
    <3> QED BY <3>1, <1>2 DEF RequestOK
  <2>2. CASE k # r
    BY <1>1, <1>2, <2>2 DEF FolderShape, RequestOK
  <2> QED BY <2>1, <2>2
<1> QED BY <1>1, <1>2, <1>3, <1>4 DEF FolderShape

\* A request that is done.
LEMMA DoneShape ==
  ASSUME FolderShape, NEW r \in Requests, Done(r), RowsOK', Created \subseteq Created',
         place' \in [DocIds -> Folder \cup {NoId}]
  PROVE  FolderShape'
<1>1. req' = [req EXCEPT ![r] = Idle]
  BY DEF Done
<1>2. req' \in [Requests -> FolderRequest]
  BY <1>1, IdleTyped DEF FolderShape
<1>3. ASSUME NEW k \in Requests PROVE RequestOK(k)'
  <2>1. CASE k = r
    <3>1. req'[k] = Idle
      BY <1>1, <2>1 DEF FolderShape
    <3> QED BY <3>1, IdleTyped DEF RequestOK
  <2>2. CASE k # r
    BY <1>1, <2>2 DEF FolderShape, RequestOK
  <2> QED BY <2>1, <2>2
<1> QED BY <1>2, <1>3 DEF FolderShape

\* A row of a folder that was renamed is a row of the same folder.
LEMMA RenamedRows ==
  ASSUME RowsOK, NEW f \in Created, NEW old \in Segments, NEW new \in Segments,
         NEW name \in Segments, new # <<>>, name # <<>>,
         folder' = Renamed(f, old, new, name)
  PROVE  /\ RowsOK' /\ Created' = Created
         /\ \A g \in Folder : /\ folder'[g].parent = folder[g].parent
                              /\ folder'[g].deleted = folder[g].deleted
                              /\ folder'[g].name = IF g = f THEN name ELSE folder[g].name
<1> DEFINE first == [folder EXCEPT ![f].name = name, ![f].path = new]
<1>0. f \in Folder /\ folder \in [Folder -> FolderRow]
  BY DEF RowsOK, Created
<1>1. ASSUME NEW g \in Folder
      PROVE  /\ first[g] \in FolderRow
             /\ first[g].parent = folder[g].parent
             /\ first[g].deleted = folder[g].deleted
             /\ first[g].name = IF g = f THEN name ELSE folder[g].name
             /\ first[g].path = IF g = f THEN new ELSE folder[g].path
             /\ g # f => first[g] = folder[g]
  <2>1. PICK p \in FolderRow : folder[g] = p
    BY <1>0
  <2>2. CASE g = f
    <3>1. first[g] = [p EXCEPT !.name = name, !.path = new]
      BY <1>0, <2>1, <2>2
    <3>2. /\ first[g] \in FolderRow /\ first[g].parent = p.parent
          /\ first[g].deleted = p.deleted /\ first[g].name = name /\ first[g].path = new
      BY <3>1 DEF FolderRow
    <3> QED BY <2>1, <2>2, <3>2
  <2>3. CASE g # f
    <3>1. first[g] = folder[g]
      BY <1>0, <2>3
    <3> QED BY <1>0, <2>3, <3>1
  <2> QED BY <2>2, <2>3
<1> HIDE DEF first
<1>2. folder' = [g \in Folder |->
            IF IsStrictPrefix(old, first[g].path)
            THEN [first[g] EXCEPT !.path = new \o SubSeq(@, Len(old) + 1, Len(@))]
            ELSE first[g]]
  BY DEF Renamed, first
<1>3. ASSUME NEW g \in Folder
      PROVE  /\ folder'[g] \in FolderRow
             /\ folder'[g].parent = folder[g].parent
             /\ folder'[g].deleted = folder[g].deleted
             /\ folder'[g].name = IF g = f THEN name ELSE folder[g].name
             /\ g \in Created => folder'[g].path # <<>>
             /\ g \notin Created => folder'[g] = NoFolder
  <2>0. PICK row \in FolderRow : first[g] = row
    BY <1>1
  <2>a. /\ row.parent = folder[g].parent /\ row.deleted = folder[g].deleted
        /\ row.name = IF g = f THEN name ELSE folder[g].name
        /\ row.path = IF g = f THEN new ELSE folder[g].path
        /\ g # f => row = folder[g]
    BY <1>1, <2>0
  <2>b. /\ g \in Created => folder[g].path # <<>>
        /\ g \notin Created => folder[g] = NoFolder /\ g # f
    BY DEF RowsOK, Created
  <2>1. CASE ~ IsStrictPrefix(old, first[g].path)
    <3>1. folder'[g] = row
      BY <1>2, <2>0, <2>1
    <3> QED BY <2>a, <2>b, <3>1
  <2>2. CASE IsStrictPrefix(old, first[g].path)
    <3>1. folder'[g] = [row EXCEPT !.path = new \o SubSeq(row.path, Len(old) + 1, Len(row.path))]
      BY <1>2, <2>0, <2>2
    <3>2. row.path \in Segments /\ Len(old) < Len(row.path)
      <4>1. row.path \in Segments
        BY DEF FolderRow
      <4>2. Len(old) <= Len(row.path) /\ SubSeq(old, 1, Len(old)) = SubSeq(row.path, 1, Len(old))
            /\ old # row.path
        BY <2>0, <2>2 DEF IsStrictPrefix, IsPrefix
      <4>3. ASSUME Len(old) = Len(row.path) PROVE FALSE
        <5>1. \A i \in 1 .. Len(old) : old[i] = row.path[i]
          <6>1. Len(old) \in 0 .. Len(old)
            BY DEF Segments
          <6> QED BY <4>1, <4>2, <4>3, <6>1, Cut
        <5> QED BY <4>1, <4>2, <4>3, <5>1, SeqEqual DEF Segments
      <4> QED BY <4>1, <4>2, <4>3 DEF Segments
    <3> DEFINE rest == SubSeq(row.path, Len(old) + 1, Len(row.path))
    <3>3. rest \in Segments
      BY <3>2 DEF Segments
    <3>4. new \o rest \in Segments /\ new \o rest # <<>>
      <4>1. Len(new) > 0 /\ Len(rest) \in Nat
        BY <3>3 DEF Segments
      <4> HIDE DEF rest
      <4> QED BY <3>3, <4>1 DEF Segments
    <3> HIDE DEF rest
    <3>5. /\ folder'[g] \in FolderRow /\ folder'[g].path = new \o rest
          /\ folder'[g].parent = row.parent /\ folder'[g].deleted = row.deleted
          /\ folder'[g].name = row.name
      BY <3>1, <3>4 DEF FolderRow, rest
    <3>6. g \in Created
      <4> SUFFICES ASSUME g \notin Created PROVE FALSE
        OBVIOUS
      <4>1. row = NoFolder
        BY <2>a, <2>b
      <4> QED BY <3>2, <4>1, NoFolderTyped DEF Segments
    <3> QED BY <2>a, <3>4, <3>5, <3>6
  <2> QED BY <2>1, <2>2
<1>4. Created' = Created
  <2>1. ASSUME NEW g \in Created PROVE folder'[g] # NoFolder
    <3>1. g \in Folder /\ folder'[g].path # <<>>
      BY <1>3 DEF Created
    <3> QED BY <3>1, NoFolderTyped
  <2> QED BY <1>3, <2>1 DEF Created
<1>5. folder' \in [Folder -> FolderRow]
  BY <1>2, <1>3
<1>6. \A g \in Created : folder'[g].name # <<>> /\ folder'[g].path # <<>>
  BY <1>3 DEF RowsOK, Created
<1> QED BY <1>3, <1>4, <1>5, <1>6 DEF RowsOK

LEMMA ParentPathTyped ==
  ASSUME FolderShape, NEW f \in Folder \cup {NoId}
  PROVE  ParentPath(f) \in Segments
<1>1. CASE f = NoId
  BY <1>1 DEF ParentPath, Segments
<1>2. CASE f # NoId
  <2>1. folder[f] \in FolderRow
    BY <1>2 DEF FolderShape, RowsOK
  <2>2. folder[f].path \in Segments
    BY <2>1 DEF FolderRow
  <2> QED BY <1>2, <2>2 DEF ParentPath
<1> QED BY <1>1, <1>2

LEMMA CreateReadShape ==
  ASSUME FolderShape, NEW r \in Requests, NEW parent \in Folder \cup {NoId},
         NEW name \in Names, CreateRead(r, parent, name)
  PROVE  FolderShape'
<1> DEFINE q == [Idle EXCEPT !.step = "create", !.f = parent, !.name = name,
                             !.path = ParentPath(parent) \o name]
<1>1. name \in Segments /\ name # <<>>
  BY FoldersAssumption DEF Segments, Segment
<1>2. ParentPath(parent) \in Segments
  BY ParentPathTyped
<1>3. ParentPath(parent) \o name \in Segments /\ ParentPath(parent) \o name # <<>>
  BY <1>1, <1>2, Joined
<1>4. /\ q \in FolderRequest /\ q.step = "create" /\ q.f = parent
      /\ q.name = name /\ q.path = ParentPath(parent) \o name
  BY <1>1, <1>3, IdleTyped DEF FolderRequest, Idle
<1>5. parent \in Created \cup {NoId} /\ Begin(r, q)
  BY DEF CreateRead, Alive
<1> HIDE DEF q
<1> QED BY <1>1, <1>3, <1>4, <1>5, BeginShape

LEMMA RenameReadShape ==
  ASSUME FolderShape, NEW r \in Requests, NEW f \in Folder,
         NEW name \in Names, RenameRead(r, f, name)
  PROVE  FolderShape'
<1> DEFINE q == [Idle EXCEPT !.step = "rename", !.f = f, !.name = name,
                             !.path = folder[f].path]
<1>1. name \in Segments /\ name # <<>>
  BY FoldersAssumption DEF Segments, Segment
<1>2. f \in Created /\ Begin(r, q)
  BY DEF RenameRead, Alive
<1>3. folder[f].path \in Segments /\ folder[f].path # <<>>
  BY <1>2 DEF FolderShape, RowsOK, FolderRow
<1>4. /\ q \in FolderRequest /\ q.step = "rename" /\ q.f = f
      /\ q.name = name /\ q.path = folder[f].path
  BY <1>1, <1>3, IdleTyped DEF FolderRequest, Idle
<1> HIDE DEF q
<1> QED BY <1>1, <1>2, <1>3, <1>4, BeginShape

LEMMA OtherReadShape ==
  ASSUME FolderShape, NEW r \in Requests,
         \/ \E f \in Folder : DeleteRead(r, f)
         \/ \E d \in DocIds, f \in Folder \cup {NoId} : MoveRead(r, d, f)
  PROVE  FolderShape'
<1>1. ASSUME NEW f \in Folder, DeleteRead(r, f) PROVE FolderShape'
  <2> DEFINE q == [Idle EXCEPT !.step = "delete", !.f = f]
  <2>1. q \in FolderRequest /\ q.step = "delete" /\ q.f = f
    BY IdleTyped DEF FolderRequest, Idle
  <2>2. f \in Created /\ Begin(r, q)
    BY <1>1 DEF DeleteRead, Alive
  <2> HIDE DEF q
  <2> QED BY <2>1, <2>2, BeginShape
<1>2. ASSUME NEW d \in DocIds, NEW f \in Folder \cup {NoId}, MoveRead(r, d, f)
      PROVE  FolderShape'
  <2> DEFINE q == [Idle EXCEPT !.step = "move", !.d = d, !.f = f]
  <2>1. q \in FolderRequest /\ q.step = "move"
    BY IdleTyped DEF FolderRequest, Idle
  <2>2. Begin(r, q)
    BY <1>2 DEF MoveRead
  <2> HIDE DEF q
  <2> QED BY <2>1, <2>2, BeginShape
<1> QED BY <1>1, <1>2

\* What the request that writes has found.
LEMMA RequestTyped ==
  ASSUME FolderShape, NEW r \in Requests
  PROVE  /\ req[r].f \in Folder \cup {NoId}
         /\ req[r].name \in Segments /\ req[r].path \in Segments
         /\ RequestOK(r)
  BY DEF FolderShape, FolderRequest

LEMMA CreatedRow ==
  ASSUME FolderShape, NEW r \in Requests, NEW f \in Folder, CreateWrite(r, f)
  PROVE  /\ RowsOK' /\ Created' = Created \cup {f} /\ f \notin Created
         /\ \A g \in Folder \ {f} : folder'[g] = folder[g]
         /\ folder'[f].parent = req[r].f /\ folder'[f].name = req[r].name
         /\ folder'[f].path = req[r].path /\ folder'[f].deleted = FALSE
<1> DEFINE n == [parent |-> req[r].f, name |-> req[r].name, path |-> req[r].path,
                 deleted |-> FALSE]
<1>1. n \in FolderRow /\ n.name # <<>> /\ n.path # <<>>
  BY RequestTyped DEF CreateWrite, RequestOK, FolderRow
<1>2. folder' = [folder EXCEPT ![f] = n] /\ folder[f] = NoFolder
  BY DEF CreateWrite
<1>3. n.parent = req[r].f /\ n.name = req[r].name /\ n.path = req[r].path
      /\ n.deleted = FALSE
  OBVIOUS
<1> HIDE DEF n
<1>4. n # NoFolder
  BY <1>1, NoFolderTyped
<1>5. /\ folder' \in [Folder -> FolderRow] /\ folder'[f] = n
      /\ \A g \in Folder \ {f} : folder'[g] = folder[g]
  BY <1>1, <1>2 DEF FolderShape, RowsOK
<1>6. Created' = Created \cup {f} /\ f \notin Created
  BY <1>2, <1>4, <1>5 DEF Created
<1>7. \A g \in Created' : folder'[g].name # <<>> /\ folder'[g].path # <<>>
  BY <1>1, <1>5, <1>6 DEF FolderShape, RowsOK, Created
<1> QED BY <1>3, <1>5, <1>6, <1>7 DEF RowsOK

LEMMA DeletedRow ==
  ASSUME FolderShape, NEW r \in Requests, DeleteWrite(r)
  PROVE  /\ RowsOK' /\ Created' = Created /\ req[r].f \in Created
         /\ place' \in [DocIds -> Folder \cup {NoId}]
         /\ \A g \in Folder : /\ folder'[g].parent = folder[g].parent
                              /\ folder'[g].name = folder[g].name
                              /\ folder'[g].path = folder[g].path
                              /\ g # req[r].f => folder'[g].deleted = folder[g].deleted
<1>1. /\ req[r].f \in Created /\ folder' = [folder EXCEPT ![req[r].f].deleted = TRUE]
      /\ place' = Vacated(req[r].f)
  BY RequestTyped DEF DeleteWrite, RequestOK
<1>2. PICK f \in Created : f = req[r].f
  BY <1>1
<1>3. f \in Folder /\ folder' = [folder EXCEPT ![f].deleted = TRUE]
  BY <1>1, <1>2 DEF Created
<1>4. ASSUME NEW g \in Folder
      PROVE  /\ folder'[g] \in FolderRow
             /\ folder'[g].parent = folder[g].parent
             /\ folder'[g].name = folder[g].name
             /\ folder'[g].path = folder[g].path
             /\ g # f => folder'[g] = folder[g]
  <2>1. PICK p \in FolderRow : folder[g] = p
    BY DEF FolderShape, RowsOK
  <2>2. folder'[g] = IF g = f THEN [p EXCEPT !.deleted = TRUE] ELSE p
    BY <1>3, <2>1 DEF FolderShape, RowsOK
  <2>3. CASE g = f
    <3>1. folder'[g] = [p EXCEPT !.deleted = TRUE]
      BY <2>2, <2>3
    <3> QED BY <2>1, <2>3, <3>1 DEF FolderRow
  <2>4. CASE g # f
    BY <2>1, <2>2, <2>4
  <2> QED BY <2>3, <2>4
<1>5. Created' = Created
  <2>1. folder'[f].name = folder[f].name /\ folder[f].name # <<>>
    BY <1>2, <1>3, <1>4 DEF FolderShape, RowsOK
  <2>2. folder'[f] # NoFolder
    BY <2>1, NoFolderTyped
  <2> QED BY <1>2, <1>4, <2>2 DEF Created
<1>6. folder' \in [Folder -> FolderRow]
  BY <1>3, <1>4 DEF FolderShape, RowsOK
<1>7. \A g \in Created : folder'[g].name # <<>> /\ folder'[g].path # <<>>
  BY <1>4 DEF FolderShape, RowsOK, Created
<1>8. place' \in [DocIds -> Folder \cup {NoId}]
  BY <1>1 DEF Vacated, FolderShape
<1> QED BY <1>1, <1>2, <1>4, <1>5, <1>6, <1>7, <1>8 DEF RowsOK

LEMMA RenameTyped ==
  ASSUME FolderShape, NEW r \in Requests, RenameWrite(r)
  PROVE  \E f \in Created, old \in Segments, name \in Segments :
           /\ f = req[r].f /\ old = req[r].path /\ name = req[r].name
           /\ old # <<>> /\ name # <<>>
           /\ Front(old) \o name \in Segments /\ Front(old) \o name # <<>>
           /\ Len(Front(old) \o name) = Len(old) - 1 + Len(name)
           /\ folder' = Renamed(f, old, Front(old) \o name, name)
           /\ Named(f, Front(old) \o name, name)
<1>1. PICK f \in Created, old \in Segments, name \in Segments :
           /\ f = req[r].f /\ old = req[r].path /\ name = req[r].name
           /\ old # <<>> /\ name # <<>>
  BY RequestTyped DEF RenameWrite, RequestOK
<1>2. Front(old) \in Segments /\ Len(Front(old)) = Len(old) - 1
  BY <1>1, FrontTyped
<1>3. /\ Front(old) \o name \in Segments /\ Front(old) \o name # <<>>
      /\ Len(Front(old) \o name) = Len(old) - 1 + Len(name)
  BY <1>1, <1>2, Joined
<1>4. /\ folder' = Renamed(f, old, Front(old) \o name, name)
      /\ Named(f, Front(old) \o name, name)
  BY <1>1 DEF RenameWrite
<1> QED BY <1>1, <1>3, <1>4

LEMMA FolderShapeStep ==
  ASSUME FolderShape, [FoldersNext]_folderVars
  PROVE  FolderShape'
<1>1. ASSUME NEW r \in Requests, NEW parent \in Folder \cup {NoId}, NEW name \in Names,
             CreateRead(r, parent, name)
      PROVE  FolderShape'
  BY <1>1, CreateReadShape
<1>2. ASSUME NEW r \in Requests, NEW f \in Folder, CreateWrite(r, f) PROVE FolderShape'
  BY <1>2, CreatedRow, DoneShape DEF CreateWrite, FolderShape
<1>3. ASSUME NEW r \in Requests, NEW f \in Folder, NEW name \in Names,
             RenameRead(r, f, name)
      PROVE  FolderShape'
  BY <1>3, RenameReadShape
<1>4. ASSUME NEW r \in Requests, RenameWrite(r) PROVE FolderShape'
  <2>1. RowsOK' /\ Created' = Created
    BY <1>4, RenameTyped, RenamedRows DEF FolderShape
  <2> QED BY <1>4, <2>1, DoneShape DEF RenameWrite, FolderShape
<1>5. ASSUME NEW r \in Requests,
             \/ \E f \in Folder : DeleteRead(r, f)
             \/ \E d \in DocIds, f \in Folder \cup {NoId} : MoveRead(r, d, f)
      PROVE  FolderShape'
  BY <1>5, OtherReadShape
<1>6. ASSUME NEW r \in Requests, DeleteWrite(r) PROVE FolderShape'
  BY <1>6, DeletedRow, DoneShape DEF DeleteWrite
<1>7. ASSUME NEW r \in Requests, MoveWrite(r) PROVE FolderShape'
  <2>1. RowsOK' /\ Created' = Created
    BY <1>7 DEF MoveWrite, FolderShape, RowsOK, Created
  <2>2. place' \in [DocIds -> Folder \cup {NoId}]
    BY <1>7, RequestTyped DEF MoveWrite, FolderShape
  <2> QED BY <1>7, <2>1, <2>2, DoneShape DEF MoveWrite
<1>8. ASSUME NEW d \in DocIds, NEW f \in Folder, Put(d, f) PROVE FolderShape'
  <2>1. RowsOK' /\ Created' = Created /\ UNCHANGED req
    BY <1>8 DEF Put, FolderShape, RowsOK, Created
  <2>2. place' \in [DocIds -> Folder \cup {NoId}]
    BY <1>8 DEF Put, FolderShape
  <2> QED BY <2>1, <2>2 DEF FolderShape, RequestOK
<1>9. CASE UNCHANGED folderVars
  BY <1>9 DEF folderVars, FolderShape, RowsOK, RequestOK, Created
<1> QED BY <1>1, <1>2, <1>3, <1>4, <1>5, <1>6, <1>7, <1>8, <1>9 DEF FoldersNext

-----------------------------------------------------------------------------
(* Folders: one request at a time, and the place of the documents.         *)

OneAtATime ==
    "overlap" \notin odd =>
        \A q, r \in Requests : req[q] # Idle /\ req[r] # Idle => q = r

\* A step begins a request, ends one, or is that of another service.
LEMMA FolderSteps ==
  ASSUME [FoldersNext]_folderVars
  PROVE  /\ odd \subseteq odd'
         /\ \/ UNCHANGED req
            \/ \E r \in Requests : req[r] # Idle /\ Done(r)
            \/ \E r \in Requests : \E q : Begin(r, q)
<1>1. ASSUME NEW r \in Requests, NEW q, Begin(r, q) PROVE odd \subseteq odd'
  BY <1>1 DEF Begin
<1>2. ASSUME NEW r \in Requests, Done(r), req[r].step # "idle" PROVE req[r] # Idle
  BY <1>2, IdleTyped
<1>3. ASSUME NEW f, NEW path, NEW name, Named(f, path, name) PROVE odd \subseteq odd'
  BY <1>3 DEF Named
<1>4. ASSUME NEW r \in Requests, NEW f \in Folder, CreateWrite(r, f)
      PROVE  odd \subseteq odd' /\ Done(r) /\ req[r] # Idle
  BY <1>2, <1>3, <1>4 DEF CreateWrite
<1>5. ASSUME NEW r \in Requests, RenameWrite(r)
      PROVE  odd \subseteq odd' /\ Done(r) /\ req[r] # Idle
  BY <1>2, <1>3, <1>5 DEF RenameWrite
<1>6. ASSUME NEW r \in Requests, DeleteWrite(r) \/ MoveWrite(r)
      PROVE  odd \subseteq odd' /\ Done(r) /\ req[r] # Idle
  BY <1>2, <1>6 DEF DeleteWrite, MoveWrite
<1>7. ASSUME NEW r \in Requests,
             \/ \E parent \in Folder \cup {NoId}, name \in Names : CreateRead(r, parent, name)
             \/ \E f \in Folder, name \in Names : RenameRead(r, f, name)
             \/ \E f \in Folder : DeleteRead(r, f)
             \/ \E d \in DocIds, f \in Folder \cup {NoId} : MoveRead(r, d, f)
      PROVE  \E q : Begin(r, q)
  BY <1>7 DEF CreateRead, RenameRead, DeleteRead, MoveRead
<1>8. ASSUME NEW d \in DocIds, NEW f \in Folder, Put(d, f)
      PROVE  odd \subseteq odd' /\ UNCHANGED req
  BY <1>8 DEF Put
<1>9. CASE UNCHANGED folderVars
  BY <1>9 DEF folderVars
<1>10. CASE \E r \in Requests, f \in Folder : CreateWrite(r, f)
  BY <1>4, <1>10
<1>11. CASE \E r \in Requests : RenameWrite(r) \/ DeleteWrite(r) \/ MoveWrite(r)
  BY <1>5, <1>6, <1>11
<1>12. CASE \E d \in DocIds, f \in Folder : Put(d, f)
  BY <1>8, <1>12
<1>13. CASE \E r \in Requests :
             \/ \E parent \in Folder \cup {NoId}, name \in Names : CreateRead(r, parent, name)
             \/ \E f \in Folder, name \in Names : RenameRead(r, f, name)
             \/ \E f \in Folder : DeleteRead(r, f)
             \/ \E d \in DocIds, f \in Folder \cup {NoId} : MoveRead(r, d, f)
  <2>1. PICK r \in Requests : \E q : Begin(r, q)
    BY <1>7, <1>13
  <2>2. odd \subseteq odd'
    BY <1>1, <2>1
  <2> QED BY <2>1, <2>2
<1> QED BY <1>9, <1>10, <1>11, <1>12, <1>13 DEF FoldersNext

LEMMA OneAtATimeStep ==
  ASSUME FolderShape, OneAtATime, [FoldersNext]_folderVars
  PROVE  OneAtATime'
<1> SUFFICES ASSUME "overlap" \notin odd', NEW k \in Requests, NEW r \in Requests,
                    req'[k] # Idle, req'[r] # Idle
             PROVE  k = r
  BY DEF OneAtATime
<1>0. "overlap" \notin odd /\ req \in [Requests -> FolderRequest]
  BY FolderSteps DEF FolderShape
<1>1. CASE UNCHANGED req
  BY <1>0, <1>1 DEF OneAtATime
<1>2. ASSUME NEW u \in Requests, Done(u) PROVE k = r
  BY <1>0, <1>2 DEF OneAtATime, Done
<1>3. ASSUME NEW u \in Requests, NEW q, Begin(u, q) PROVE k = r
  <2>1. \A v \in Requests : req[v] = Idle
    BY <1>3 DEF Begin
  <2> QED BY <1>0, <1>3, <2>1 DEF Begin
<1> QED BY <1>1, <1>2, <1>3, FolderSteps

\* The request that writes is the only one.
LEMMA OnlyRequest ==
  ASSUME OneAtATime, "overlap" \notin odd, NEW r \in Requests, req[r].step # "idle"
  PROVE  \A k \in Requests \ {r} : req[k] = Idle
  BY IdleTyped DEF OneAtATime

\* Documents are, and will be moved, where a folder is.
InPlace ==
    odd \cap {"overlap", "unchecked"} = {} =>
        /\ \A d \in DocIds : place[d] \in Alive \cup {NoId}
        /\ \A r \in Requests : req[r].step = "move" => req[r].f \in Alive \cup {NoId}

LEMMA InPlaceStep ==
  ASSUME FolderShape, FolderShape', OneAtATime, InPlace, [FoldersNext]_folderVars
  PROVE  InPlace'
<1> SUFFICES ASSUME "overlap" \notin odd', "unchecked" \notin odd'
             PROVE  /\ \A d \in DocIds : place'[d] \in Alive' \cup {NoId}
                    /\ \A r \in Requests :
                         req'[r].step = "move" => req'[r].f \in Alive' \cup {NoId}
  BY DEF InPlace
<1>0. /\ "overlap" \notin odd /\ "unchecked" \notin odd
      /\ \A d \in DocIds : place[d] \in Alive \cup {NoId}
      /\ \A r \in Requests : req[r].step = "move" => req[r].f \in Alive \cup {NoId}
      /\ req \in [Requests -> FolderRequest]
  BY FolderSteps DEF InPlace, FolderShape
<1> DEFINE Goal == /\ \A d \in DocIds : place'[d] \in Alive' \cup {NoId}
                   /\ \A r \in Requests :
                        req'[r].step = "move" => req'[r].f \in Alive' \cup {NoId}
<1>1. ASSUME NEW r \in Requests, NEW q \in FolderRequest, Begin(r, q),
             q.step = "move" => q.f \in Alive \cup {NoId}
      PROVE  Goal
  <2>1. Alive' = Alive /\ place' = place /\ req' = [req EXCEPT ![r] = q]
    BY <1>1 DEF Begin, Alive, Created
  <2>2. ASSUME NEW k \in Requests, req'[k].step = "move"
        PROVE  req'[k].f \in Alive \cup {NoId}
    <3>1. CASE k = r
      BY <1>0, <1>1, <2>1, <2>2, <3>1
    <3>2. CASE k # r
      BY <1>0, <2>1, <2>2, <3>2
    <3> QED BY <3>1, <3>2
  <2> QED BY <1>0, <2>1, <2>2
<1>2. ASSUME NEW r \in Requests, Done(r), Alive \subseteq Alive',
             \A d \in DocIds : place'[d] \in Alive' \cup {NoId}
      PROVE  Goal
  <2>1. ASSUME NEW k \in Requests, req'[k].step = "move"
        PROVE  req'[k].f \in Alive' \cup {NoId}
    <3>1. CASE k = r
      BY <1>0, <1>2, <2>1, <3>1, IdleTyped DEF Done
    <3>2. CASE k # r
      BY <1>0, <1>2, <2>1, <3>2 DEF Done
    <3> QED BY <3>1, <3>2
  <2> QED BY <1>2, <2>1
<1>3. ASSUME NEW r \in Requests, NEW parent \in Folder \cup {NoId}, NEW name \in Names,
             CreateRead(r, parent, name)
      PROVE  Goal
  <2> DEFINE q == [Idle EXCEPT !.step = "create", !.f = parent, !.name = name,
                               !.path = ParentPath(parent) \o name]
  <2>1. q.step = "create"
    BY DEF Idle
  <2>2. Begin(r, q)
    BY <1>3 DEF CreateRead
  <2>3. req'[r] = q
    BY <1>0, <2>2 DEF Begin
  <2>4. q \in FolderRequest
    BY <2>3 DEF FolderShape
  <2> HIDE DEF q
  <2> QED BY <1>1, <2>1, <2>2, <2>4
<1>4. ASSUME NEW r \in Requests, NEW f \in Folder, NEW name \in Names,
             RenameRead(r, f, name)
      PROVE  Goal
  <2> DEFINE q == [Idle EXCEPT !.step = "rename", !.f = f, !.name = name,
                               !.path = folder[f].path]
  <2>1. q.step = "rename"
    BY DEF Idle
  <2>2. Begin(r, q)
    BY <1>4 DEF RenameRead
  <2>3. req'[r] = q
    BY <1>0, <2>2 DEF Begin
  <2>4. q \in FolderRequest
    BY <2>3 DEF FolderShape
  <2> HIDE DEF q
  <2> QED BY <1>1, <2>1, <2>2, <2>4
<1>5. ASSUME NEW r \in Requests, NEW f \in Folder, DeleteRead(r, f) PROVE Goal
  <2> DEFINE q == [Idle EXCEPT !.step = "delete", !.f = f]
  <2>1. q.step = "delete" /\ q \in FolderRequest
    BY IdleTyped DEF Idle, FolderRequest
  <2>2. Begin(r, q)
    BY <1>5 DEF DeleteRead
  <2> HIDE DEF q
  <2> QED BY <1>1, <2>1, <2>2
<1>6. ASSUME NEW r \in Requests, NEW d \in DocIds, NEW f \in Folder \cup {NoId},
             MoveRead(r, d, f)
      PROVE  Goal
  <2> DEFINE q == [Idle EXCEPT !.step = "move", !.d = d, !.f = f]
  <2>1. q.f = f /\ q \in FolderRequest
    BY IdleTyped DEF Idle, FolderRequest
  <2>2. Begin(r, q) /\ f \in Alive \cup {NoId}
    BY <1>6 DEF MoveRead
  <2> HIDE DEF q
  <2> QED BY <1>1, <2>1, <2>2
<1>7. ASSUME NEW r \in Requests, NEW f \in Folder, CreateWrite(r, f) PROVE Goal
  <2>1. Alive \subseteq Alive'
    BY <1>7, CreatedRow DEF Alive, Created
  <2>2. place' = place /\ Done(r)
    BY <1>7 DEF CreateWrite
  <2> QED BY <1>0, <1>2, <2>1, <2>2
<1>8. ASSUME NEW r \in Requests, RenameWrite(r) PROVE Goal
  <2>1. /\ Created' = Created
        /\ \A g \in Folder : folder'[g].deleted = folder[g].deleted
    <3>1. PICK f \in Created, old \in Segments, name \in Segments :
             /\ name # <<>>
             /\ Front(old) \o name \in Segments /\ Front(old) \o name # <<>>
             /\ folder' = Renamed(f, old, Front(old) \o name, name)
      BY <1>8, RenameTyped
    <3>2. RowsOK
      BY DEF FolderShape
    <3> QED BY <3>1, <3>2, RenamedRows
  <2>2. Alive' = Alive
    BY <2>1 DEF Alive, Created
  <2>3. place' = place /\ Done(r)
    BY <1>8 DEF RenameWrite
  <2> QED BY <1>0, <1>2, <2>2, <2>3
<1>9. ASSUME NEW r \in Requests, DeleteWrite(r) PROVE Goal
  <2>1. /\ RowsOK' /\ Created' = Created /\ req[r].f \in Created
        /\ place' \in [DocIds -> Folder \cup {NoId}]
        /\ \A g \in Folder : /\ folder'[g].parent = folder[g].parent
                             /\ folder'[g].name = folder[g].name
                             /\ folder'[g].path = folder[g].path
                             /\ g # req[r].f => folder'[g].deleted = folder[g].deleted
    BY <1>9, DeletedRow, Zenon
  <2>a. \A g \in Folder : g # req[r].f => folder'[g].deleted = folder[g].deleted
    BY <2>1, Zenon
  <2>b. ASSUME NEW g \in Alive, g # req[r].f PROVE g \in Alive'
    <3>1. g \in Folder /\ g \in Created /\ ~ folder[g].deleted
      BY DEF Alive, Created
    <3>2. ~ folder'[g].deleted
      BY <2>a, <2>b, <3>1, Zenon
    <3>3. g \in Created'
      BY <2>1, <3>1, Zenon
    <3> QED BY <3>2, <3>3 DEF Alive
  <2>2. \A g \in Alive : g # req[r].f => g \in Alive'
    BY <2>b
  <2>3. place' = Vacated(req[r].f)
    BY <1>9 DEF DeleteWrite
  <2>4. \A d \in DocIds : place'[d] \in Alive' \cup {NoId}
    BY <1>0, <2>2, <2>3 DEF Vacated
  <2>5. \A k \in Requests \ {r} : req[k] = Idle
    BY <1>0, <1>9, OnlyRequest DEF DeleteWrite
  <2>6. \A k \in Requests : req'[k] = Idle
    BY <1>0, <1>9, <2>5 DEF DeleteWrite, Done
  <2> QED BY <2>4, <2>6, IdleTyped
<1>10. ASSUME NEW r \in Requests, MoveWrite(r) PROVE Goal
  <2>1. Alive' = Alive
    BY <1>10 DEF MoveWrite, Alive, Created
  <2>2. place' = [place EXCEPT ![req[r].d] = req[r].f] /\ req[r].f \in Alive \cup {NoId}
    BY <1>0, <1>10 DEF MoveWrite
  <2>3. \A d \in DocIds : place'[d] \in {place[d], req[r].f}
    BY <2>2 DEF FolderShape
  <2> QED BY <1>0, <1>2, <1>10, <2>1, <2>2, <2>3 DEF MoveWrite
<1>11. ASSUME NEW d \in DocIds, NEW f \in Folder, Put(d, f) PROVE Goal
  <2>1. f \in Created /\ ~ folder[f].deleted
    BY <1>11 DEF Put
  <2>2. f \in Alive /\ Alive' = Alive /\ UNCHANGED req
    BY <1>11, <2>1 DEF Put, Alive, Created
  <2>3. \A k \in DocIds : place'[k] \in {place[k], f}
    BY <1>11 DEF Put, FolderShape
  <2> QED BY <1>0, <2>2, <2>3
<1>12. CASE UNCHANGED folderVars
  BY <1>0, <1>12 DEF folderVars, Alive, Created
<1> QED BY <1>3, <1>4, <1>5, <1>6, <1>7, <1>8, <1>9, <1>10, <1>11, <1>12 DEF FoldersNext

\* DocumentService.deleteFolder and moveDocument, for any number of folders,
\* documents and requests: unless requests overlapped, or an upload or an update
\* named a deleted folder, every document is in a folder that is there or in none.
THEOREM DocumentsInPlace == FoldersSpec => []PlacedInLiveFolders
<1>1. FoldersInit => FolderShape /\ OneAtATime /\ InPlace
  <2>1. FoldersInit => OneAtATime /\ InPlace
    BY IdleTyped DEF FoldersInit, OneAtATime, InPlace
  <2> QED BY <2>1, FolderShapeInit
<1>2. FolderShape /\ OneAtATime /\ InPlace /\ [FoldersNext]_folderVars
        => (FolderShape /\ OneAtATime /\ InPlace)'
  BY FolderShapeStep, OneAtATimeStep, InPlaceStep
<1>3. InPlace => PlacedInLiveFolders
  BY DEF InPlace, PlacedInLiveFolders
<1> QED BY <1>1, <1>2, <1>3, PTL DEF FoldersSpec

-----------------------------------------------------------------------------
(* Folders: the paths.  A renaming, seen as a map of paths: the last       *)
(* segment of the old path is replaced wherever that path is a prefix.     *)

Under(s, old) == Len(old) <= Len(s) /\ \A i \in 1 .. Len(old) : s[i] = old[i]

Moved(s, old, y) ==
    [i \in 1 .. Len(s) |-> IF Under(s, old) /\ i = Len(old) THEN y ELSE s[i]]

LEMMA PrefixMeans ==
  ASSUME NEW s \in Segments, NEW t \in Segments
  PROVE  IsPrefix(s, t) <=> Under(t, s)
<1>1. Len(s) \in 0 .. Len(s)
  BY DEF Segments
<1>2. CASE Len(s) <= Len(t)
  <2>1. Len(s) \in 0 .. Len(t)
    BY <1>2 DEF Segments
  <2>2. /\ Len(SubSeq(s, 1, Len(s))) = Len(s) /\ Len(SubSeq(t, 1, Len(s))) = Len(s)
        /\ \A i \in 1 .. Len(s) : SubSeq(s, 1, Len(s))[i] = s[i]
        /\ \A i \in 1 .. Len(s) : SubSeq(t, 1, Len(s))[i] = t[i]
        /\ SubSeq(s, 1, Len(s)) \in Segments /\ SubSeq(t, 1, Len(s)) \in Segments
    BY <1>1, <2>1, Cut
  <2>3. SubSeq(s, 1, Len(s)) = SubSeq(t, 1, Len(s))
          <=> \A i \in 1 .. Len(s) : t[i] = s[i]
    <3>1. ASSUME \A i \in 1 .. Len(s) : t[i] = s[i]
          PROVE  SubSeq(s, 1, Len(s)) = SubSeq(t, 1, Len(s))
      BY <2>2, <3>1, SeqEqual DEF Segments
    <3>2. ASSUME SubSeq(s, 1, Len(s)) = SubSeq(t, 1, Len(s)), NEW i \in 1 .. Len(s)
          PROVE  t[i] = s[i]
      BY <2>2, <3>2
    <3> QED BY <3>1, <3>2
  <2> QED BY <1>2, <2>3 DEF IsPrefix, Under
<1>3. CASE ~(Len(s) <= Len(t))
  BY <1>3 DEF IsPrefix, Under
<1> QED BY <1>2, <1>3

LEMMA MovedAt ==
  ASSUME NEW s \in Segments, NEW old \in Segments, old # <<>>, NEW y \in Segment
  PROVE  /\ Moved(s, old, y) \in Segments /\ Len(Moved(s, old, y)) = Len(s)
         /\ \A i \in 1 .. Len(s) : Moved(s, old, y)[i] =
                IF Under(s, old) /\ i = Len(old) THEN y ELSE s[i]
<1>1. Moved(s, old, y) \in [1 .. Len(s) -> Segment] /\ Len(s) \in Nat
  BY DEF Moved, Segments
<1>2. Moved(s, old, y) \in Seq(Segment)
  BY <1>1, SeqDef
<1>3. Len(Moved(s, old, y)) = Len(s)
  BY <1>1, <1>2
<1>4. \A i \in 1 .. Len(s) : Moved(s, old, y)[i] =
          IF Under(s, old) /\ i = Len(old) THEN y ELSE s[i]
  BY DEF Moved
<1> QED BY <1>2, <1>3, <1>4 DEF Segments

LEMMA MovedShort ==
  ASSUME NEW s \in Segments, NEW old \in Segments, old # <<>>, NEW y \in Segment,
         Len(s) < Len(old)
  PROVE  Moved(s, old, y) = s
<1>1. ~ Under(s, old)
  BY DEF Under, Segments
<1>2. /\ Moved(s, old, y) \in Segments /\ Len(Moved(s, old, y)) = Len(s)
      /\ \A i \in 1 .. Len(s) : Moved(s, old, y)[i] = s[i]
  BY <1>1, MovedAt
<1> QED BY <1>2, SeqEqual DEF Segments

LEMMA OneSegment ==
  ASSUME NEW s \in Segments, NEW name \in Segments, Len(name) = 1
  PROVE  /\ s \o name \in Segments /\ Len(s \o name) = Len(s) + 1
         /\ \A i \in 1 .. Len(s) + 1 :
               (s \o name)[i] = IF i <= Len(s) THEN s[i] ELSE name[1]
<1>1. /\ s \o name \in Seq(Segment) /\ Len(s \o name) = Len(s) + Len(name)
      /\ \A i \in 1 .. Len(s) + Len(name) :
            (s \o name)[i] = IF i <= Len(s) THEN s[i] ELSE name[i - Len(s)]
  BY ConcatProperties DEF Segments
<1>2. ASSUME NEW i \in 1 .. Len(s) + 1
      PROVE  (s \o name)[i] = IF i <= Len(s) THEN s[i] ELSE name[1]
  <2>1. Len(s) \in Nat
    BY DEF Segments
  <2>2. ~(i <= Len(s)) => i - Len(s) = 1
    BY <2>1
  <2> QED BY <1>1, <2>2
<1> QED BY <1>1, <1>2 DEF Segments

\* Below a folder that is not the renamed one, a path is still its parent's
\* and the name.
LEMMA MovedJoined ==
  ASSUME NEW s \in Segments, NEW name \in Segments, Len(name) = 1,
         NEW old \in Segments, old # <<>>, NEW y \in Segment, s \o name # old
  PROVE  Moved(s \o name, old, y) = Moved(s, old, y) \o name
<1>1. /\ s \o name \in Segments /\ Len(s \o name) = Len(s) + 1
      /\ \A i \in 1 .. Len(s) + 1 : (s \o name)[i] = IF i <= Len(s) THEN s[i] ELSE name[1]
  BY OneSegment
<1>2. Under(s \o name, old) <=> Under(s, old)
  <2>1. ASSUME Under(s, old) PROVE Under(s \o name, old)
    BY <1>1, <2>1 DEF Under, Segments
  <2>2. ASSUME Under(s \o name, old) PROVE Under(s, old)
    <3>1. CASE Len(old) <= Len(s)
      BY <1>1, <2>2, <3>1 DEF Under, Segments
    <3>2. CASE ~(Len(old) <= Len(s))
      <4>1. Len(old) = Len(s \o name)
        BY <1>1, <2>2, <3>2 DEF Under, Segments
      <4>2. \A i \in 1 .. Len(old) : (s \o name)[i] = old[i]
        BY <2>2 DEF Under
      <4> QED BY <1>1, <4>1, <4>2, SeqEqual DEF Segments
    <3> QED BY <3>1, <3>2
  <2> QED BY <2>1, <2>2
<1> DEFINE a == Moved(s \o name, old, y)
           m == Moved(s, old, y)
<1>3. /\ a \in Segments /\ Len(a) = Len(s) + 1
      /\ \A i \in 1 .. Len(s) + 1 : a[i] =
             IF Under(s, old) /\ i = Len(old) THEN y ELSE (s \o name)[i]
  <2> DEFINE z == s \o name
  <2>1. z \in Segments /\ Len(z) = Len(s) + 1 /\ (Under(z, old) <=> Under(s, old))
    BY <1>1, <1>2
  <2> HIDE DEF z
  <2>2. /\ Moved(z, old, y) \in Segments /\ Len(Moved(z, old, y)) = Len(z)
        /\ \A i \in 1 .. Len(z) : Moved(z, old, y)[i] =
               IF Under(z, old) /\ i = Len(old) THEN y ELSE z[i]
    BY <2>1, MovedAt
  <2> QED BY <2>1, <2>2 DEF z
<1>4. /\ m \in Segments /\ Len(m) = Len(s)
      /\ \A i \in 1 .. Len(s) : m[i] =
             IF Under(s, old) /\ i = Len(old) THEN y ELSE s[i]
  BY MovedAt
<1>5. Under(s, old) => Len(old) <= Len(s)
  BY DEF Under
<1> HIDE DEF a, m
<1>6. /\ m \o name \in Segments /\ Len(m \o name) = Len(s) + 1
      /\ \A i \in 1 .. Len(s) + 1 : (m \o name)[i] = IF i <= Len(s) THEN m[i] ELSE name[1]
  <2>1. /\ m \o name \in Segments /\ Len(m \o name) = Len(m) + 1
        /\ \A i \in 1 .. Len(m) + 1 :
              (m \o name)[i] = IF i <= Len(m) THEN m[i] ELSE name[1]
    BY <1>4, OneSegment
  <2> QED BY <1>4, <2>1
<1>7. ASSUME NEW i \in 1 .. Len(s) + 1 PROVE a[i] = (m \o name)[i]
  <2>0. Len(s) \in Nat /\ Len(old) \in Nat
    BY DEF Segments
  <2>1. CASE i <= Len(s)
    BY <1>1, <1>3, <1>4, <1>6, <2>0, <2>1
  <2>2. CASE ~(i <= Len(s))
    BY <1>1, <1>3, <1>5, <1>6, <2>0, <2>2
  <2> QED BY <2>1, <2>2
<1>8. a = m \o name
  <2>1. Len(a) = Len(m \o name) /\ \A i \in 1 .. Len(a) : a[i] = (m \o name)[i]
    BY <1>3, <1>6, <1>7
  <2> QED BY <1>3, <1>6, <2>1, SeqEqual DEF Segments
<1> QED BY <1>8 DEF a, m

LEMMA MovedCut ==
  ASSUME NEW s \in Segments, NEW n \in 1 .. Len(s),
         NEW old \in Segments, old # <<>>, NEW y \in Segment
  PROVE  SubSeq(Moved(s, old, y), 1, n) = Moved(SubSeq(s, 1, n), old, y)
<1>0. Len(s) \in Nat /\ Len(old) \in Nat /\ n \in 0 .. Len(s) /\ n \in Nat
  BY DEF Segments
<1> DEFINE c == SubSeq(s, 1, n)
           m == Moved(s, old, y)
           d == Moved(c, old, y)
           e == SubSeq(m, 1, n)
<1>1. c \in Segments /\ Len(c) = n /\ \A i \in 1 .. n : c[i] = s[i]
  BY <1>0, Cut
<1>2. /\ m \in Segments /\ Len(m) = Len(s)
      /\ \A i \in 1 .. Len(s) : m[i] =
             IF Under(s, old) /\ i = Len(old) THEN y ELSE s[i]
  BY MovedAt
<1>3. /\ d \in Segments /\ Len(d) = n
      /\ \A i \in 1 .. n : d[i] =
             IF Under(c, old) /\ i = Len(old) THEN y ELSE c[i]
  <2>1. c \in Segments /\ Len(c) = n
    BY <1>1
  <2> HIDE DEF c
  <2>2. /\ d \in Segments /\ Len(d) = Len(c)
        /\ \A i \in 1 .. Len(c) : d[i] =
               IF Under(c, old) /\ i = Len(old) THEN y ELSE c[i]
    BY <2>1, MovedAt
  <2> QED BY <2>1, <2>2
<1>4. e \in Segments /\ Len(e) = n /\ \A i \in 1 .. n : e[i] = m[i]
  BY <1>0, <1>2, Cut
<1>5. Under(c, old) <=> (Under(s, old) /\ Len(old) <= n)
  BY <1>0, <1>1 DEF Under
<1> HIDE DEF c, m, d, e
<1>6. ASSUME NEW i \in 1 .. n PROVE d[i] = e[i]
  BY <1>0, <1>1, <1>2, <1>3, <1>4, <1>5
<1>7. d = e
  BY <1>3, <1>4, <1>6, SeqEqual DEF Segments
<1> QED BY <1>7 DEF c, m, d, e

\* Two paths become one only when the new path was there before.
LEMMA MovedApart ==
  ASSUME NEW s \in Segments, NEW t \in Segments, s # t,
         NEW old \in Segments, old # <<>>, NEW y \in Segment,
         Moved(s, old, y) = Moved(t, old, y)
  PROVE  /\ Moved(old, old, y) # old
         /\ \E u \in {s, t} : /\ Len(old) \in 1 .. Len(u)
                              /\ SubSeq(u, 1, Len(old)) = Moved(old, old, y)
<1>0. Len(s) \in Nat /\ Len(t) \in Nat /\ Len(old) \in Nat /\ Len(old) > 0
  BY DEF Segments
<1>1. Len(s) = Len(t)
  BY MovedAt
<1>2. PICK k \in 1 .. Len(s) : s[k] # t[k]
  BY <1>1, SeqEqual DEF Segments
<1>3. (IF Under(s, old) /\ k = Len(old) THEN y ELSE s[k])
        = (IF Under(t, old) /\ k = Len(old) THEN y ELSE t[k])
  <2>1. Moved(s, old, y)[k] = IF Under(s, old) /\ k = Len(old) THEN y ELSE s[k]
    BY DEF Moved
  <2>2. Moved(t, old, y)[k] = IF Under(t, old) /\ k = Len(old) THEN y ELSE t[k]
    BY <1>1 DEF Moved
  <2> QED BY <2>1, <2>2
<1>4. k = Len(old) /\ ~(Under(s, old) /\ Under(t, old)) /\ (Under(s, old) \/ Under(t, old))
  BY <1>0, <1>1, <1>2, <1>3 DEF Under
<1>5. ASSUME NEW u \in Segments, NEW v \in Segments, Len(u) = Len(v), k \in 1 .. Len(u),
             Moved(u, old, y) = Moved(v, old, y), Under(v, old), ~ Under(u, old)
      PROVE  /\ Moved(old, old, y) # old
             /\ Len(old) \in 1 .. Len(u) /\ SubSeq(u, 1, Len(old)) = Moved(old, old, y)
  <2>1. Under(old, old)
    BY <1>0 DEF Under
  <2>2. /\ Moved(old, old, y) \in Segments /\ Len(Moved(old, old, y)) = Len(old)
        /\ \A i \in 1 .. Len(old) : Moved(old, old, y)[i] =
               IF i = Len(old) THEN y ELSE old[i]
    <3>1. /\ Moved(old, old, y) \in Segments /\ Len(Moved(old, old, y)) = Len(old)
      BY MovedAt
    <3>2. \A i \in 1 .. Len(old) : Moved(old, old, y)[i] =
               IF i = Len(old) THEN y ELSE old[i]
      BY <2>1 DEF Moved
    <3> QED BY <3>1, <3>2
  <2>3. \A i \in 1 .. Len(u) : u[i] = IF i = Len(old) THEN y ELSE v[i]
    <3>1. \A i \in 1 .. Len(u) : Moved(u, old, y)[i] = u[i]
      BY <1>5, MovedAt
    <3>2. \A i \in 1 .. Len(v) : Moved(v, old, y)[i] =
              IF i = Len(old) THEN y ELSE v[i]
      BY <1>5 DEF Moved
    <3> QED BY <1>5, <3>1, <3>2
  <2>4. Len(old) \in 0 .. Len(u) /\ Len(old) \in 1 .. Len(u)
    BY <1>0, <1>4, <1>5
  <2>5. /\ SubSeq(u, 1, Len(old)) \in Segments /\ Len(SubSeq(u, 1, Len(old))) = Len(old)
        /\ \A i \in 1 .. Len(old) : SubSeq(u, 1, Len(old))[i] = u[i]
    BY <2>4, Cut
  <2>6. \A i \in 1 .. Len(old) : v[i] = old[i]
    BY <1>5 DEF Under
  <2>7. ASSUME NEW i \in 1 .. Len(old)
        PROVE  SubSeq(u, 1, Len(old))[i] = Moved(old, old, y)[i]
    <3>1. i \in 1 .. Len(u)
      BY <1>0, <2>4
    <3> QED BY <2>2, <2>3, <2>5, <2>6, <3>1
  <2>8. SubSeq(u, 1, Len(old)) = Moved(old, old, y)
    BY <2>2, <2>5, <2>7, SeqEqual DEF Segments
  <2>9. Moved(old, old, y) # old
    <3> SUFFICES ASSUME Moved(old, old, y) = old PROVE Under(u, old)
      BY <1>5
    <3>1. \A i \in 1 .. Len(old) : u[i] = old[i]
      BY <2>5, <2>8
    <3> QED BY <2>4, <3>1 DEF Under
  <2> QED BY <2>4, <2>8, <2>9
<1>6. CASE Under(t, old) /\ ~ Under(s, old)
  BY <1>1, <1>5, <1>6
<1>7. CASE Under(s, old) /\ ~ Under(t, old)
  BY <1>1, <1>5, <1>7
<1> QED BY <1>4, <1>6, <1>7

\* The only path that a renaming does not map by its text is that of the folder
\* itself, and for that the map gives the same.
LEMMA RenamedPaths ==
  ASSUME RowsOK, NEW f \in Created, NEW old \in Segments, NEW name \in Segments,
         old = folder[f].path, Len(name) = 1,
         \A g \in Created : folder[g].path = old => g = f,
         folder' = Renamed(f, old, Front(old) \o name, name)
  PROVE  /\ name[1] \in Segment
         /\ Front(old) \o name = Moved(old, old, name[1])
         /\ \A g \in Created : folder'[g].path = Moved(folder[g].path, old, name[1])
<1> DEFINE new == Front(old) \o name
           y   == name[1]
<1>0. /\ f \in Folder /\ folder \in [Folder -> FolderRow] /\ old # <<>>
      /\ Len(old) \in Nat /\ Len(old) >= 1
  BY DEF RowsOK, Created, Segments
<1>1. y \in Segment
  BY DEF Segments
<1>2. /\ Front(old) \in Segments /\ Len(Front(old)) = Len(old) - 1
      /\ \A i \in 1 .. Len(old) - 1 : Front(old)[i] = old[i]
  BY <1>0, FrontTyped
<1>3. /\ new \in Segments /\ Len(new) = Len(old)
      /\ \A i \in 1 .. Len(old) : new[i] = IF i = Len(old) THEN y ELSE old[i]
  <2> DEFINE s == Front(old)
  <2>1. s \in Segments /\ Len(s) = Len(old) - 1 /\ new = s \o name
        /\ \A i \in 1 .. Len(old) - 1 : s[i] = old[i]
    BY <1>2
  <2> HIDE DEF s
  <2>2. /\ s \o name \in Segments /\ Len(s \o name) = Len(s) + 1
        /\ \A i \in 1 .. Len(s) + 1 :
              (s \o name)[i] = IF i <= Len(s) THEN s[i] ELSE name[1]
    BY <2>1, OneSegment
  <2>3. Len(s) + 1 = Len(old)
    BY <1>0, <2>1
  <2>4. \A i \in 1 .. Len(old) : new[i] = IF i <= Len(s) THEN s[i] ELSE y
    BY <2>1, <2>2, <2>3
  <2>5. ASSUME NEW i \in 1 .. Len(old)
        PROVE  new[i] = IF i = Len(old) THEN y ELSE old[i]
    <3>1. CASE i = Len(old)
      <4>1. ~(i <= Len(s))
        BY <1>0, <2>1, <3>1
      <4> QED BY <2>4, <3>1, <4>1
    <3>2. CASE i # Len(old)
      <4>1. i \in 1 .. Len(old) - 1 /\ i <= Len(s)
        BY <1>0, <2>1, <3>2
      <4> QED BY <2>1, <2>4, <3>2, <4>1
    <3> QED BY <3>1, <3>2
  <2> QED BY <2>1, <2>2, <2>3, <2>5
<1> HIDE DEF y
<1>4. Under(old, old)
  BY <1>0 DEF Under
<1>5. new = Moved(old, old, y)
  <2>1. /\ Moved(old, old, y) \in Segments /\ Len(Moved(old, old, y)) = Len(old)
    BY <1>0, <1>1, MovedAt
  <2>2. \A i \in 1 .. Len(old) : Moved(old, old, y)[i] = IF i = Len(old) THEN y ELSE old[i]
    BY <1>4 DEF Moved
  <2> HIDE DEF new
  <2>3. Len(new) = Len(Moved(old, old, y))
        /\ \A i \in 1 .. Len(new) : new[i] = Moved(old, old, y)[i]
    BY <1>3, <2>1, <2>2
  <2> QED BY <1>3, <2>1, <2>3, SeqEqual DEF Segments
<1>6. folder' = Renamed(f, old, new, name)
  OBVIOUS
<1> HIDE DEF new
<1> DEFINE first == [folder EXCEPT ![f].name = name, ![f].path = new]
<1>7. folder' = [g \in Folder |->
            IF IsStrictPrefix(old, first[g].path)
            THEN [first[g] EXCEPT !.path = new \o SubSeq(@, Len(old) + 1, Len(@))]
            ELSE first[g]]
  BY <1>6 DEF Renamed
<1>8. first[f].path = new /\ \A g \in Folder \ {f} : first[g] = folder[g]
  <2>1. PICK p \in FolderRow : folder[f] = p
    BY <1>0
  <2>2. first[f] = [p EXCEPT !.name = name, !.path = new]
    BY <1>0, <2>1
  <2> QED BY <1>0, <2>2 DEF FolderRow
<1> HIDE DEF first
<1>9. ASSUME NEW g \in Created PROVE folder'[g].path = Moved(folder[g].path, old, y)
  <2>0. g \in Folder /\ folder[g].path \in Segments /\ folder[g] \in FolderRow
    BY <1>0 DEF Created, FolderRow
  <2>1. CASE g = f
    <3>1. ~ IsStrictPrefix(old, new)
      <4>1. ASSUME Under(new, old) PROVE old = new
        <5>1. \A i \in 1 .. Len(old) : old[i] = new[i]
          BY <4>1 DEF Under
        <5> QED BY <1>3, <5>1, SeqEqual DEF Segments
      <4> QED BY <1>3, <4>1, PrefixMeans DEF IsStrictPrefix
    <3>2. folder'[f] = first[f]
      BY <1>0, <1>7, <1>8, <3>1
    <3> QED BY <1>5, <1>8, <2>1, <3>2
  <2>2. CASE g # f
    <3> DEFINE p == folder[g].path
    <3>1. first[g] = folder[g] /\ p # old /\ p \in Segments
      BY <1>8, <2>0, <2>2
    <3>2. IsStrictPrefix(old, p) <=> Under(p, old)
      BY <3>1, PrefixMeans DEF IsStrictPrefix
    <3>3. CASE ~ Under(p, old)
      <4>1. folder'[g] = folder[g]
        BY <1>7, <2>0, <3>1, <3>2, <3>3
      <4>2. /\ Moved(p, old, y) \in Segments /\ Len(Moved(p, old, y)) = Len(p)
        BY <1>0, <1>1, <3>1, MovedAt
      <4>3. \A i \in 1 .. Len(p) : Moved(p, old, y)[i] = p[i]
        BY <3>3 DEF Moved
      <4> HIDE DEF p
      <4>4. Moved(p, old, y) = p
        BY <3>1, <4>2, <4>3, SeqEqual DEF Segments
      <4> QED BY <4>1, <4>4 DEF p
    <3>4. CASE Under(p, old)
      <4> DEFINE rest == SubSeq(p, Len(old) + 1, Len(p))
      <4>1. folder'[g] = [folder[g] EXCEPT !.path = new \o rest]
        BY <1>7, <2>0, <3>1, <3>2, <3>4
      <4>2. folder'[g].path = new \o rest
        <5>1. PICK row \in FolderRow : folder[g] = row
          BY <2>0
        <5> HIDE DEF rest
        <5> QED BY <4>1, <5>1 DEF FolderRow
      <4>3. Len(p) \in Nat /\ Len(old) <= Len(p)
        BY <3>1, <3>4 DEF Under, Segments
      <4>4. /\ rest \in Segments /\ Len(rest) = Len(p) - Len(old)
            /\ \A i \in 1 .. Len(p) - Len(old) : rest[i] = p[Len(old) + i]
        <5> HIDE DEF p
        <5>1. \A i \in Len(old) + 1 .. Len(p) : p[i] \in Segment
          BY <1>0, <3>1 DEF Segments
        <5>2. PICK m \in Nat : m = Len(old) + 1
          BY <1>0
        <5>3. PICK n \in Nat : n = Len(p)
          BY <4>3
        <5>4. /\ SubSeq(p, m, n) \in Seq(Segment)
              /\ Len(SubSeq(p, m, n)) = IF m <= n THEN n - m + 1 ELSE 0
              /\ \A i \in 1 .. n - m + 1 : SubSeq(p, m, n)[i] = p[m + i - 1]
          <6>1. \A i \in m .. n : p[i] \in Segment
            BY <5>1, <5>2, <5>3
          <6> QED BY <6>1, SubSeqProperties
        <5>5. rest = SubSeq(p, m, n)
          BY <5>2, <5>3
        <5>6. n - m + 1 = Len(p) - Len(old) /\ (~(m <= n) => Len(p) - Len(old) = 0)
          BY <1>0, <4>3, <5>2, <5>3
        <5> HIDE DEF rest
        <5>7. Len(rest) = Len(p) - Len(old)
          BY <5>4, <5>5, <5>6
        <5>8. ASSUME NEW i \in 1 .. Len(p) - Len(old) PROVE rest[i] = p[Len(old) + i]
          <6>1. m + i - 1 = Len(old) + i /\ i \in 1 .. n - m + 1
            BY <1>0, <4>3, <5>2, <5>6
          <6> QED BY <5>4, <5>5, <6>1
        <5> QED BY <5>4, <5>5, <5>7, <5>8 DEF Segments
      <4>5. /\ Moved(p, old, y) \in Segments /\ Len(Moved(p, old, y)) = Len(p)
        BY <1>0, <1>1, <3>1, MovedAt
      <4>6. \A i \in 1 .. Len(p) : Moved(p, old, y)[i] = IF i = Len(old) THEN y ELSE p[i]
        BY <3>4 DEF Moved
      <4>7. \A i \in 1 .. Len(old) : p[i] = old[i]
        BY <3>4 DEF Under
      <4> HIDE DEF rest, p
      <4>8. /\ new \o rest \in Segments /\ Len(new \o rest) = Len(p)
            /\ \A i \in 1 .. Len(p) : (new \o rest)[i] =
                   IF i <= Len(old) THEN new[i] ELSE rest[i - Len(old)]
        <5>1. /\ new \o rest \in Seq(Segment) /\ Len(new \o rest) = Len(new) + Len(rest)
              /\ \A i \in 1 .. Len(new) + Len(rest) : (new \o rest)[i] =
                     IF i <= Len(new) THEN new[i] ELSE rest[i - Len(new)]
          BY <1>3, <4>4, ConcatProperties DEF Segments
        <5>2. Len(new) + Len(rest) = Len(p) /\ Len(new) = Len(old)
          BY <1>0, <1>3, <4>3, <4>4
        <5> QED BY <5>1, <5>2 DEF Segments
      <4>9. ASSUME NEW i \in 1 .. Len(p) PROVE (new \o rest)[i] = Moved(p, old, y)[i]
        <5>1. CASE i <= Len(old)
          <6>1. i \in 1 .. Len(old)
            BY <1>0, <4>3, <5>1
          <6> QED BY <1>3, <4>6, <4>7, <4>8, <5>1, <6>1
        <5>2. CASE ~(i <= Len(old))
          <6>1. /\ i - Len(old) \in 1 .. Len(p) - Len(old) /\ Len(old) + (i - Len(old)) = i
                /\ i # Len(old)
            BY <1>0, <4>3, <5>2
          <6>2. rest[i - Len(old)] = p[i]
            BY <4>4, <6>1
          <6> QED BY <4>6, <4>8, <5>2, <6>1, <6>2
        <5> QED BY <5>1, <5>2
      <4>10. new \o rest = Moved(p, old, y)
        <5>1. Len(new \o rest) = Len(Moved(p, old, y))
              /\ \A i \in 1 .. Len(new \o rest) : (new \o rest)[i] = Moved(p, old, y)[i]
          BY <4>5, <4>8, <4>9
        <5> QED BY <4>5, <4>8, <5>1, SeqEqual DEF Segments
      <4> QED BY <4>2, <4>10 DEF p
    <3> QED BY <3>3, <3>4
  <2> QED BY <2>1, <2>2
<1> QED BY <1>1, <1>5, <1>9 DEF y, new

-----------------------------------------------------------------------------
(* Folders: the tree.                                                      *)

Orderly == odd \cap {"overlap", "samePath", "slash"} = {}

\* Where path is that of name below parent.
Below(parent, name, path) ==
    \/ parent = NoId /\ path = name
    \/ parent \in Created /\ path = folder[parent].path \o name

PathsBelow ==
    \A f \in Created :
        /\ Len(folder[f].name) = 1
        /\ Below(folder[f].parent, folder[f].name, folder[f].path)

PathsApart == \A f, g \in Created : folder[f].path = folder[g].path => f = g

\* Why a renaming cannot run into an existing folder: what lies above a path is
\* a folder too.
PathsClosed ==
    \A f \in Created : \A n \in 1 .. Len(folder[f].path) :
        \E g \in Created : folder[g].path = SubSeq(folder[f].path, 1, n)

\* What a request has read is still so.
ReadsFresh ==
    \A r \in Requests :
        /\ req[r].step = "create" => Below(req[r].f, req[r].name, req[r].path)
        /\ req[r].step = "rename" => req[r].path = folder[req[r].f].path

Tree == PathsBelow /\ PathsApart /\ PathsClosed /\ ReadsFresh

TreeInv == Orderly => Tree

LEMMA TreeInitially == FoldersInit => TreeInv
<1> SUFFICES ASSUME FoldersInit PROVE Tree
  BY DEF TreeInv
<1>1. Created = {}
  BY DEF FoldersInit, Created
<1>2. ReadsFresh
  BY IdleTyped DEF FoldersInit, ReadsFresh
<1> QED BY <1>1, <1>2 DEF Tree, PathsBelow, PathsApart, PathsClosed

\* Steps that leave the rows' names, parents and paths alone.
LEMMA TreeKept ==
  ASSUME FolderShape, Tree, Created' = Created,
         \A g \in Folder : /\ folder'[g].parent = folder[g].parent
                           /\ folder'[g].name = folder[g].name
                           /\ folder'[g].path = folder[g].path
  PROVE  PathsBelow' /\ PathsApart' /\ PathsClosed'
         /\ \A r \in Requests : req'[r] \in {req[r], Idle} =>
                /\ req'[r].step = "create" => Below(req[r].f, req[r].name, req[r].path)'
                /\ req'[r].step = "rename" => req'[r].path = folder'[req'[r].f].path
<1>0. \A g \in Created : /\ g \in Folder
                         /\ folder'[g].parent = folder[g].parent
                         /\ folder'[g].name = folder[g].name
                         /\ folder'[g].path = folder[g].path
  BY DEF Created
<1>1. PathsBelow'
  <2>1. ASSUME NEW g \in Created
        PROVE  /\ Len(folder'[g].name) = 1
               /\ Below(folder[g].parent, folder[g].name, folder[g].path)'
    <3>1. Len(folder[g].name) = 1 /\ Below(folder[g].parent, folder[g].name, folder[g].path)
      BY DEF Tree, PathsBelow
    <3> QED BY <1>0, <3>1 DEF Below
  <2> QED BY <2>1 DEF PathsBelow
<1>2. PathsApart'
  BY <1>0 DEF Tree, PathsApart
<1>3. PathsClosed'
  BY <1>0 DEF Tree, PathsClosed
<1>4. ASSUME NEW r \in Requests, req'[r] \in {req[r], Idle}
      PROVE  /\ req'[r].step = "create" => Below(req[r].f, req[r].name, req[r].path)'
             /\ req'[r].step = "rename" => req'[r].path = folder'[req'[r].f].path
  <2>1. CASE req'[r] = Idle
    BY <2>1, IdleTyped
  <2>2. CASE req'[r] = req[r]
    <3>1. req[r].step = "create" => Below(req[r].f, req[r].name, req[r].path)
      BY DEF Tree, ReadsFresh
    <3>2. req[r].step = "rename" => req[r].path = folder[req[r].f].path /\ req[r].f \in Created
      BY DEF Tree, ReadsFresh, FolderShape, RequestOK
    <3> QED BY <1>0, <2>2, <3>1, <3>2 DEF Below
  <2> QED BY <1>4, <2>1, <2>2
<1> QED BY <1>1, <1>2, <1>3, <1>4

LEMMA TreeBegin ==
  ASSUME FolderShape, TreeInv, NEW r \in Requests, NEW q, Begin(r, q), Orderly',
         q.step = "create" => Below(q.f, q.name, q.path),
         q.step = "rename" => q.f \in Created /\ q.path = folder[q.f].path
  PROVE  Tree'
<1>1. /\ \A k \in Requests : req[k] = Idle
      /\ Tree /\ UNCHANGED folder /\ req' = [req EXCEPT ![r] = q]
      /\ req \in [Requests -> FolderRequest]
  BY DEF Begin, Orderly, TreeInv, FolderShape
<1>2. PathsBelow' /\ PathsApart' /\ PathsClosed' /\ Created' = Created
  BY <1>1, TreeKept DEF Created
<1>3. ReadsFresh'
  <2> SUFFICES ASSUME NEW k \in Requests
               PROVE  /\ req'[k].step = "create" => Below(req[k].f, req[k].name, req[k].path)'
                      /\ req'[k].step = "rename" => req'[k].path = folder'[req'[k].f].path
    BY DEF ReadsFresh
  <2>1. CASE k = r
    <3>1. req'[k] = q
      BY <1>1, <2>1
    <3> QED BY <1>1, <1>2, <3>1 DEF Below
  <2>2. CASE k # r
    <3>1. req'[k] = Idle
      BY <1>1, <2>2
    <3> QED BY <3>1, IdleTyped
  <2> QED BY <2>1, <2>2
<1> QED BY <1>2, <1>3 DEF Tree

\* The request that writes leaves no other behind.
LEMMA NoneLeft ==
  ASSUME FolderShape, OneAtATime, "overlap" \notin odd, NEW r \in Requests,
         req[r].step # "idle", Done(r)
  PROVE  ReadsFresh'
<1>1. \A k \in Requests \ {r} : req[k] = Idle
  BY OnlyRequest
<1>2. \A k \in Requests : req'[k] = Idle
  BY <1>1 DEF Done, FolderShape
<1> QED BY <1>2, IdleTyped DEF ReadsFresh

LEMMA TreeCreate ==
  ASSUME FolderShape, OneAtATime, TreeInv, NEW r \in Requests, NEW f \in Folder,
         CreateWrite(r, f), Orderly'
  PROVE  Tree'
<1>1. /\ Created' = Created \cup {f} /\ f \notin Created
      /\ \A g \in Folder \ {f} : folder'[g] = folder[g]
      /\ folder'[f].parent = req[r].f /\ folder'[f].name = req[r].name
      /\ folder'[f].path = req[r].path
  BY CreatedRow
<1>2. /\ req[r].step = "create" /\ Named(f, req[r].path, req[r].name) /\ Done(r)
  BY DEF CreateWrite
<1>3. /\ Orderly /\ Tree /\ "overlap" \notin odd
      /\ ~(Len(req[r].name) > 1)
      /\ \A g \in Created \ {f} : folder[g].path # req[r].path
  BY <1>2 DEF Named, Orderly, TreeInv
<1>4. PICK parent \in Folder \cup {NoId}, name \in Segments, path \in Segments :
         /\ parent = req[r].f /\ name = req[r].name /\ path = req[r].path
         /\ name # <<>>
  BY <1>2, RequestTyped DEF RequestOK
<1>5. Len(name) = 1
  <2>1. name # <<>> /\ ~(Len(name) > 1)
    BY <1>3, <1>4
  <2> QED BY <2>1, JustOne
<1>6. Below(parent, name, path)
  BY <1>2, <1>3, <1>4 DEF Tree, ReadsFresh
<1>7. \A g \in Created : g \in Folder /\ g # f /\ folder'[g] = folder[g]
                         /\ folder[g].path \in Segments /\ folder[g].path # path
  <2>1. \A g \in Created : g \in Folder /\ g # f
    BY <1>1 DEF Created
  <2>2. \A g \in Created : folder[g].path \in Segments
    BY <2>1 DEF FolderShape, RowsOK, FolderRow
  <2> QED BY <1>1, <1>3, <1>4, <2>1, <2>2
<1>8. PathsBelow'
  <2>1. ASSUME NEW g \in Created
        PROVE  /\ Len(folder'[g].name) = 1
               /\ Below(folder[g].parent, folder[g].name, folder[g].path)'
    <3>1. Len(folder[g].name) = 1 /\ Below(folder[g].parent, folder[g].name, folder[g].path)
      BY <1>3 DEF Tree, PathsBelow
    <3> QED BY <1>1, <1>7, <3>1 DEF Below
  <2>2. Len(folder'[f].name) = 1 /\ Below(folder[f].parent, folder[f].name, folder[f].path)'
    BY <1>1, <1>4, <1>5, <1>6, <1>7 DEF Below
  <2> QED BY <1>1, <2>1, <2>2 DEF PathsBelow
<1>9. PathsApart'
  <2>1. \A g, h \in Created : folder[g].path = folder[h].path => g = h
    BY <1>3 DEF Tree, PathsApart
  <2>2. ASSUME NEW g \in Created', NEW h \in Created', folder'[g].path = folder'[h].path
        PROVE  g = h
    <3>1. CASE g = f /\ h # f
      BY <1>1, <1>4, <1>7, <2>2, <3>1
    <3>2. CASE h = f /\ g # f
      BY <1>1, <1>4, <1>7, <2>2, <3>2
    <3>3. CASE g # f /\ h # f
      BY <1>1, <1>7, <2>1, <2>2, <3>3
    <3> QED BY <3>1, <3>2, <3>3
  <2> QED BY <2>2 DEF PathsApart
<1>10. PathsClosed'
  <2>1. ASSUME NEW g \in Created, NEW n \in 1 .. Len(folder[g].path)
        PROVE  \E h \in Created' : folder'[h].path = SubSeq(folder[g].path, 1, n)
    <3>1. PICK h \in Created : folder[h].path = SubSeq(folder[g].path, 1, n)
      BY <1>3 DEF Tree, PathsClosed
    <3> QED BY <1>1, <1>7, <3>1
  <2>2. ASSUME NEW n \in 1 .. Len(path)
        PROVE  \E h \in Created' : folder'[h].path = SubSeq(path, 1, n)
    <3>1. CASE n = Len(path)
      <4>1. n \in 0 .. Len(path)
        BY DEF Segments
      <4>2. SubSeq(path, 1, n) = path
        BY <3>1, <4>1, Cut, SeqEqual DEF Segments
      <4> QED BY <1>1, <1>4, <4>2
    <3>2. CASE n # Len(path)
      <4>0. Len(path) \in Nat
        BY DEF Segments
      <4>1. CASE parent = NoId /\ path = name
        <5>1. Len(path) = 1
          BY <1>5, <4>1
        <5> QED BY <3>2, <5>1
      <4>2. CASE parent \in Created /\ path = folder[parent].path \o name
        <5> DEFINE s == folder[parent].path
        <5>1. s \in Segments /\ path = s \o name
          BY <1>7, <4>2
        <5> HIDE DEF s
        <5>2. /\ s \o name \in Segments /\ Len(s \o name) = Len(s) + 1
              /\ \A i \in 1 .. Len(s) + 1 :
                    (s \o name)[i] = IF i <= Len(s) THEN s[i] ELSE name[1]
          BY <1>5, <5>1, OneSegment
        <5>3. n \in 1 .. Len(s) /\ n \in 0 .. Len(s) /\ n \in 0 .. Len(path)
              /\ Len(s) \in Nat
          BY <3>2, <4>0, <5>1, <5>2 DEF Segments
        <5>4. /\ SubSeq(s, 1, n) \in Segments /\ Len(SubSeq(s, 1, n)) = n
              /\ \A i \in 1 .. n : SubSeq(s, 1, n)[i] = s[i]
          BY <5>1, <5>3, Cut
        <5>5. /\ SubSeq(path, 1, n) \in Segments /\ Len(SubSeq(path, 1, n)) = n
              /\ \A i \in 1 .. n : SubSeq(path, 1, n)[i] = path[i]
          BY <5>3, Cut
        <5>6. ASSUME NEW i \in 1 .. n PROVE SubSeq(path, 1, n)[i] = SubSeq(s, 1, n)[i]
          <6>1. i \in 1 .. Len(s) + 1 /\ i <= Len(s)
            BY <5>3
          <6> QED BY <5>1, <5>2, <5>4, <5>5, <6>1
        <5>7. SubSeq(path, 1, n) = SubSeq(s, 1, n)
          BY <5>4, <5>5, <5>6, SeqEqual DEF Segments
        <5>8. \E h \in Created' : folder'[h].path = SubSeq(s, 1, n)
          BY <2>1, <4>2, <5>3 DEF s
        <5> QED BY <5>7, <5>8
      <4> QED BY <1>6, <4>1, <4>2 DEF Below
    <3> QED BY <3>1, <3>2
  <2>3. ASSUME NEW g \in Created', NEW n \in 1 .. Len(folder'[g].path)
        PROVE  \E h \in Created' : folder'[h].path = SubSeq(folder'[g].path, 1, n)
    <3>1. CASE g = f
      BY <1>1, <1>4, <2>2, <2>3, <3>1
    <3>2. CASE g # f
      <4>1. g \in Created /\ folder'[g] = folder[g]
        BY <1>1, <1>7, <2>3, <3>2
      <4> QED BY <2>1, <2>3, <4>1
    <3> QED BY <3>1, <3>2
  <2> QED BY <2>3 DEF PathsClosed
<1>11. ReadsFresh'
  BY <1>2, <1>3, NoneLeft
<1> QED BY <1>8, <1>9, <1>10, <1>11 DEF Tree

LEMMA TreeRename ==
  ASSUME FolderShape, OneAtATime, TreeInv, NEW r \in Requests, RenameWrite(r), Orderly'
  PROVE  Tree'
<1>1. PICK f \in Created, old \in Segments, name \in Segments :
           /\ f = req[r].f /\ old = req[r].path /\ name = req[r].name
           /\ old # <<>> /\ name # <<>>
           /\ Front(old) \o name \in Segments /\ Front(old) \o name # <<>>
           /\ folder' = Renamed(f, old, Front(old) \o name, name)
           /\ Named(f, Front(old) \o name, name)
  BY RenameTyped
<1>2. /\ Orderly /\ Tree /\ "overlap" \notin odd /\ Done(r) /\ req[r].step = "rename"
      /\ ~(Len(name) > 1)
      /\ \A g \in Created \ {f} : folder[g].path # Front(old) \o name
  BY <1>1 DEF Named, Orderly, TreeInv, RenameWrite
<1>3. Len(name) = 1
  <2>1. name # <<>> /\ ~(Len(name) > 1)
    BY <1>1, <1>2
  <2> QED BY <2>1, JustOne
<1>4. old = folder[f].path
  BY <1>1, <1>2 DEF Tree, ReadsFresh
<1>5. /\ \A g, h \in Created : folder[g].path = folder[h].path => g = h
      /\ \A g \in Created : folder[g].path = old => g = f
  BY <1>2, <1>4 DEF Tree, PathsApart
<1>r. RowsOK
  BY DEF FolderShape
<1>6. /\ Created' = Created
      /\ \A g \in Folder : /\ folder'[g].parent = folder[g].parent
                           /\ folder'[g].name = IF g = f THEN name ELSE folder[g].name
  <2> DEFINE new == Front(old) \o name
  <2>1. /\ new \in Segments /\ new # <<>> /\ name # <<>>
        /\ folder' = Renamed(f, old, new, name)
    BY <1>1
  <2> HIDE DEF new
  <2> QED BY <1>r, <2>1, RenamedRows
<1>7. PICK y \in Segment :
        /\ Front(old) \o name = Moved(old, old, y)
        /\ \A g \in Created : folder'[g].path = Moved(folder[g].path, old, y)
  <2>1. /\ name[1] \in Segment
        /\ Front(old) \o name = Moved(old, old, name[1])
        /\ \A g \in Created : folder'[g].path = Moved(folder[g].path, old, name[1])
    BY <1>1, <1>r, <1>3, <1>4, <1>5, RenamedPaths
  <2> QED BY <2>1
<1>8. \A g \in Created : /\ g \in Folder /\ folder[g].path \in Segments
                         /\ folder[g].name \in Segments
                         /\ folder[g].parent \in Folder \cup {NoId}
  <2>1. \A g \in Created : g \in Folder
    BY DEF Created
  <2> QED BY <1>r, <2>1 DEF RowsOK, FolderRow
<1>9. ASSUME NEW g \in Created
      PROVE  /\ Len(folder'[g].name) = 1
             /\ Below(folder[g].parent, folder[g].name, folder[g].path)'
  <2>0. /\ Len(folder[g].name) = 1
        /\ Below(folder[g].parent, folder[g].name, folder[g].path)
        /\ g \in Folder
    BY <1>2, <1>8 DEF Tree, PathsBelow
  <2>1. Len(folder'[g].name) = 1
    BY <1>3, <1>6, <2>0
  <2>2. PICK parent \in Folder \cup {NoId}, s \in Segments, old1 \in Segments :
          /\ parent = folder[g].parent /\ old1 = folder[g].name
          /\ folder[g].path = s \o old1
          /\ \/ parent = NoId /\ s = <<>>
             \/ parent \in Created /\ s = folder[parent].path
    <3>1. CASE folder[g].parent = NoId /\ folder[g].path = folder[g].name
      <4>1. <<>> \in Segments /\ <<>> \o folder[g].name = folder[g].name
        BY <1>8, ConcatEmptySeq DEF Segments
      <4> QED BY <1>8, <3>1, <4>1
    <3>2. CASE /\ folder[g].parent \in Created
               /\ folder[g].path = folder[folder[g].parent].path \o folder[g].name
      BY <1>8, <3>2
    <3> QED BY <2>0, <3>1, <3>2 DEF Below
  <2>3. Len(old1) = 1
    BY <2>0, <2>2
  <2>4. /\ s \o old1 \in Segments /\ Len(s \o old1) = Len(s) + 1
        /\ \A i \in 1 .. Len(s) + 1 :
              (s \o old1)[i] = IF i <= Len(s) THEN s[i] ELSE old1[1]
    BY <2>3, OneSegment
  <2>5. /\ parent = NoId => Moved(s, old, y) = <<>>
        /\ parent \in Created => folder'[parent].path = Moved(s, old, y)
    <3>1. NoId \notin Created
      BY FoldersAssumption DEF Created
    <3>2. ASSUME parent = NoId PROVE Moved(s, old, y) = <<>>
      <4>1. s = <<>> /\ Len(s) < Len(old)
        BY <1>1, <2>2, <3>1, <3>2 DEF Segments
      <4> QED BY <1>1, <4>1, MovedShort
    <3>3. ASSUME parent \in Created PROVE folder'[parent].path = Moved(s, old, y)
      BY <1>7, <2>2, <3>1, <3>3
    <3> QED BY <3>2, <3>3
  <2>6. folder'[g].path = Moved(s, old, y) \o folder'[g].name
    <3>1. CASE g = f
      <4>1. old = s \o old1 /\ folder'[g].name = name
        BY <1>4, <1>6, <2>0, <2>2, <3>1
      <4>2. Len(s) < Len(old) /\ Len(s) \in Nat /\ Len(old) - 1 = Len(s)
        BY <2>4, <4>1 DEF Segments
      <4>3. Moved(s, old, y) = s
        BY <1>1, <4>2, MovedShort
      <4>4. Front(old) = s
        <5>1. /\ Front(old) \in Segments /\ Len(Front(old)) = Len(old) - 1
              /\ \A i \in 1 .. Len(old) - 1 : Front(old)[i] = old[i]
          BY <1>1, FrontTyped
        <5>2. ASSUME NEW i \in 1 .. Len(s) PROVE old[i] = s[i]
          <6>1. i \in 1 .. Len(s) + 1 /\ i <= Len(s)
            BY <4>2
          <6> QED BY <2>4, <4>1, <6>1
        <5>3. Len(Front(old)) = Len(s) /\ \A i \in 1 .. Len(Front(old)) : Front(old)[i] = s[i]
          BY <4>2, <5>1, <5>2
        <5> QED BY <5>1, <5>3, SeqEqual DEF Segments
      <4>5. folder'[g].path = Front(old) \o name
        BY <1>4, <1>7, <3>1
      <4> QED BY <4>1, <4>3, <4>4, <4>5
    <3>2. CASE g # f
      <4>1. s \o old1 # old
        BY <1>5, <2>2, <3>2
      <4>2. Moved(s \o old1, old, y) = Moved(s, old, y) \o old1
        <5>1. old # <<>>
          BY <1>1
        <5> QED BY <2>3, <4>1, <5>1, MovedJoined
      <4>3. folder'[g].path = Moved(s \o old1, old, y) /\ folder'[g].name = old1
        BY <1>6, <1>7, <2>0, <2>2, <3>2
      <4> QED BY <4>2, <4>3
    <3> QED BY <3>1, <3>2
  <2>7. folder'[g].parent = parent
    BY <1>6, <2>0, <2>2
  <2>8. CASE parent = NoId
    <3>1. folder'[g].name \in Segments
      BY <1>1, <1>6, <1>8, <2>0
    <3>2. folder'[g].path = folder'[g].name
      BY <2>5, <2>6, <2>8, <3>1, ConcatEmptySeq DEF Segments
    <3> QED BY <2>1, <2>7, <2>8, <3>2 DEF Below
  <2>9. CASE parent \in Created
    BY <1>6, <2>1, <2>5, <2>6, <2>7, <2>9 DEF Below
  <2> QED BY <2>2, <2>8, <2>9
<1>10. PathsBelow'
  BY <1>6, <1>9 DEF PathsBelow
<1>11. PathsApart'
  <2>1. ASSUME NEW g \in Created, NEW h \in Created, folder'[g].path = folder'[h].path,
               g # h
        PROVE  FALSE
    <3>1. PICK s \in Segments, t \in Segments : s = folder[g].path /\ t = folder[h].path
      BY <1>8
    <3>2. s # t /\ Moved(s, old, y) = Moved(t, old, y)
      BY <1>5, <1>7, <2>1, <3>1
    <3>3. /\ Moved(old, old, y) # old
          /\ \E u \in {s, t} : /\ Len(old) \in 1 .. Len(u)
                               /\ SubSeq(u, 1, Len(old)) = Moved(old, old, y)
      BY <1>1, <3>2, MovedApart
    <3>4. PICK k \in Created : /\ Len(old) \in 1 .. Len(folder[k].path)
                               /\ SubSeq(folder[k].path, 1, Len(old)) = Moved(old, old, y)
      BY <3>1, <3>3
    <3>5. PICK m \in Created : folder[m].path = Moved(old, old, y)
      BY <1>2, <3>4 DEF Tree, PathsClosed
    <3>6. m # f
      BY <1>4, <3>3, <3>5
    <3> QED BY <1>2, <1>7, <3>5, <3>6
  <2> QED BY <1>6, <2>1 DEF PathsApart
<1>12. PathsClosed'
  <2>1. ASSUME NEW g \in Created, NEW n \in 1 .. Len(folder'[g].path)
        PROVE  \E h \in Created : folder'[h].path = SubSeq(folder'[g].path, 1, n)
    <3>1. PICK s \in Segments : s = folder[g].path
      BY <1>8
    <3>2. folder'[g].path = Moved(s, old, y) /\ Len(Moved(s, old, y)) = Len(s)
      <4>1. Len(Moved(s, old, y)) = Len(s)
        BY <1>1, MovedAt
      <4> QED BY <1>7, <3>1, <4>1
    <3>3. n \in 1 .. Len(s)
      BY <2>1, <3>2
    <3>4. PICK h \in Created : folder[h].path = SubSeq(s, 1, n)
      BY <1>2, <3>1, <3>3 DEF Tree, PathsClosed
    <3>5. SubSeq(Moved(s, old, y), 1, n) = Moved(SubSeq(s, 1, n), old, y)
      BY <1>1, <3>3, MovedCut
    <3>6. folder'[h].path = Moved(folder[h].path, old, y)
      BY <1>7
    <3> QED BY <3>2, <3>4, <3>5, <3>6
  <2> QED BY <1>6, <2>1 DEF PathsClosed
<1>13. ReadsFresh'
  BY <1>2, NoneLeft
<1> QED BY <1>10, <1>11, <1>12, <1>13 DEF Tree

LEMMA TreeStep ==
  ASSUME FolderShape, OneAtATime, TreeInv, [FoldersNext]_folderVars
  PROVE  TreeInv'
<1> SUFFICES ASSUME Orderly' PROVE Tree'
  BY DEF TreeInv
<1>0. Orderly /\ Tree
  BY FolderSteps DEF Orderly, TreeInv
<1>1. ASSUME NEW r \in Requests, NEW parent \in Folder \cup {NoId}, NEW name \in Names,
             CreateRead(r, parent, name)
      PROVE  Tree'
  <2> DEFINE q == [Idle EXCEPT !.step = "create", !.f = parent, !.name = name,
                               !.path = ParentPath(parent) \o name]
  <2>1. /\ q.step = "create" /\ q.f = parent /\ q.name = name
        /\ q.path = ParentPath(parent) \o name
    BY DEF Idle
  <2>2. Begin(r, q) /\ parent \in Created \cup {NoId}
    BY <1>1 DEF CreateRead, Alive
  <2> HIDE DEF q
  <2>3. name \in Segments
    BY FoldersAssumption DEF Segments, Segment
  <2>4. Below(parent, name, ParentPath(parent) \o name)
    <3>1. CASE parent = NoId
      <4>1. <<>> \o name = name
        BY <2>3, ConcatEmptySeq DEF Segments
      <4> QED BY <3>1, <4>1 DEF Below, ParentPath
    <3>2. CASE parent # NoId
      BY <2>2, <3>2 DEF Below, ParentPath
    <3> QED BY <3>1, <3>2
  <2> QED BY <2>1, <2>2, <2>4, TreeBegin
<1>2. ASSUME NEW r \in Requests, NEW f \in Folder, NEW name \in Names,
             RenameRead(r, f, name)
      PROVE  Tree'
  <2> DEFINE q == [Idle EXCEPT !.step = "rename", !.f = f, !.name = name,
                               !.path = folder[f].path]
  <2>1. q.step = "rename" /\ q.f = f /\ q.path = folder[f].path
    BY DEF Idle
  <2>2. Begin(r, q) /\ f \in Created
    BY <1>2 DEF RenameRead, Alive
  <2> HIDE DEF q
  <2> QED BY <2>1, <2>2, TreeBegin
<1>3. ASSUME NEW r \in Requests, NEW f \in Folder, DeleteRead(r, f) PROVE Tree'
  <2> DEFINE q == [Idle EXCEPT !.step = "delete", !.f = f]
  <2>1. q.step = "delete"
    BY DEF Idle
  <2>2. Begin(r, q)
    BY <1>3 DEF DeleteRead
  <2> HIDE DEF q
  <2> QED BY <2>1, <2>2, TreeBegin
<1>4. ASSUME NEW r \in Requests, NEW d \in DocIds, NEW f \in Folder \cup {NoId},
             MoveRead(r, d, f)
      PROVE  Tree'
  <2> DEFINE q == [Idle EXCEPT !.step = "move", !.d = d, !.f = f]
  <2>1. q.step = "move"
    BY DEF Idle
  <2>2. Begin(r, q)
    BY <1>4 DEF MoveRead
  <2> HIDE DEF q
  <2> QED BY <2>1, <2>2, TreeBegin
<1>5. ASSUME NEW r \in Requests, NEW f \in Folder, CreateWrite(r, f) PROVE Tree'
  BY <1>5, TreeCreate
<1>6. ASSUME NEW r \in Requests, RenameWrite(r) PROVE Tree'
  BY <1>6, TreeRename
<1>7. ASSUME NEW r \in Requests, DeleteWrite(r) PROVE Tree'
  <2>1. /\ Created' = Created
        /\ \A g \in Folder : /\ folder'[g].parent = folder[g].parent
                             /\ folder'[g].name = folder[g].name
                             /\ folder'[g].path = folder[g].path
    BY <1>7, DeletedRow
  <2>2. PathsBelow' /\ PathsApart' /\ PathsClosed'
    BY <1>0, <2>1, TreeKept
  <2>3. ReadsFresh'
    BY <1>0, <1>7, NoneLeft DEF DeleteWrite, Orderly
  <2> QED BY <2>2, <2>3 DEF Tree
<1>8. ASSUME NEW r \in Requests, MoveWrite(r) PROVE Tree'
  <2>1. UNCHANGED folder /\ Created' = Created
    BY <1>8 DEF MoveWrite, Created
  <2>2. PathsBelow' /\ PathsApart' /\ PathsClosed'
    BY <1>0, <2>1, TreeKept
  <2>3. ReadsFresh'
    BY <1>0, <1>8, NoneLeft DEF MoveWrite, Orderly
  <2> QED BY <2>2, <2>3 DEF Tree
<1>9. ASSUME UNCHANGED <<folder, req>> PROVE Tree'
  <2>1. Created' = Created
    BY <1>9 DEF Created
  <2>2. PathsBelow' /\ PathsApart' /\ PathsClosed'
    BY <1>0, <1>9, <2>1, TreeKept
  <2>3. ReadsFresh'
    BY <1>0, <1>9, <2>1 DEF Tree, ReadsFresh, Below
  <2> QED BY <2>2, <2>3 DEF Tree
<1>10. ASSUME NEW d \in DocIds, NEW f \in Folder, Put(d, f) PROVE Tree'
  BY <1>9, <1>10 DEF Put
<1>11. CASE UNCHANGED folderVars
  BY <1>9, <1>11 DEF folderVars
<1> QED BY <1>1, <1>2, <1>3, <1>4, <1>5, <1>6, <1>7, <1>8, <1>10, <1>11 DEF FoldersNext

\* DocumentService.createFolder, renameFolder and deleteFolder, for any tree of
\* folders, any names and any number of requests one after the other: as long as
\* no two folders ever had the same path and no name had a slash, every path is
\* that of the parent and the name.
THEOREM PathsAsTree == FoldersSpec => []PathsFollowTree
<1>1. FoldersInit => FolderShape /\ OneAtATime /\ TreeInv
  <2>1. FoldersInit => OneAtATime
    BY IdleTyped DEF FoldersInit, OneAtATime
  <2> QED BY <2>1, FolderShapeInit, TreeInitially
<1>2. FolderShape /\ OneAtATime /\ TreeInv /\ [FoldersNext]_folderVars
        => (FolderShape /\ OneAtATime /\ TreeInv)'
  BY FolderShapeStep, OneAtATimeStep, TreeStep
<1>3. FolderShape /\ TreeInv => PathsFollowTree
  <2> SUFFICES ASSUME FolderShape, Tree, NEW f \in Created
               PROVE  folder[f].path = ParentPath(folder[f].parent) \o folder[f].name
    BY DEF TreeInv, Orderly, PathsFollowTree
  <2>1. Below(folder[f].parent, folder[f].name, folder[f].path)
    BY DEF Tree, PathsBelow
  <2>2. NoId \notin Created
    BY FoldersAssumption DEF Created
  <2>3. CASE folder[f].parent = NoId
    <3>1. folder[f].name \in Segments
      BY DEF FolderShape, RowsOK, FolderRow, Created
    <3>2. <<>> \o folder[f].name = folder[f].name
      BY <3>1, ConcatEmptySeq DEF Segments
    <3> QED BY <2>1, <2>2, <2>3, <3>2 DEF Below, ParentPath
  <2>4. CASE folder[f].parent # NoId
    BY <2>1, <2>4 DEF Below, ParentPath
  <2> QED BY <2>3, <2>4
<1> QED BY <1>1, <1>2, <1>3, PTL DEF FoldersSpec

=============================================================================
