---------------------------- MODULE WorkflowProofs ----------------------------
(***************************************************************************)
(* Theorems about the two modules of the workflow engine.  They share no   *)
(* variable: WorkflowDefinition is about a definition until it is          *)
(* published, Workflow about an instance of a published one.               *)
(*                                                                         *)
(* Of a definition, for any number of overlapping requests and of          *)
(* editions: the mark of a review is never on other steps than the         *)
(* reviewed ones, and what an AI drafted is published as reviewed.         *)
(*                                                                         *)
(* Of an instance, for any definition, any users and any number of         *)
(* decisions and failures: what COMPLETED means, that an ended instance    *)
(* stays as it is, and when an instance can get stuck.                     *)
(***************************************************************************)
EXTENDS WorkflowDefinition, Workflow, FiniteSetTheorems, SequenceTheorems,
        WellFoundedInduction, TLAPS

-----------------------------------------------------------------------------
(* A definition: types.  A request at work has read a draft, whose edition *)
(* is not 0.                                                               *)

Editions ==
    /\ def.status # "none" => def.edition >= 1
    /\ \A e \in Editors : edit[e].step # "idle" => edit[e].read.edition >= 1
    /\ \A e \in Editors : edit[e].step = "idle" => edit[e] = NoEdit
    /\ \A e \in Editors : edit[e].step # "idle" => def.status # "none"

Typed == DefTypeOK /\ Editions

LEMMA InitTyped == DefInit => Typed
<1> SUFFICES ASSUME DefInit PROVE Typed
  OBVIOUS
<1>1. DefTypeOK
  <2>1. NoEdit \in [step : {"idle", "update", "publish"},
                    read : [status : {"none", "DRAFT"}, isAiDraft : BOOLEAN,
                            humanReviewed : BOOLEAN, edition : 0 .. MaxEdits]]
    BY EditAssumption DEF NoEdit, NoDefinition
  <2>2. def \in [status : {"none", "DRAFT", "PUBLISHED"}, isAiDraft : BOOLEAN,
                 humanReviewed : BOOLEAN, edition : 0 .. MaxEdits]
    BY EditAssumption DEF DefInit, NoDefinition
  <2>3. edit \in [Editors -> [step : {"idle", "update", "publish"},
                              read : [status : {"none", "DRAFT"}, isAiDraft : BOOLEAN,
                                      humanReviewed : BOOLEAN, edition : 0 .. MaxEdits]]]
    BY <2>1 DEF DefInit
  <2>4. edition \in 0 .. MaxEdits
    BY EditAssumption DEF DefInit
  <2>5. reviewed \subseteq 1 .. MaxEdits /\ overlap \in BOOLEAN
    BY Zenon DEF DefInit
  <2> QED BY <2>2, <2>3, <2>4, <2>5 DEF DefTypeOK
<1>2. Editions
  BY DEF DefInit, Editions, NoDefinition, NoEdit
<1> QED BY <1>1, <1>2 DEF Typed

LEMMA NextTyped ==
  ASSUME Typed, [DefNext]_defVars
  PROVE  Typed'
<1> USE EditAssumption
<1>1. DefTypeOK /\ Editions
  BY DEF Typed
<1>2. NoEdit \in [step : {"idle", "update", "publish"},
                  read : [status : {"none", "DRAFT"}, isAiDraft : BOOLEAN,
                          humanReviewed : BOOLEAN, edition : 0 .. MaxEdits]]
  BY DEF NoEdit, NoDefinition
<1>3. ASSUME NEW isAiDraft \in BOOLEAN, Create(isAiDraft) PROVE Typed'
  <2>1. edition + 1 \in 1 .. MaxEdits
    BY <1>1, <1>3 DEF Create, DefTypeOK
  <2>2. DefTypeOK'
    BY <1>1, <1>3, <2>1 DEF Create, DefTypeOK
  <2>3. Editions'
    BY <1>1, <1>3, <2>1 DEF Create, Editions
  <2> QED BY <2>2, <2>3 DEF Typed
<1>4. ASSUME NEW e \in Editors, UpdateRead(e) \/ PublishRead(e) PROVE Typed'
  <2>1. PICK step \in {"update", "publish"} : Read(e, step)
    BY <1>4 DEF UpdateRead, PublishRead
  <2>2. def \in [status : {"none", "DRAFT"}, isAiDraft : BOOLEAN,
                 humanReviewed : BOOLEAN, edition : 0 .. MaxEdits]
    BY <1>1, <2>1 DEF Read, DefTypeOK
  <2>3. edit' = [edit EXCEPT ![e] = [step |-> step, read |-> def]]
    BY <2>1 DEF Read
  <2>4. overlap' \in BOOLEAN
    BY <1>1, <2>1, Zenon DEF Read, DefTypeOK
  <2>5. edit' \in [Editors -> [step : {"idle", "update", "publish"},
                               read : [status : {"none", "DRAFT"}, isAiDraft : BOOLEAN,
                                       humanReviewed : BOOLEAN, edition : 0 .. MaxEdits]]]
    BY <1>1, <2>2, <2>3 DEF DefTypeOK
  <2>6. DefTypeOK'
    BY <1>1, <2>1, <2>4, <2>5 DEF Read, DefTypeOK
  <2>7. Editions'
    BY <1>1, <2>1, <2>3 DEF Read, Editions, DefTypeOK
  <2> QED BY <2>6, <2>7 DEF Typed
<1>5. ASSUME NEW e \in Editors, WriteSteps(e) PROVE Typed'
  <2>1. edition + 1 \in 1 .. MaxEdits
    BY <1>1, <1>5 DEF WriteSteps, DefTypeOK
  <2>2. DefTypeOK'
    <3>1. def' = [def EXCEPT !.edition = edition + 1, !.humanReviewed = FALSE]
          /\ edit' = [edit EXCEPT ![e] = NoEdit] /\ edition' = edition + 1
          /\ UNCHANGED <<reviewed, overlap>>
      BY <1>5 DEF WriteSteps
    <3>2. def' \in [status : {"none", "DRAFT", "PUBLISHED"}, isAiDraft : BOOLEAN,
                    humanReviewed : BOOLEAN, edition : 0 .. MaxEdits]
      <4>1. PICK n \in 0 .. MaxEdits : n = edition + 1
        BY <2>1
      <4>2. def' = [def EXCEPT !.edition = n, !.humanReviewed = FALSE]
        BY <3>1, <4>1
      <4>3. def \in [status : {"none", "DRAFT", "PUBLISHED"}, isAiDraft : BOOLEAN,
                     humanReviewed : BOOLEAN, edition : 0 .. MaxEdits]
        BY <1>1 DEF DefTypeOK
      <4> QED BY <4>2, <4>3
    <3>3. edit' \in [Editors -> [step : {"idle", "update", "publish"},
                                 read : [status : {"none", "DRAFT"}, isAiDraft : BOOLEAN,
                                         humanReviewed : BOOLEAN, edition : 0 .. MaxEdits]]]
      BY <1>1, <1>2, <3>1 DEF DefTypeOK
    <3> QED BY <1>1, <2>1, <3>1, <3>2, <3>3 DEF DefTypeOK
  <2>3. Editions'
    BY <1>1, <1>5, <2>1 DEF WriteSteps, Editions, DefTypeOK, NoEdit
  <2> QED BY <2>2, <2>3 DEF Typed
<1>6. ASSUME NEW e \in Editors, NEW humanReviewed \in BOOLEAN, WriteReview(e, humanReviewed)
      PROVE  Typed'
  <2>1. edit[e].read.edition \in 1 .. MaxEdits
    BY <1>1, <1>6 DEF WriteReview, DefTypeOK, Editions
  <2>2. DefTypeOK'
    BY <1>1, <1>2, <1>6, <2>1 DEF WriteReview, DefTypeOK
  <2>3. Editions'
    BY <1>1, <1>6, <2>1 DEF WriteReview, Editions, DefTypeOK, NoEdit
  <2> QED BY <2>2, <2>3 DEF Typed
<1>7. ASSUME NEW e \in Editors, Publish(e) PROVE Typed'
  <2>1. DefTypeOK'
    BY <1>1, <1>2, <1>7 DEF Publish, DefTypeOK
  <2>2. Editions'
    BY <1>1, <1>7 DEF Publish, Editions, DefTypeOK, NoEdit
  <2> QED BY <2>1, <2>2 DEF Typed
<1>8. CASE UNCHANGED defVars
  BY <1>1, <1>8 DEF defVars, Typed, DefTypeOK, Editions
<1> QED BY <1>3, <1>4, <1>5, <1>6, <1>7, <1>8 DEF DefNext

\* The rows and the requests keep their types.
THEOREM DefinitionTyped == DefSpec => []DefTypeOK
<1>1. DefInit => Typed
  BY InitTyped
<1>2. Typed /\ [DefNext]_defVars => Typed'
  BY NextTyped
<1>3. Typed => DefTypeOK
  BY DEF Typed
<1> QED BY <1>1, <1>2, <1>3, PTL DEF DefSpec

-----------------------------------------------------------------------------
(* The mark of a review.  A request that comes late writes back the steps  *)
(* with the mark they had, so what it has read is part of the invariant.   *)

MarksHold ==
    /\ MarkIsForItsSteps
    /\ \A e \in Editors : edit[e].read.humanReviewed => edit[e].read.edition \in reviewed

LEMMA InitMarks == DefInit => MarksHold
  BY DEF DefInit, MarksHold, MarkIsForItsSteps, NoDefinition, NoEdit

LEMMA NextMarks ==
  ASSUME DefTypeOK, MarksHold, [DefNext]_defVars
  PROVE  MarksHold'
<1>1. ASSUME NEW isAiDraft \in BOOLEAN, Create(isAiDraft) PROVE MarksHold'
  BY <1>1 DEF Create, MarksHold, MarkIsForItsSteps
<1>2. ASSUME NEW e \in Editors, UpdateRead(e) \/ PublishRead(e) PROVE MarksHold'
  BY <1>2 DEF UpdateRead, PublishRead, Read, MarksHold, MarkIsForItsSteps, DefTypeOK
<1>3. ASSUME NEW e \in Editors, WriteSteps(e) PROVE MarksHold'
  BY <1>3 DEF WriteSteps, MarksHold, MarkIsForItsSteps, DefTypeOK, NoEdit, NoDefinition
<1>4. ASSUME NEW e \in Editors, NEW humanReviewed \in BOOLEAN, WriteReview(e, humanReviewed)
      PROVE  MarksHold'
  <2>1. def'.humanReviewed => def'.edition \in reviewed'
    BY <1>4 DEF WriteReview, DefTypeOK
  <2>2. ASSUME NEW f \in Editors, edit'[f].read.humanReviewed
        PROVE  edit'[f].read.edition \in reviewed'
    <3>1. f # e /\ edit'[f] = edit[f]
      BY <1>4, <2>2 DEF WriteReview, DefTypeOK, NoEdit, NoDefinition
    <3>2. reviewed \subseteq reviewed'
      BY <1>4 DEF WriteReview
    <3> QED BY <2>2, <3>1, <3>2 DEF MarksHold
  <2> QED BY <2>1, <2>2 DEF MarksHold, MarkIsForItsSteps
<1>5. ASSUME NEW e \in Editors, Publish(e) PROVE MarksHold'
  BY <1>5 DEF Publish, MarksHold, MarkIsForItsSteps, DefTypeOK, NoEdit, NoDefinition
<1>6. CASE UNCHANGED defVars
  BY <1>6 DEF defVars, MarksHold, MarkIsForItsSteps
<1> QED BY <1>1, <1>2, <1>3, <1>4, <1>5, <1>6 DEF DefNext

\* However updates overlap, a mark of review is on steps that a human marked
\* (updateDefinition).
THEOREM MarksCorrect == DefSpec => []MarkIsForItsSteps
<1>1. DefInit => MarksHold
  BY InitMarks
<1>2. DefTypeOK /\ MarksHold /\ [DefNext]_defVars => MarksHold'
  BY NextMarks
<1>3. MarksHold => MarkIsForItsSteps
  BY DEF MarksHold
<1> QED BY <1>1, <1>2, <1>3, DefinitionTyped, PTL DEF DefSpec

-----------------------------------------------------------------------------
(* Publication.  While no requests overlapped, at most one is at work, and *)
(* the row is still the one it read.                                       *)

Working(e) == edit[e].step # "idle"

ReadIsCurrent ==
    /\ \A e \in Editors : Working(e) => def = edit[e].read
    /\ \A e, f \in Editors : Working(e) /\ Working(f) => e = f

Checked ==
    \A e \in Editors :
        edit[e].step = "publish" /\ edit[e].read.isAiDraft => edit[e].read.humanReviewed

AloneHold == Checked /\ (~ overlap => ReadIsCurrent) /\ PublishedAsReviewed

LEMMA InitAlone == DefInit => AloneHold
  BY DEF DefInit, AloneHold, Checked, ReadIsCurrent, Working, PublishedAsReviewed,
         NoEdit, NoDefinition

\* The end of a request: whoever else is at work began beside it.
LEMMA DoneAlone ==
  ASSUME Typed, AloneHold, NEW e \in Editors, Working(e),
         edit' = [edit EXCEPT ![e] = NoEdit], UNCHANGED overlap
  PROVE  /\ Checked'
         /\ ~ overlap' => ReadIsCurrent'
         /\ ~ overlap' => def.status = "DRAFT" /\ def = edit[e].read
<1>1. DefTypeOK /\ Editions
  BY DEF Typed
<1>2. \A f \in Editors : edit'[f] = IF f = e THEN NoEdit ELSE edit[f]
  BY <1>1 DEF DefTypeOK
<1>3. Checked'
  BY <1>2 DEF AloneHold, Checked, NoEdit
<1>4. ASSUME ~ overlap' PROVE \A f \in Editors : ~ Working(f)'
  BY <1>2, <1>4 DEF AloneHold, ReadIsCurrent, Working, NoEdit
<1>5. ~ overlap' => ReadIsCurrent'
  BY <1>4 DEF ReadIsCurrent
<1>6. ASSUME ~ overlap' PROVE def.status = "DRAFT" /\ def = edit[e].read
  BY <1>1, <1>6 DEF AloneHold, ReadIsCurrent, Working, DefTypeOK, Editions
<1> QED BY <1>3, <1>5, <1>6

LEMMA NextAlone ==
  ASSUME Typed, MarksHold, AloneHold, [DefNext]_defVars
  PROVE  AloneHold'
<1>1. DefTypeOK /\ Editions
  BY DEF Typed
<1>2. ASSUME NEW isAiDraft \in BOOLEAN, Create(isAiDraft) PROVE AloneHold'
  <2>1. \A e \in Editors : ~ Working(e)
    BY <1>1, <1>2 DEF Create, Editions, Working
  <2> QED BY <1>2, <2>1 DEF Create, AloneHold, Checked, ReadIsCurrent, Working, PublishedAsReviewed
<1>3. ASSUME NEW e \in Editors, UpdateRead(e) \/ PublishRead(e) PROVE AloneHold'
  <2>1. PICK step \in {"update", "publish"} :
           Read(e, step) /\ (step = "publish" /\ def.isAiDraft => def.humanReviewed)
    BY <1>3 DEF UpdateRead, PublishRead
  <2>2. /\ edit' = [edit EXCEPT ![e] = [step |-> step, read |-> def]]
        /\ UNCHANGED <<def, reviewed>>
        /\ overlap' = (overlap \/ \E f \in Editors : edit[f] # NoEdit)
    BY <2>1 DEF Read
  <2>3. Checked'
    BY <1>1, <2>1, <2>2 DEF AloneHold, Checked, DefTypeOK
  <2>4. ASSUME ~ overlap' PROVE ReadIsCurrent'
    <3>1. \A f \in Editors : edit[f] = NoEdit
      BY <2>2, <2>4
    <3>2. \A f \in Editors : f # e => ~ Working(f)'
      BY <1>1, <2>2, <3>1 DEF Working, NoEdit, DefTypeOK
    <3>3. edit'[e].read = def'
      BY <1>1, <2>2 DEF DefTypeOK
    <3> QED BY <3>2, <3>3 DEF ReadIsCurrent
  <2>5. PublishedAsReviewed'
    BY <2>2 DEF AloneHold, PublishedAsReviewed
  <2> QED BY <2>3, <2>4, <2>5 DEF AloneHold
<1>4. ASSUME NEW e \in Editors, WriteSteps(e) PROVE AloneHold'
  <2>1. PublishedAsReviewed'
    BY <1>1, <1>4, DoneAlone DEF WriteSteps, Working, PublishedAsReviewed, DefTypeOK
  <2> QED BY <1>4, <2>1, DoneAlone DEF WriteSteps, Working, AloneHold
<1>5. ASSUME NEW e \in Editors, NEW humanReviewed \in BOOLEAN, WriteReview(e, humanReviewed)
      PROVE  AloneHold'
  <2>1. PublishedAsReviewed'
    BY <1>1, <1>5, DoneAlone DEF WriteReview, Working, PublishedAsReviewed, DefTypeOK
  <2> QED BY <1>5, <2>1, DoneAlone DEF WriteReview, Working, AloneHold
<1>6. ASSUME NEW e \in Editors, Publish(e) PROVE AloneHold'
  <2>1. ASSUME ~ overlap', def'.isAiDraft PROVE def'.edition \in reviewed'
    <3>1. def = edit[e].read
      BY <1>6, <2>1, DoneAlone DEF Publish, Working
    <3>2. def'.isAiDraft = def.isAiDraft /\ def'.edition = def.edition /\ reviewed' = reviewed
      BY <1>1, <1>6 DEF Publish, DefTypeOK
    <3>3. def.humanReviewed
      BY <1>6, <2>1, <3>1, <3>2 DEF Publish, AloneHold, Checked
    <3> QED BY <3>2, <3>3 DEF MarksHold, MarkIsForItsSteps
  <2>2. PublishedAsReviewed'
    BY <2>1 DEF PublishedAsReviewed
  <2> QED BY <1>6, <2>2, DoneAlone DEF Publish, Working, AloneHold
<1>7. CASE UNCHANGED defVars
  BY <1>7 DEF defVars, AloneHold, Checked, ReadIsCurrent, Working, PublishedAsReviewed
<1> QED BY <1>2, <1>3, <1>4, <1>5, <1>6, <1>7 DEF DefNext

\* While requests come one after the other, what an AI drafted is published
\* only in an edition a human marked as reviewed (publishDefinition).
THEOREM PublicationCorrect == DefSpec => []PublishedAsReviewed
<1>1. DefInit => Typed /\ MarksHold /\ AloneHold
  BY InitTyped, InitMarks, InitAlone
<1>2. Typed /\ MarksHold /\ AloneHold /\ [DefNext]_defVars => (Typed /\ MarksHold /\ AloneHold)'
  BY NextTyped, NextMarks, NextAlone DEF Typed
<1>3. AloneHold => PublishedAsReviewed
  BY DEF AloneHold
<1> QED BY <1>1, <1>2, <1>3, PTL DEF DefSpec

-----------------------------------------------------------------------------
(* An instance: types.                                                     *)

Idle(u) == req[u] = NoRequest

OrderOf(r) == Order(steps[r].step)

\* What a request has found out when it gets to a step.
Prepared(q) ==
    /\ q.step = "idle" => q = NoRequest
    /\ q.step \in {"decide", "refetch"} => q.row \in DOMAIN steps /\ q.decision \in Decisions
    /\ q.step = "create" => q.todo # {}
    /\ q.step = "close" => q.route \in {"complete", "reject", "escalate"}

Nothing ==
    /\ steps = <<>> /\ approvals = {}
    /\ scan = {} /\ flagged = {}
    /\ \A u \in Users : Idle(u)

Inv ==
    /\ TypeOK
    /\ \A u \in Users : Prepared(req[u])
    /\ status = "none" => Nothing

Row == [step : DOMAIN Definition, started : 0 .. MaxSubmits, due : BOOLEAN,
        status : Success \cup {"in_progress", "rejected", "escalated"}]

Below == {pair \in Nat \X Nat : pair[1] < pair[2]}

\* Every set of step numbers or orders has a first one.
LEMMA FirstIs ==
  ASSUME NEW S \in SUBSET Nat, S # {}
  PROVE  First(S) \in S /\ \A m \in S : First(S) <= m
<1>1. IsWellFoundedOn(Below, Nat)
  BY NatLessThanWellFounded DEF OpToRel, Below
<1>2. PICK n \in S : \A m \in S : <<m, n>> \notin Below
  BY <1>1, WFMin
<1>3. ASSUME NEW k \in Nat, NEW m \in Nat, k < m PROVE <<k, m>> \in Below
  <2> DEFINE pair == <<k, m>>
  <2>1. pair \in Nat \X Nat /\ pair[1] = k /\ pair[2] = m
    OBVIOUS
  <2>2. pair[1] < pair[2]
    BY <1>3, <2>1
  <2> HIDE DEF pair
  <2>3. pair \in Below
    BY <2>1, <2>2, Zenon DEF Below
  <2> QED BY <2>3 DEF pair
<1>4. ASSUME NEW m \in S PROVE n <= m
  <2>1. m \in Nat /\ n \in Nat /\ <<m, n>> \notin Below
    BY <1>2
  <2>2. ~ (m < n)
    BY <1>3, <2>1, Zenon
  <2> QED BY <2>1, <2>2
<1> QED BY <1>4 DEF First

LEMMA Listed ==
  /\ DOMAIN Definition \in SUBSET (Nat \ {0}) /\ IsFiniteSet(DOMAIN Definition)
  /\ DOMAIN Definition # {}
  /\ \A i \in DOMAIN Definition : Definition[i] \in DefinitionStep /\ Order(i) \in Nat \ {0}
  /\ Orders \in SUBSET (Nat \ {0}) /\ Orders # {}
  /\ \A o \in Orders : StepsAt(o) # {} /\ StepsAt(o) \subseteq DOMAIN Definition
<1>1. Definition \in Seq(DefinitionStep) /\ Definition # <<>>
  BY WorkflowAssumption
<1>2. DOMAIN Definition = 1 .. Len(Definition) /\ Len(Definition) \in Nat \ {0}
  BY <1>1, EmptySeq
<1>3. IsFiniteSet(1 .. Len(Definition))
  BY <1>2, FS_Interval
<1>4. DOMAIN Definition \in SUBSET (Nat \ {0}) /\ DOMAIN Definition # {}
  BY <1>2
<1>5. \A i \in DOMAIN Definition : Definition[i] \in DefinitionStep
  BY <1>1
<1>6. \A i \in DOMAIN Definition : Order(i) \in Nat \ {0}
  BY <1>5 DEF Order, DefinitionStep
<1> QED BY <1>2, <1>3, <1>4, <1>5, <1>6 DEF Orders, StepsAt

LEMMA RowTypes ==
  ASSUME TypeOK
  PROVE  /\ steps \in Seq(Row)
         /\ \A r \in DOMAIN steps :
               /\ r \in Nat \ {0} /\ steps[r] \in Row
               /\ steps[r].step \in DOMAIN Definition /\ OrderOf(r) \in Orders
<1>1. steps \in Seq(Row)
  BY DEF TypeOK, Row
<1>2. \A r \in DOMAIN steps : r \in Nat \ {0} /\ steps[r] \in Row
  BY <1>1
<1>3. \A r \in DOMAIN steps : steps[r].step \in DOMAIN Definition
  BY <1>2 DEF Row
<1>4. \A r \in DOMAIN steps : OrderOf(r) \in Orders
  BY <1>3 DEF OrderOf, Orders
<1> QED BY <1>1, <1>2, <1>3, <1>4

-----------------------------------------------------------------------------
(* What routeNext looks at and what it answers.                            *)

Branch(o) == {steps[r].status : r \in {q \in DOMAIN steps : Order(steps[q].step) = o}}
Later(o)  == {p \in Orders : p > o}

LEMMA Routes ==
  ASSUME NEW o \in Nat
  PROVE  LET route == RouteNext(o) IN
    /\ route.kind \in {"complete", "reject", "escalate", "wait", "advance"}
    /\ route.kind = "complete" =>
         status = "COMPLETED" \/ (Branch(o) \subseteq Success /\ Later(o) = {})
    /\ route.kind = "reject" => status \in Ended \/ "rejected" \in Branch(o)
    /\ route.kind = "escalate" => "escalated" \in Branch(o) /\ route.order \in Orders \cup {0}
    /\ route.kind = "wait" =>
         /\ status \notin Ended
         /\ "rejected" \notin Branch(o) /\ "escalated" \notin Branch(o)
         /\ ~ (Branch(o) \subseteq Success)
    /\ route.kind = "advance" =>
         /\ Branch(o) \subseteq Success
         /\ route.order \in Later(o) /\ \A p \in Later(o) : route.order <= p
<1> DEFINE escape == {i \in DOMAIN Definition : Order(i) > o /\ Definition[i].escalation}
           route  == RouteNext(o)
<1>1. Later(o) # {} => First(Later(o)) \in Later(o) /\ \A p \in Later(o) : First(Later(o)) <= p
  BY Listed, FirstIs DEF Later
<1>2. escape # {} => Order(First(escape)) \in Orders
  <2>1. escape # {} => First(escape) \in escape
    BY Listed, FirstIs
  <2> QED BY <2>1 DEF Orders
<1>3. "COMPLETED" \in Ended
  BY DEF Ended
<1>4. route =
        IF status = "COMPLETED" THEN Route("complete", 0)
        ELSE IF status \in Ended \/ "rejected" \in Branch(o) THEN Route("reject", 0)
        ELSE IF "escalated" \in Branch(o)
             THEN Route("escalate", IF escape = {} THEN 0 ELSE Order(First(escape)))
        ELSE IF ~ (Branch(o) \subseteq Success) THEN Route("wait", 0)
        ELSE IF Later(o) = {} THEN Route("complete", 0)
        ELSE Route("advance", First(Later(o)))
  BY DEF RouteNext, Branch, Later
<1>5. \A kind, p : Route(kind, p).kind = kind /\ Route(kind, p).order = p
  BY DEF Route
<1> HIDE DEF route, escape
<1> QED BY <1>1, <1>2, <1>3, <1>4, <1>5 DEF route

-----------------------------------------------------------------------------
(* What an action does to the requests and to the rows.                    *)

LEMMA ReqBecomes ==
  ASSUME req \in [Users -> Request], NEW u \in Users, NEW q \in Request,
         req' = [req EXCEPT ![u] = q]
  PROVE  /\ req' \in [Users -> Request]
         /\ req'[u] = q
         /\ \A v \in Users \ {u} : req'[v] = req[v]
OBVIOUS

LEMMA NoRequestTyped == NoRequest \in Request /\ NoRequest.step = "idle"
  BY WorkflowAssumption DEF NoRequest, Request

\* After its second reading a decision waits, creates steps or ends the instance.
LEMMA RefetchTo ==
  ASSUME Inv, NEW u \in Users, Refetch(u)
  PROVE  LET route == RouteNext(OrderOf(req[u].row)) IN
    \/ /\ route.kind = "wait"
       /\ req' = [req EXCEPT ![u] = NoRequest]
    \/ \E todo \in SUBSET DOMAIN Definition :
         /\ todo # {} /\ todo \subseteq StepsAt(route.order)
         /\ route.kind = "advance" => todo = StepsAt(route.order)
         /\ route.kind \in {"advance", "escalate"}
         /\ req' = [req EXCEPT ![u] = [req[u] EXCEPT !.step = "create",
                                          !.route = route.kind, !.todo = todo]]
    \/ /\ route.kind \in {"complete", "reject", "escalate"}
       /\ req' = [req EXCEPT ![u] = [req[u] EXCEPT !.step = "close",
                                        !.route = route.kind, !.todo = {}]]
<1> DEFINE o     == OrderOf(req[u].row)
           route == RouteNext(o)
           todo  == CASE route.kind = "advance" -> StepsAt(route.order)
                      [] route.kind = "escalate" /\ route.order # 0 ->
                           {First(StepsAt(route.order))}
                      [] OTHER -> {}
<1>1. o \in Nat
  <2>1. req[u].row \in DOMAIN steps
    BY DEF Refetch, Inv, Prepared
  <2>2. steps[req[u].row].step \in DOMAIN Definition
    BY <2>1, RowTypes DEF Inv
  <2> QED BY <2>2, Listed DEF OrderOf
<1>2. req' = IF route.kind = "wait"
             THEN [req EXCEPT ![u] = NoRequest]
             ELSE [req EXCEPT ![u] = [req[u] EXCEPT !.step = IF todo = {} THEN "close" ELSE "create",
                                          !.route = route.kind, !.todo = todo]]
  BY DEF Refetch, OrderOf
<1>3. /\ route.kind \in {"complete", "reject", "escalate", "wait", "advance"}
      /\ route.kind = "escalate" => route.order \in Orders \cup {0}
      /\ route.kind = "advance" => route.order \in Orders
  BY <1>1, Routes DEF Later
<1> HIDE DEF o, route
<1>4. CASE route.kind = "wait"
  BY <1>2, <1>4 DEF o, route
<1>5. CASE route.kind = "advance"
  <2>1. todo = StepsAt(route.order)
    BY <1>5
  <2>2. todo # {} /\ todo \in SUBSET DOMAIN Definition
    BY <1>3, <1>5, <2>1, Listed
  <2> HIDE DEF todo
  <2> QED BY <1>2, <1>5, <2>1, <2>2 DEF o, route
<1>6. CASE route.kind = "escalate" /\ route.order # 0
  <2>1. todo = {First(StepsAt(route.order))}
    BY <1>6
  <2>2. StepsAt(route.order) \in SUBSET Nat /\ StepsAt(route.order) # {}
    BY <1>3, <1>6, Listed
  <2>3. First(StepsAt(route.order)) \in StepsAt(route.order)
    BY <2>2, FirstIs
  <2>4. todo # {} /\ todo \subseteq StepsAt(route.order) /\ todo \in SUBSET DOMAIN Definition
    BY <1>3, <1>6, <2>1, <2>3, Listed
  <2> HIDE DEF todo
  <2> QED BY <1>2, <1>6, <2>4 DEF o, route
<1>7. CASE route.kind \in {"complete", "reject", "escalate"}
           /\ ~ (route.kind = "escalate" /\ route.order # 0)
  <2>1. todo = {}
    BY <1>7
  <2> HIDE DEF todo
  <2> QED BY <1>2, <1>7, <2>1 DEF o, route
<1> QED BY <1>3, <1>4, <1>5, <1>6, <1>7

LEMMA RowWritten ==
  ASSUME TypeOK, NEW r \in DOMAIN steps,
         NEW st \in Success \cup {"in_progress", "rejected", "escalated"},
         steps' = [steps EXCEPT ![r].status = st]
  PROVE  /\ steps' \in Seq(Row) /\ DOMAIN steps' = DOMAIN steps
         /\ steps'[r].status = st /\ steps'[r].step = steps[r].step
         /\ \A q \in DOMAIN steps \ {r} : steps'[q] = steps[q]
<1>1. steps \in Seq(Row) /\ steps[r] \in Row
  BY RowTypes
<1>2. [steps[r] EXCEPT !.status = st] \in Row
  BY <1>1 DEF Row
<1>3. steps' = [steps EXCEPT ![r] = [steps[r] EXCEPT !.status = st]]
  OBVIOUS
<1>4. steps' \in Seq(Row) /\ DOMAIN steps' = DOMAIN steps
  BY <1>1, <1>2, <1>3
<1>5. steps'[r] = [steps[r] EXCEPT !.status = st]
  BY <1>3
<1> QED BY <1>1, <1>3, <1>4, <1>5 DEF Row

LEMMA RowAdded ==
  ASSUME TypeOK, NEW row \in Row, steps' = Append(steps, row)
  PROVE  /\ steps' \in Seq(Row)
         /\ Len(steps) + 1 \notin DOMAIN steps
         /\ DOMAIN steps' = DOMAIN steps \cup {Len(steps) + 1}
         /\ steps'[Len(steps) + 1] = row
         /\ \A q \in DOMAIN steps : steps'[q] = steps[q]
<1>1. steps \in Seq(Row)
  BY RowTypes
<1>2. DOMAIN steps = 1 .. Len(steps) /\ Len(steps) \in Nat
  BY <1>1
<1>3. DOMAIN steps' = 1 .. Len(steps) + 1
  BY <1>1
<1> QED BY <1>1, <1>2, <1>3

\* instantiate creates a row for each step of the first branch.
LEMMA FirstRows ==
  ASSUME Inv, Instantiate
  PROVE  /\ First(Orders) \in Orders /\ \A o \in Orders : First(Orders) <= o
         /\ steps' \in Seq(Row) /\ DOMAIN steps' # {}
         /\ \A r \in DOMAIN steps' : /\ steps'[r].status = "in_progress"
                                     /\ steps'[r].step \in StepsAt(First(Orders))
         /\ \A i \in StepsAt(First(Orders)) : \E r \in DOMAIN steps' : steps'[r].step = i
<1> DEFINE S == StepsAt(First(Orders))
<1>1. First(Orders) \in Orders /\ \A o \in Orders : First(Orders) <= o
  BY Listed, FirstIs
<1>2. S # {} /\ S \subseteq DOMAIN Definition
  BY <1>1, Listed
<1>3. IsFiniteSet(S) /\ Cardinality(S) \in Nat \ {0}
  <2>1. IsFiniteSet(S)
    BY <1>2, Listed, FS_Subset
  <2> QED BY <1>2, <2>1, FS_CardinalityType, FS_EmptySet
<1> HIDE DEF S
<1>4. PICK first \in SetToSeqs(S) :
         steps' = [k \in DOMAIN first |-> StepRow(first[k], 0, Definition[first[k]].due)]
  BY DEF Instantiate, S
<1> DEFINE D == 1 .. Cardinality(S)
<1>5. first \in [D -> S] /\ \A j, k \in D : j # k => first[j] # first[k]
  BY <1>4 DEF SetToSeqs
<1>6. \A i \in S : \E k \in D : first[k] = i
  <2>1. first \in Injection(D, S)
    BY <1>5 DEF Injection, IsInjective
  <2>2. IsFiniteSet(D) /\ Cardinality(D) = Cardinality(S)
    BY <1>3, FS_Interval
  <2>3. first \in Surjection(D, S)
    BY <1>3, <2>1, <2>2, FS_Injection
  <2> QED BY <2>3 DEF Surjection
<1>7. \A i \in S : Definition[i].due \in BOOLEAN
  BY <1>2, Listed DEF DefinitionStep
<1>8. \A k \in D : StepRow(first[k], 0, Definition[first[k]].due) \in Row
  BY <1>2, <1>5, <1>7, WorkflowAssumption DEF StepRow, Row
<1>9. steps' = [k \in D |-> StepRow(first[k], 0, Definition[first[k]].due)]
  BY <1>4, <1>5
<1>10. steps' \in Seq(Row)
  BY <1>3, <1>8, <1>9
<1>11. DOMAIN steps' = D /\ D # {}
  BY <1>3, <1>9
<1>12. \A k \in D : steps'[k].step = first[k] /\ steps'[k].status = "in_progress"
  BY <1>9 DEF StepRow
<1>13. \A k \in D : first[k] \in S
  BY <1>5
<1> QED BY <1>1, <1>6, <1>10, <1>11, <1>12, <1>13 DEF S

\* The step that a request creates.
LEMMA StepCreated ==
  ASSUME Inv, NEW u \in Users, CreateStep(u)
  PROVE  \E row \in Row, i \in req[u].todo :
           /\ row.step = i /\ row.status = "in_progress"
           /\ steps' = Append(steps, row)
           /\ \/ req[u].todo = {i} /\ req' = [req EXCEPT ![u] = NoRequest]
              \/ /\ req[u].todo # {i}
                 /\ req' = [req EXCEPT ![u] = [req[u] EXCEPT !.todo = req[u].todo \ {i}]]
<1> DEFINE i   == First(req[u].todo)
           due == Definition[i].due /\ req[u].route = "advance"
<1>1. req[u] \in Request /\ req[u].todo # {}
  BY DEF Inv, TypeOK, Prepared, CreateStep
<1>2. req[u].todo \in SUBSET DOMAIN Definition
  BY <1>1 DEF Request
<1>3. req[u].todo \in SUBSET Nat
  BY <1>2, Listed
<1>4. i \in req[u].todo
  BY <1>1, <1>3, FirstIs
<1>5. due \in BOOLEAN
  OBVIOUS
<1>6. StepRow(i, req[u].now, due) \in Row
  <2>1. req[u].now \in 0 .. MaxSubmits
    BY <1>1 DEF Request
  <2> HIDE DEF i, due
  <2> QED BY <1>2, <1>4, <1>5, <2>1 DEF StepRow, Row
<1>7. steps' = Append(steps, StepRow(i, req[u].now, due))
  BY DEF CreateStep
<1>8. req' = IF req[u].todo = {i} THEN [req EXCEPT ![u] = NoRequest]
             ELSE [req EXCEPT ![u] = [req[u] EXCEPT !.todo = req[u].todo \ {i}]]
  BY DEF CreateStep
<1>9. StepRow(i, req[u].now, due).step = i
      /\ StepRow(i, req[u].now, due).status = "in_progress"
  BY DEF StepRow
<1> HIDE DEF i, due
<1> QED BY <1>4, <1>6, <1>7, <1>8, <1>9

\* A row stays where it is and belongs to its step for good.
LEMMA RowsKept ==
  ASSUME Inv, [Next]_vars
  PROVE  /\ DOMAIN steps \subseteq DOMAIN steps'
         /\ \A r \in DOMAIN steps : steps'[r].step = steps[r].step
<1> DEFINE Goal == /\ DOMAIN steps \subseteq DOMAIN steps'
                   /\ \A r \in DOMAIN steps : steps'[r].step = steps[r].step
<1>1. ASSUME steps' = steps PROVE Goal
  BY <1>1
<1>2. CASE Instantiate
  <2>1. DOMAIN steps = {}
    BY <1>2 DEF Instantiate, Inv, Nothing
  <2> QED BY <2>1
<1>3. ASSUME NEW r \in DOMAIN steps, NEW st \in Success \cup {"in_progress", "rejected", "escalated"},
             steps' = [steps EXCEPT ![r].status = st]
      PROVE  Goal
  BY <1>3, RowWritten DEF Inv
<1>4. ASSUME NEW u \in Users, Decide(u) PROVE Goal
  <2>1. req[u].row \in DOMAIN steps /\ req[u].decision \in Decisions
    BY <1>4 DEF Decide, Inv, Prepared
  <2>2. Outcome[req[u].decision] \in Success \cup {"in_progress", "rejected", "escalated"}
    BY <2>1 DEF Decisions, Outcome, Success
  <2> QED BY <1>3, <1>4, <2>1, <2>2 DEF Decide
<1>5. ASSUME NEW u \in Users, CreateStep(u) PROVE Goal
  <2>1. PICK row \in Row : steps' = Append(steps, row)
    BY <1>5, StepCreated
  <2> QED BY <2>1, RowAdded DEF Inv
<1>6. ASSUME NEW r \in DOMAIN steps, ScanStep(r) PROVE Goal
  BY <1>1, <1>3, <1>6 DEF ScanStep
<1>7. ASSUME NEW u \in Users,
             (\E decision \in Decisions : SubmitRead(u, decision)) \/ Refetch(u) \/ Close(u)
             \/ CancelRead(u) \/ CancelWrite(u) \/ Fail(u)
      PROVE  Goal
  BY <1>1, <1>7 DEF SubmitRead, Refetch, Close, CancelRead, CancelWrite, Fail
<1>8. ASSUME NEW r \in DOMAIN steps, ScanFail(r) \/ KeyExpires(r) PROVE Goal
  BY <1>1, <1>8 DEF ScanFail, KeyExpires
<1>9. CASE ScanRead \/ UNCHANGED vars
  BY <1>1, <1>9 DEF ScanRead, vars
<1> QED BY <1>2, <1>4, <1>5, <1>6, <1>7, <1>8, <1>9 DEF Next

-----------------------------------------------------------------------------
(* Types are kept.                                                         *)

LEMMA InitInv == Init => Inv
<1> SUFFICES ASSUME Init PROVE Inv
  OBVIOUS
<1>1. steps = <<>> /\ steps \in Seq(Row) /\ DOMAIN steps = {}
  BY DEF Init
<1>2. req \in [Users -> Request] /\ \A u \in Users : req[u] = NoRequest
  BY NoRequestTyped DEF Init
<1>3. TypeOK
  BY <1>1, <1>2, WorkflowAssumption DEF Init, TypeOK, Row
<1>4. \A u \in Users : Prepared(req[u])
  BY <1>2, NoRequestTyped DEF Prepared
<1>5. Nothing
  BY <1>1, <1>2 DEF Init, Nothing, Idle
<1> QED BY <1>3, <1>4, <1>5 DEF Inv

\* The part of the invariant that is about the requests.
Asked == req \in [Users -> Request] /\ \A u \in Users : Prepared(req[u])

LEMMA AskedKept ==
  ASSUME Inv, DOMAIN steps \subseteq DOMAIN steps', UNCHANGED req
  PROVE  Asked'
BY DEF Inv, TypeOK, Asked, Prepared

LEMMA AskedNext ==
  ASSUME Inv, DOMAIN steps \subseteq DOMAIN steps',
         NEW u \in Users, NEW q \in Request, Prepared(q)', req' = [req EXCEPT ![u] = q]
  PROVE  Asked'
<1>1. req' \in [Users -> Request] /\ req'[u] = q /\ \A v \in Users \ {u} : req'[v] = req[v]
  BY ReqBecomes DEF Inv, TypeOK
<1>2. \A v \in Users \ {u} : Prepared(req[v])'
  BY <1>1 DEF Inv, Prepared
<1>3. Prepared(req[u])'
  BY <1>1 DEF Prepared
<1> QED BY <1>1, <1>2, <1>3 DEF Asked

LEMMA AskedDone ==
  ASSUME Inv, DOMAIN steps \subseteq DOMAIN steps',
         NEW u \in Users, req' = [req EXCEPT ![u] = NoRequest]
  PROVE  Asked'
<1>1. Prepared(NoRequest)'
  BY NoRequestTyped DEF Prepared
<1> QED BY <1>1, AskedNext, NoRequestTyped

LEMMA NextAsked ==
  ASSUME Inv, [Next]_vars
  PROVE  Asked'
<1>1. DOMAIN steps \subseteq DOMAIN steps'
  BY RowsKept
<1>2. \A u \in Users : req[u] \in Request /\ Prepared(req[u])
  BY DEF Inv, TypeOK
<1>3. ASSUME NEW u \in Users, NEW decision \in Decisions, SubmitRead(u, decision) PROVE Asked'
  <2>1. PICK r \in Current :
           req' = [req EXCEPT ![u] = [NoRequest EXCEPT
                     !.step = "decide", !.row = r, !.decision = decision, !.now = submits + 1]]
    BY <1>3 DEF SubmitRead
  <2>2. r \in DOMAIN steps /\ r \in Nat
    BY RowTypes DEF Current, Active, Inv
  <2>3. submits + 1 \in 0 .. MaxSubmits
    BY <1>3, WorkflowAssumption DEF SubmitRead, Inv, TypeOK
  <2>4. PICK q \in Request :
           q = [NoRequest EXCEPT
                  !.step = "decide", !.row = r, !.decision = decision, !.now = submits + 1]
    BY <2>2, <2>3, NoRequestTyped DEF Request
  <2>5. q.step = "decide" /\ q.row = r /\ q.decision = decision
    BY <2>4 DEF NoRequest
  <2>6. Prepared(q)'
    BY <1>1, <2>2, <2>5 DEF Prepared
  <2> QED BY <1>1, <2>1, <2>4, <2>6, AskedNext
<1>4. ASSUME NEW u \in Users, Decide(u) PROVE Asked'
  <2>1. PICK q \in Request : q = [req[u] EXCEPT !.step = "refetch"]
    BY <1>2 DEF Request
  <2>2. q.step = "refetch" /\ q.row = req[u].row /\ q.decision = req[u].decision
    BY <1>2, <2>1 DEF Request
  <2>3. q.row \in DOMAIN steps' /\ q.decision \in Decisions
    BY <1>1, <1>2, <1>4, <2>2 DEF Decide, Prepared
  <2>4. Prepared(q)'
    BY <2>2, <2>3 DEF Prepared
  <2> QED BY <1>1, <1>4, <2>1, <2>4, AskedNext DEF Decide
<1>5. ASSUME NEW u \in Users, Refetch(u) PROVE Asked'
  <2> DEFINE route == RouteNext(OrderOf(req[u].row))
  <2>1. CASE req' = [req EXCEPT ![u] = NoRequest]
    BY <1>1, <2>1, AskedDone
  <2>2. ASSUME NEW todo \in SUBSET DOMAIN Definition, todo # {},
               route.kind \in {"advance", "escalate"},
               req' = [req EXCEPT ![u] = [req[u] EXCEPT !.step = "create",
                                             !.route = route.kind, !.todo = todo]]
        PROVE  Asked'
    <3> HIDE DEF route
    <3>1. PICK q \in Request :
             q = [req[u] EXCEPT !.step = "create", !.route = route.kind, !.todo = todo]
      BY <1>2, <2>2 DEF Request
    <3>2. q.step = "create" /\ q.route = route.kind /\ q.todo = todo
      BY <1>2, <3>1 DEF Request
    <3>3. Prepared(q)'
      BY <2>2, <3>2 DEF Prepared
    <3> QED BY <1>1, <2>2, <3>1, <3>3, AskedNext
  <2>3. ASSUME route.kind \in {"complete", "reject", "escalate"},
               req' = [req EXCEPT ![u] = [req[u] EXCEPT !.step = "close",
                                             !.route = route.kind, !.todo = {}]]
        PROVE  Asked'
    <3> HIDE DEF route
    <3>1. PICK q \in Request :
             q = [req[u] EXCEPT !.step = "close", !.route = route.kind, !.todo = {}]
      BY <1>2, <2>3 DEF Request
    <3>2. q.step = "close" /\ q.route = route.kind /\ q.todo = {}
      BY <1>2, <3>1 DEF Request
    <3>3. Prepared(q)'
      BY <2>3, <3>2 DEF Prepared
    <3> QED BY <1>1, <2>3, <3>1, <3>3, AskedNext
  <2> QED BY <1>5, <2>1, <2>2, <2>3, RefetchTo
<1>6. ASSUME NEW u \in Users, CreateStep(u) PROVE Asked'
  <2>1. PICK i \in req[u].todo :
           \/ req' = [req EXCEPT ![u] = NoRequest]
           \/ /\ req[u].todo # {i}
              /\ req' = [req EXCEPT ![u] = [req[u] EXCEPT !.todo = req[u].todo \ {i}]]
    BY <1>6, StepCreated
  <2>2. CASE req' = [req EXCEPT ![u] = NoRequest]
    BY <1>1, <2>2, AskedDone
  <2>3. CASE req[u].todo # {i}
             /\ req' = [req EXCEPT ![u] = [req[u] EXCEPT !.todo = req[u].todo \ {i}]]
    <3>1. PICK q \in Request : q = [req[u] EXCEPT !.todo = req[u].todo \ {i}]
      BY <1>2 DEF Request
    <3>2. q.step = "create" /\ q.todo # {}
      BY <1>2, <1>6, <2>1, <2>3, <3>1 DEF CreateStep, Request
    <3>3. Prepared(q)'
      BY <3>2 DEF Prepared
    <3> QED BY <1>1, <2>3, <3>1, <3>3, AskedNext
  <2> QED BY <2>1, <2>2, <2>3
<1>7. ASSUME NEW u \in Users, CancelRead(u) PROVE Asked'
  <2>1. PICK q \in Request : q = [req[u] EXCEPT !.step = "cancel"]
    BY <1>2 DEF Request
  <2>2. q.step = "cancel"
    BY <1>2, <2>1 DEF Request
  <2>3. Prepared(q)'
    BY <2>2 DEF Prepared
  <2> QED BY <1>1, <1>7, <2>1, <2>3, AskedNext DEF CancelRead
<1>8. ASSUME NEW u \in Users, Close(u) \/ CancelWrite(u) \/ Fail(u) PROVE Asked'
  BY <1>1, <1>8, AskedDone DEF Close, CancelWrite, Fail
<1>9. ASSUME UNCHANGED req PROVE Asked'
  BY <1>1, <1>9, AskedKept
<1>10. CASE Instantiate \/ ScanRead \/ UNCHANGED vars
  BY <1>9, <1>10 DEF Instantiate, ScanRead, vars
<1>11. ASSUME NEW r \in DOMAIN steps, ScanStep(r) \/ ScanFail(r) \/ KeyExpires(r) PROVE Asked'
  BY <1>9, <1>11 DEF ScanStep, ScanFail, KeyExpires
<1> QED BY <1>3, <1>4, <1>5, <1>6, <1>7, <1>8, <1>10, <1>11 DEF Next

\* Nothing happens before the instance is there, and it is never gone again.
LEMMA Begun ==
  ASSUME Inv, Next
  PROVE  status' # "none" /\ (status = "none" => Instantiate)
<1>1. \A u \in Users : Prepared(req[u])
  BY DEF Inv
<1>2. status = "none" => DOMAIN steps = {} /\ \A u \in Users : req[u] = NoRequest
  BY DEF Inv, Nothing, Idle
<1>3. CASE Instantiate
  BY <1>3 DEF Instantiate
<1>4. ASSUME NEW u \in Users, (\E decision \in Decisions : SubmitRead(u, decision)) \/ CancelRead(u)
      PROVE  status # "none" /\ status' = status
  BY <1>4 DEF SubmitRead, CancelRead
<1>5. ASSUME NEW u \in Users, Decide(u) \/ Refetch(u) \/ CreateStep(u) \/ Fail(u)
      PROVE  status # "none" /\ status' = status
  BY <1>2, <1>5, NoRequestTyped DEF Decide, Refetch, CreateStep, Fail
<1>6. ASSUME NEW u \in Users, Close(u) PROVE status # "none" /\ status' # "none"
  <2>1. status # "none" /\ req[u].route \in {"complete", "reject", "escalate"}
    BY <1>1, <1>2, <1>6, NoRequestTyped DEF Close, Prepared
  <2> QED BY <1>6, <2>1 DEF Close
<1>7. ASSUME NEW u \in Users, CancelWrite(u) PROVE status # "none" /\ status' # "none"
  BY <1>2, <1>7, NoRequestTyped DEF CancelWrite
<1>8. ASSUME ScanRead PROVE status # "none" /\ status' = status
  BY <1>2, <1>8 DEF ScanRead, Active
<1>9. ASSUME NEW r \in DOMAIN steps, ScanStep(r) \/ ScanFail(r) \/ KeyExpires(r)
      PROVE  status # "none" /\ status' = status
  BY <1>2, <1>9 DEF ScanStep, ScanFail, KeyExpires
<1> QED BY <1>3, <1>4, <1>5, <1>6, <1>7, <1>8, <1>9 DEF Next

LEMMA NextTypes ==
  ASSUME Inv, [Next]_vars
  PROVE  TypeOK'
<1>1. req' \in [Users -> Request]
  BY NextAsked DEF Asked
<1>2. DOMAIN steps \subseteq DOMAIN steps'
  BY RowsKept
<1>3. /\ TypeOK /\ steps \in Seq(Row)
      /\ \A u \in Users : req[u] \in Request /\ Prepared(req[u])
  BY RowTypes DEF Inv, TypeOK
<1>4. UNCHANGED approvals => approvals' \subseteq [row : DOMAIN steps', decision : Decisions]
  BY <1>2, <1>3 DEF TypeOK
<1>5. /\ UNCHANGED scan => scan' \subseteq DOMAIN steps'
      /\ UNCHANGED flagged => flagged' \subseteq DOMAIN steps'
  BY <1>2, <1>3 DEF TypeOK
<1>6. Begin => odd' \subseteq {"overlap", "failure", "overdue"}
  BY <1>3 DEF Begin, TypeOK
<1>7. failures < MaxFailures /\ failures' = failures + 1 => failures' \in 0 .. MaxFailures
  BY <1>3, WorkflowAssumption DEF TypeOK
<1>8. ASSUME status' \in {"none", "RUNNING"} \cup Ended, steps' \in Seq(Row),
             approvals' \subseteq [row : DOMAIN steps', decision : Decisions],
             scan' \subseteq DOMAIN steps', flagged' \subseteq DOMAIN steps',
             submits' \in 0 .. MaxSubmits, failures' \in 0 .. MaxFailures,
             odd' \subseteq {"overlap", "failure", "overdue"}
      PROVE  TypeOK'
  BY <1>1, <1>8 DEF TypeOK, Row
<1>9. CASE Instantiate
  <2>1. steps' \in Seq(Row)
    BY <1>9, FirstRows
  <2> QED BY <1>3, <1>4, <1>5, <1>8, <1>9, <2>1 DEF Instantiate, TypeOK
<1>10. ASSUME NEW u \in Users, NEW decision \in Decisions, SubmitRead(u, decision) PROVE TypeOK'
  <2>1. submits' \in 0 .. MaxSubmits
    BY <1>3, <1>10, WorkflowAssumption DEF SubmitRead, TypeOK
  <2> QED BY <1>3, <1>4, <1>5, <1>6, <1>8, <1>10, <2>1 DEF SubmitRead, TypeOK
<1>11. ASSUME NEW u \in Users, Decide(u) PROVE TypeOK'
  <2>1. req[u].row \in DOMAIN steps /\ req[u].decision \in Decisions
    BY <1>3, <1>11 DEF Decide, Prepared
  <2>2. Outcome[req[u].decision] \in Success \cup {"in_progress", "rejected", "escalated"}
    BY <2>1 DEF Decisions, Outcome, Success
  <2>3. steps' \in Seq(Row)
    BY <1>3, <1>11, <2>1, <2>2, RowWritten DEF Decide
  <2>4. approvals' \subseteq [row : DOMAIN steps', decision : Decisions]
    BY <1>2, <1>3, <1>11, <2>1 DEF Decide, TypeOK
  <2> QED BY <1>3, <1>5, <1>8, <1>11, <2>3, <2>4 DEF Decide, TypeOK
<1>12. ASSUME NEW u \in Users, CreateStep(u) PROVE TypeOK'
  <2>1. steps' \in Seq(Row)
    <3>1. PICK row \in Row : steps' = Append(steps, row)
      BY <1>12, StepCreated
    <3> QED BY <1>3, <3>1, RowAdded
  <2> QED BY <1>3, <1>4, <1>5, <1>8, <1>12, <2>1 DEF CreateStep, TypeOK
<1>13. ASSUME NEW u \in Users, Close(u) \/ CancelWrite(u) PROVE TypeOK'
  <2>1. status' \in Ended
    <3>1. CASE Close(u)
      <4>1. req[u].route \in {"complete", "reject", "escalate"}
        BY <1>3, <3>1 DEF Close, Prepared
      <4> QED BY <3>1, <4>1 DEF Close, Ended
    <3>2. CASE CancelWrite(u)
      BY <3>2 DEF CancelWrite, Ended
    <3> QED BY <1>13, <3>1, <3>2
  <2> QED BY <1>3, <1>4, <1>5, <1>8, <1>13, <2>1 DEF Close, CancelWrite, TypeOK
<1>14. ASSUME NEW u \in Users, Refetch(u) \/ CancelRead(u) \/ Fail(u) PROVE TypeOK'
  <2>1. odd' \subseteq {"overlap", "failure", "overdue"} /\ failures' \in 0 .. MaxFailures
    BY <1>3, <1>6, <1>7, <1>14 DEF Refetch, CancelRead, Fail, TypeOK
  <2> QED BY <1>3, <1>4, <1>5, <1>8, <1>14, <2>1 DEF Refetch, CancelRead, Fail, TypeOK
<1>15. CASE ScanRead
  <2>1. scan' \subseteq DOMAIN steps'
    BY <1>15 DEF ScanRead, Active
  <2> QED BY <1>3, <1>4, <1>5, <1>6, <1>8, <1>15, <2>1 DEF ScanRead, TypeOK
<1>16. ASSUME NEW r \in DOMAIN steps, ScanStep(r) PROVE TypeOK'
  <2>1. steps' \in Seq(Row)
    BY <1>3, <1>16, RowWritten DEF ScanStep
  <2>2. scan' \subseteq DOMAIN steps' /\ flagged' \subseteq DOMAIN steps'
    BY <1>2, <1>3, <1>16 DEF ScanStep, TypeOK
  <2>3. odd' \subseteq {"overlap", "failure", "overdue"}
    BY <1>3, <1>16 DEF ScanStep, TypeOK
  <2> QED BY <1>3, <1>4, <1>8, <1>16, <2>1, <2>2, <2>3 DEF ScanStep, TypeOK
<1>17. ASSUME NEW r \in DOMAIN steps, ScanFail(r) \/ KeyExpires(r) PROVE TypeOK'
  <2>1. scan' \subseteq DOMAIN steps' /\ flagged' \subseteq DOMAIN steps'
    BY <1>2, <1>3, <1>17 DEF ScanFail, KeyExpires, TypeOK
  <2>2. odd' \subseteq {"overlap", "failure", "overdue"} /\ failures' \in 0 .. MaxFailures
    BY <1>3, <1>7, <1>17 DEF ScanFail, KeyExpires, TypeOK
  <2> QED BY <1>3, <1>4, <1>8, <1>17, <2>1, <2>2 DEF ScanFail, KeyExpires, TypeOK
<1>18. CASE UNCHANGED vars
  BY <1>3, <1>4, <1>5, <1>8, <1>18 DEF vars, TypeOK
<1> QED BY <1>9, <1>10, <1>11, <1>12, <1>13, <1>14, <1>15, <1>16, <1>17, <1>18 DEF Next

LEMMA NextInv ==
  ASSUME Inv, [Next]_vars
  PROVE  Inv'
<1>1. TypeOK' /\ \A u \in Users : Prepared(req[u])'
  BY NextTypes, NextAsked DEF Asked
<1>2. CASE Next
  BY <1>1, <1>2, Begun DEF Inv
<1>3. CASE UNCHANGED vars
  BY <1>1, <1>3 DEF vars, Inv, Nothing, Idle
<1> QED BY <1>2, <1>3

THEOREM InvHolds == Spec => []Inv
BY InitInv, NextInv, PTL DEF Spec

\* The instance, its rows and the requests keep their types, for any
\* definition, users and bounds.
THEOREM TypeCorrect == Spec => []TypeOK
<1>1. Inv => TypeOK
  BY DEF Inv
<1> QED BY <1>1, InvHolds, PTL

-----------------------------------------------------------------------------
(* The requests after an action of one of them.                            *)

OnlyBy(u) == \A v \in Users \ {u} : req'[v] = req[v]

LEMMA AfterSubmit ==
  ASSUME Inv, NEW u \in Users, NEW decision \in Decisions, SubmitRead(u, decision)
  PROVE  OnlyBy(u) /\ req'[u].step = "decide" /\ req'[u].row \in Active
<1>1. PICK r \in Current :
         req' = [req EXCEPT ![u] = [NoRequest EXCEPT
                   !.step = "decide", !.row = r, !.decision = decision, !.now = submits + 1]]
  BY DEF SubmitRead
<1>2. r \in Active
  BY DEF Current
<1>3. PICK q : q = [NoRequest EXCEPT !.step = "decide", !.row = r, !.decision = decision,
                                     !.now = submits + 1]
  OBVIOUS
<1>4. q.step = "decide" /\ q.row = r
  BY <1>3 DEF NoRequest
<1>5. req \in [Users -> Request] /\ req' = [req EXCEPT ![u] = q]
  BY <1>1, <1>3 DEF Inv, TypeOK
<1> QED BY <1>2, <1>4, <1>5 DEF OnlyBy

LEMMA AfterDecide ==
  ASSUME Inv, NEW u \in Users, Decide(u)
  PROVE  OnlyBy(u) /\ req'[u].step = "refetch" /\ req'[u].row = req[u].row
<1>1. req \in [Users -> Request] /\ req[u] \in Request
  BY DEF Inv, TypeOK
<1>2. req' = [req EXCEPT ![u] = [req[u] EXCEPT !.step = "refetch"]]
  BY DEF Decide
<1>3. req'[u] = [req[u] EXCEPT !.step = "refetch"]
  BY <1>1, <1>2
<1> QED BY <1>1, <1>2, <1>3 DEF OnlyBy, Request

LEMMA AfterRefetch ==
  ASSUME Inv, NEW u \in Users, Refetch(u)
  PROVE  LET route == RouteNext(OrderOf(req[u].row)) IN
    /\ OnlyBy(u)
    /\ \/ route.kind = "wait" /\ req'[u] = NoRequest
       \/ /\ req'[u].step = "create" /\ req'[u].todo # {}
          /\ req'[u].todo \subseteq StepsAt(route.order)
          /\ route.kind = "advance" => req'[u].todo = StepsAt(route.order)
          /\ route.kind \in {"advance", "escalate"}
       \/ /\ req'[u].step = "close" /\ req'[u].route = route.kind
          /\ route.kind \in {"complete", "reject", "escalate"}
<1> DEFINE route == RouteNext(OrderOf(req[u].row))
<1>1. req \in [Users -> Request] /\ req[u] \in Request
  BY DEF Inv, TypeOK
<1> HIDE DEF route
<1>2. CASE route.kind = "wait" /\ req' = [req EXCEPT ![u] = NoRequest]
  BY <1>1, <1>2 DEF OnlyBy, route
<1>3. ASSUME NEW todo \in SUBSET DOMAIN Definition, todo # {}, todo \subseteq StepsAt(route.order),
             route.kind = "advance" => todo = StepsAt(route.order),
             route.kind \in {"advance", "escalate"},
             req' = [req EXCEPT ![u] = [req[u] EXCEPT !.step = "create",
                                           !.route = route.kind, !.todo = todo]]
      PROVE  /\ OnlyBy(u)
             /\ req'[u].step = "create" /\ req'[u].todo = todo
  <2>1. req'[u] = [req[u] EXCEPT !.step = "create", !.route = route.kind, !.todo = todo]
    BY <1>1, <1>3
  <2> QED BY <1>1, <1>3, <2>1 DEF OnlyBy, Request
<1>4. ASSUME route.kind \in {"complete", "reject", "escalate"},
             req' = [req EXCEPT ![u] = [req[u] EXCEPT !.step = "close",
                                           !.route = route.kind, !.todo = {}]]
      PROVE  OnlyBy(u) /\ req'[u].step = "close" /\ req'[u].route = route.kind
  <2>1. req'[u] = [req[u] EXCEPT !.step = "close", !.route = route.kind, !.todo = {}]
    BY <1>1, <1>4
  <2> QED BY <1>1, <1>4, <2>1 DEF OnlyBy, Request
<1> QED BY <1>2, <1>3, <1>4, RefetchTo DEF route

LEMMA AfterCreate ==
  ASSUME Inv, NEW u \in Users, CreateStep(u)
  PROVE  /\ OnlyBy(u)
         /\ \E row \in Row, i \in req[u].todo :
              /\ row.step = i /\ row.status = "in_progress"
              /\ steps' = Append(steps, row)
              /\ \/ req[u].todo = {i} /\ req'[u] = NoRequest
                 \/ req'[u].step = "create" /\ req'[u].todo = req[u].todo \ {i}
<1>1. req \in [Users -> Request] /\ req[u] \in Request
  BY DEF Inv, TypeOK
<1>2. PICK row \in Row, i \in req[u].todo :
           /\ row.step = i /\ row.status = "in_progress"
           /\ steps' = Append(steps, row)
           /\ \/ req[u].todo = {i} /\ req' = [req EXCEPT ![u] = NoRequest]
              \/ req' = [req EXCEPT ![u] = [req[u] EXCEPT !.todo = req[u].todo \ {i}]]
  BY StepCreated
<1>3. CASE req[u].todo = {i} /\ req' = [req EXCEPT ![u] = NoRequest]
  BY <1>1, <1>2, <1>3 DEF OnlyBy
<1>4. CASE req' = [req EXCEPT ![u] = [req[u] EXCEPT !.todo = req[u].todo \ {i}]]
  <2>1. req'[u] = [req[u] EXCEPT !.todo = req[u].todo \ {i}]
    BY <1>1, <1>4
  <2>2. req'[u].step = "create" /\ req'[u].todo = req[u].todo \ {i}
    BY <1>1, <2>1 DEF CreateStep, Request
  <2>3. OnlyBy(u)
    BY <1>1, <1>4 DEF OnlyBy
  <2> QED BY <1>2, <2>2, <2>3
<1> QED BY <1>2, <1>3, <1>4

LEMMA AfterCancelRead ==
  ASSUME Inv, NEW u \in Users, CancelRead(u)
  PROVE  OnlyBy(u) /\ req'[u].step = "cancel"
<1>1. req \in [Users -> Request] /\ req[u] \in Request
  BY DEF Inv, TypeOK
<1>2. req' = [req EXCEPT ![u] = [req[u] EXCEPT !.step = "cancel"]]
  BY DEF CancelRead
<1>3. req'[u] = [req[u] EXCEPT !.step = "cancel"]
  BY <1>1, <1>2
<1> QED BY <1>1, <1>2, <1>3 DEF OnlyBy, Request

LEMMA AfterEnd ==
  ASSUME Inv, NEW u \in Users, Close(u) \/ CancelWrite(u) \/ Fail(u)
  PROVE  OnlyBy(u) /\ req'[u] = NoRequest
BY DEF Inv, TypeOK, OnlyBy, Close, CancelWrite, Fail

-----------------------------------------------------------------------------
(* A row with a status of success has an approval that gave it.            *)

AtTheEnd ==
    \E i \in DOMAIN Definition :
        /\ \A o \in Orders : o <= Order(i)
        /\ Decided(i, Passing)

PassedInv ==
    /\ \A r \in DOMAIN steps : steps[r].status \in Success =>
          \E a \in approvals : a.row = r /\ a.decision \in Passing
    /\ status = "COMPLETED" => AtTheEnd
    /\ \A u \in Users : req[u].step = "close" /\ req[u].route = "complete" => AtTheEnd

LEMMA InitPassed == Init => PassedInv
BY NoRequestTyped DEF Init, PassedInv

\* What was decided on a step stays decided.
LEMMA DecidedKept ==
  ASSUME Inv, [Next]_vars, approvals \subseteq approvals'
  PROVE  AtTheEnd => AtTheEnd'
<1> SUFFICES ASSUME AtTheEnd PROVE AtTheEnd'
  OBVIOUS
<1>1. PICK i \in DOMAIN Definition : (\A o \in Orders : o <= Order(i)) /\ Decided(i, Passing)
  BY DEF AtTheEnd
<1>2. PICK a \in approvals : steps[a.row].step = i /\ a.decision \in Passing
  BY <1>1 DEF Decided
<1>3. a.row \in DOMAIN steps
  BY DEF Inv, TypeOK
<1>4. a \in approvals' /\ steps'[a.row].step = i
  BY <1>2, <1>3, RowsKept
<1>5. \E b \in approvals' : steps'[b.row].step = i /\ b.decision \in Passing
  BY <1>2, <1>4
<1> QED BY <1>1, <1>5 DEF AtTheEnd, Decided, Order

\* The row of a decision under way, as routeNext sees it.
LEMMA DecidedRow ==
  ASSUME Inv, NEW u \in Users, Refetch(u)
  PROVE  /\ req[u].row \in DOMAIN steps /\ steps[req[u].row].step \in DOMAIN Definition
         /\ OrderOf(req[u].row) \in Nat
         /\ steps[req[u].row].status \in Branch(OrderOf(req[u].row))
<1>1. req[u].row \in DOMAIN steps
  BY DEF Refetch, Inv, Prepared
<1>2. steps[req[u].row].step \in DOMAIN Definition /\ OrderOf(req[u].row) \in Orders
  BY <1>1, RowTypes DEF Inv
<1> QED BY <1>1, <1>2, Listed DEF Branch, OrderOf

LEMMA NextPassed ==
  ASSUME Inv, PassedInv, [Next]_vars
  PROVE  PassedInv'
<1> DEFINE Given(r) == \E a \in approvals : a.row = r /\ a.decision \in Passing
           Ending(u) == req[u].step = "close" /\ req[u].route = "complete"
<1>1. \A u \in Users : Prepared(req[u]) /\ req[u] \in Request
  BY DEF Inv, TypeOK
<1>2. TypeOK
  BY DEF Inv
<1>3. approvals \subseteq approvals'
  <2>1. UNCHANGED approvals \/ \E u \in Users : Decide(u)
    BY DEF Next, Instantiate, SubmitRead, Refetch, CreateStep, Close, CancelRead, CancelWrite,
           Fail, ScanRead, ScanStep, ScanFail, KeyExpires, vars
  <2> QED BY <2>1 DEF Decide
<1>4. /\ AtTheEnd => AtTheEnd'
      /\ \A r : Given(r) => Given(r)'
  BY <1>3, DecidedKept
<1>5. ASSUME \A r \in DOMAIN steps' : steps'[r].status \in Success =>
                 (r \in DOMAIN steps /\ steps[r].status \in Success) \/ Given(r)',
             status' = "COMPLETED" => status = "COMPLETED" \/ AtTheEnd',
             \A u \in Users : Ending(u)' => Ending(u) \/ AtTheEnd'
      PROVE  PassedInv'
  BY <1>4, <1>5 DEF PassedInv
<1> HIDE DEF Given
<1>6. CASE Instantiate
  <2>1. \A r \in DOMAIN steps' : steps'[r].status \notin Success
    BY <1>6, FirstRows DEF Success
  <2> QED BY <1>5, <1>6, <2>1 DEF Instantiate
<1>7. ASSUME NEW u \in Users, Decide(u) PROVE PassedInv'
  <2>1. req[u].row \in DOMAIN steps /\ req[u].decision \in Decisions
    BY <1>1, <1>7 DEF Decide, Prepared
  <2>2. Outcome[req[u].decision] \in Success \cup {"in_progress", "rejected", "escalated"}
    BY <2>1 DEF Decisions, Outcome, Success
  <2>3. /\ DOMAIN steps' = DOMAIN steps
        /\ steps'[req[u].row].status = Outcome[req[u].decision]
        /\ \A q \in DOMAIN steps \ {req[u].row} : steps'[q] = steps[q]
    BY <1>2, <1>7, <2>1, <2>2, RowWritten DEF Decide
  <2>4. Outcome[req[u].decision] \in Success => req[u].decision \in Passing
    BY <2>1 DEF Decisions, Outcome, Success, Passing
  <2>5. [row |-> req[u].row, decision |-> req[u].decision] \in approvals'
    BY <1>7 DEF Decide
  <2>6. Outcome[req[u].decision] \in Success =>
           \E a \in approvals' : a.row = req[u].row /\ a.decision \in Passing
    BY <2>4, <2>5
  <2>7. \A v \in Users : Ending(v)' => Ending(v)
    BY <1>7, AfterDecide DEF OnlyBy
  <2>8. \A r \in DOMAIN steps' : steps'[r].status \in Success =>
           (r \in DOMAIN steps /\ steps[r].status \in Success) \/ Given(r)'
    BY <2>3, <2>6 DEF Given
  <2> QED BY <1>5, <1>7, <2>7, <2>8 DEF Decide
<1>8. ASSUME NEW u \in Users, Refetch(u) PROVE PassedInv'
  <2> DEFINE o == OrderOf(req[u].row)
  <2>1. /\ o \in Nat /\ req[u].row \in DOMAIN steps
        /\ steps[req[u].row].step \in DOMAIN Definition
        /\ steps[req[u].row].status \in Branch(o)
    BY <1>8, DecidedRow
  <2>2. RouteNext(o).kind = "complete" => AtTheEnd
    <3>1. CASE status = "COMPLETED"
      BY <3>1 DEF PassedInv
    <3>2. CASE Branch(o) \subseteq Success /\ Later(o) = {}
      <4>1. \A p \in Orders : p <= o
        BY <2>1, <3>2, Listed DEF Later
      <4>2. PICK a \in approvals : a.row = req[u].row /\ a.decision \in Passing
        BY <2>1, <3>2 DEF PassedInv
      <4> QED BY <2>1, <4>1, <4>2 DEF AtTheEnd, Decided, OrderOf
    <3> QED BY <2>1, <3>1, <3>2, Routes
  <2>3. \A v \in Users \ {u} : req'[v] = req[v]
    BY <1>8, AfterRefetch DEF OnlyBy
  <2>4. Ending(u)' => RouteNext(o).kind = "complete"
    BY <1>8, AfterRefetch, NoRequestTyped
  <2> HIDE DEF o, Ending
  <2>5. \A v \in Users : Ending(v)' => Ending(v) \/ AtTheEnd'
    <3>1. \A v \in Users \ {u} : Ending(v)' => Ending(v)
      BY <2>3 DEF Ending
    <3> QED BY <1>4, <2>2, <2>4, <3>1
  <2> QED BY <1>5, <1>8, <2>5 DEF Refetch
<1>9. ASSUME NEW u \in Users, CreateStep(u) PROVE PassedInv'
  <2>1. PICK row \in Row : row.status = "in_progress" /\ steps' = Append(steps, row)
    BY <1>9, StepCreated
  <2>2. \A r \in DOMAIN steps' : steps'[r].status \in Success =>
           r \in DOMAIN steps /\ steps[r].status \in Success
    BY <1>2, <2>1, RowAdded DEF Success
  <2>3. \A v \in Users : Ending(v)' => Ending(v)
    BY <1>9, AfterCreate, NoRequestTyped DEF OnlyBy
  <2> QED BY <1>5, <1>9, <2>2, <2>3 DEF CreateStep
<1>10. ASSUME NEW u \in Users, Close(u) PROVE PassedInv'
  <2>1. status' = "COMPLETED" => Ending(u)
    BY <1>1, <1>10 DEF Close, Prepared
  <2>2. Ending(u) => AtTheEnd'
    BY <1>4 DEF PassedInv
  <2>3. \A v \in Users : Ending(v)' => Ending(v)
    BY <1>10, AfterEnd, NoRequestTyped DEF OnlyBy
  <2> QED BY <1>5, <1>10, <2>1, <2>2, <2>3 DEF Close
<1>11. ASSUME NEW u \in Users,
              (\E decision \in Decisions : SubmitRead(u, decision)) \/ CancelRead(u)
              \/ CancelWrite(u) \/ Fail(u)
       PROVE  PassedInv'
  <2>1. \A v \in Users : Ending(v)' => Ending(v)
    BY <1>11, AfterSubmit, AfterCancelRead, AfterEnd, NoRequestTyped DEF OnlyBy
  <2>2. steps' = steps /\ (status' = status \/ status' = "CANCELLED")
    BY <1>11 DEF SubmitRead, CancelRead, CancelWrite, Fail
  <2> QED BY <1>5, <2>1, <2>2
<1>12. ASSUME NEW r \in DOMAIN steps, ScanStep(r) PROVE PassedInv'
  <2>1. \A q \in DOMAIN steps' : steps'[q].status \in Success =>
           q \in DOMAIN steps /\ steps[q].status \in Success
    <3>1. CASE steps' = steps
      BY <3>1
    <3>2. CASE steps' = [steps EXCEPT ![r].status = "escalated"]
      BY <1>2, <3>2, RowWritten DEF Success
    <3> QED BY <1>12, <3>1, <3>2 DEF ScanStep
  <2> QED BY <1>5, <1>12, <2>1 DEF ScanStep
<1>13. ASSUME NEW r \in DOMAIN steps, ScanFail(r) \/ KeyExpires(r) PROVE PassedInv'
  BY <1>5, <1>13 DEF ScanFail, KeyExpires
<1>14. CASE ScanRead \/ UNCHANGED vars
  BY <1>5, <1>14 DEF ScanRead, vars
<1> QED BY <1>6, <1>7, <1>8, <1>9, <1>10, <1>11, <1>12, <1>13, <1>14 DEF Next

\* However requests overlap, fail or are escalated, an instance is COMPLETED
\* only after somebody passed a step of the last order (submitApproval).
THEOREM CompletionCorrect == Spec => []CompletedAtTheEnd
<1>1. Inv /\ PassedInv /\ [Next]_vars => PassedInv'
  BY NextPassed
<1>2. PassedInv => CompletedAtTheEnd
  BY DEF PassedInv, AtTheEnd, CompletedAtTheEnd
<1> QED BY InitPassed, <1>1, <1>2, InvHolds, PTL DEF Spec

-----------------------------------------------------------------------------
(* One request after the other: an instance that has ended has nobody at   *)
(* work on it, but for a cancellation of a FAILED one.                     *)

Serial ==
    /\ \A u, v \in Users : ~ Idle(u) /\ ~ Idle(v) => u = v
    /\ \A u \in Users : ~ Idle(u) =>
          /\ scan = {}
          /\ status = "RUNNING" \/ (req[u].step = "cancel" /\ status = "FAILED")

SerialInv == "overlap" \notin odd => Serial

LEMMA InitSerial == Init => SerialInv
BY DEF Init, SerialInv, Serial, Idle

\* No action forgets an overlap.
LEMMA OddKept ==
  ASSUME [Next]_vars
  PROVE  odd \subseteq odd'
BY DEF Next, Instantiate, SubmitRead, Begin, Decide, Refetch, CreateStep, Close, CancelRead,
       CancelWrite, Fail, ScanRead, ScanStep, ScanFail, KeyExpires, vars

\* Without an overlap nobody was at work when a request or a scan began.
LEMMA BeginsAlone ==
  ASSUME Begin, "overlap" \notin odd'
  PROVE  scan = {} /\ \A u \in Users : Idle(u)
BY DEF Begin, Busy, Idle

\* The next statement of a request.
LEMMA SerialAtWork ==
  ASSUME Serial, NEW u \in Users, ~ Idle(u), OnlyBy(u), scan' = scan,
         Idle(u)' \/ (status = "RUNNING" /\ status' = "RUNNING")
  PROVE  Serial'
BY DEF Serial, OnlyBy, Idle

LEMMA NextSerial ==
  ASSUME Inv, SerialInv, [Next]_vars
  PROVE  SerialInv'
<1> SUFFICES ASSUME "overlap" \notin odd' PROVE Serial'
  BY DEF SerialInv
<1>1. Serial
  BY OddKept DEF SerialInv
<1>2. ASSUME NEW u \in Users, Begin, OnlyBy(u), scan' = scan,
             status' = "RUNNING" \/ (req'[u].step = "cancel" /\ status' = "FAILED")
      PROVE  Serial'
  BY <1>2, BeginsAlone DEF Serial, OnlyBy, Idle
<1>3. CASE Instantiate
  <2>1. \A u \in Users : Idle(u) /\ Idle(u)'
    BY <1>3 DEF Instantiate, Inv, Nothing, Idle
  <2> QED BY <2>1 DEF Serial
<1>4. ASSUME NEW u \in Users, NEW decision \in Decisions, SubmitRead(u, decision) PROVE Serial'
  BY <1>2, <1>4, AfterSubmit DEF SubmitRead
<1>5. ASSUME NEW u \in Users, CancelRead(u) PROVE Serial'
  BY <1>2, <1>5, AfterCancelRead DEF CancelRead
<1>6. ASSUME NEW u \in Users, Decide(u) \/ Refetch(u) \/ CreateStep(u) PROVE Serial'
  <2>1. ~ Idle(u) /\ req[u].step # "cancel"
    BY <1>6, NoRequestTyped DEF Decide, Refetch, CreateStep, Idle
  <2>2. status = "RUNNING"
    BY <1>1, <2>1 DEF Serial
  <2>3. OnlyBy(u)
    BY <1>6, AfterDecide, AfterRefetch, AfterCreate
  <2> QED BY <1>1, <1>6, <2>1, <2>2, <2>3, SerialAtWork DEF Decide, Refetch, CreateStep
<1>7. ASSUME NEW u \in Users, Close(u) \/ CancelWrite(u) \/ Fail(u) PROVE Serial'
  <2>1. ~ Idle(u)
    BY <1>7, NoRequestTyped DEF Close, CancelWrite, Fail, Idle
  <2> QED BY <1>1, <1>7, <2>1, AfterEnd, SerialAtWork DEF Close, CancelWrite, Fail, Idle
<1>8. CASE ScanRead
  <2>1. \A u \in Users : Idle(u)
    BY <1>8, BeginsAlone DEF ScanRead
  <2> QED BY <1>8, <2>1 DEF ScanRead, Serial, Idle
<1>9. ASSUME NEW r \in DOMAIN steps, ScanStep(r) \/ ScanFail(r) \/ KeyExpires(r) PROVE Serial'
  <2>1. UNCHANGED <<status, req>> /\ scan' \subseteq scan
    BY <1>9 DEF ScanStep, ScanFail, KeyExpires
  <2> QED BY <1>1, <2>1 DEF Serial, Idle
<1>10. CASE UNCHANGED vars
  BY <1>1, <1>10 DEF vars, Serial, Idle
<1> QED BY <1>3, <1>4, <1>5, <1>6, <1>7, <1>8, <1>9, <1>10 DEF Next

THEOREM OneAfterTheOther == Spec => []SerialInv
<1>1. Inv /\ SerialInv /\ [Next]_vars => SerialInv'
  BY NextSerial
<1> QED BY InitSerial, <1>1, InvHolds, PTL DEF Spec

\* While requests come one after the other an instance that has ended stays as
\* it is, but that a FAILED one may be cancelled (submitApproval,
\* cancelInstance).
THEOREM EndsForGood == Spec => EndIsFinal
<1> DEFINE Final == (status \in Ended /\ status' # status) =>
                       ("overlap" \in odd \/ (status = "FAILED" /\ status' = "CANCELLED"))
<1>1. Inv /\ SerialInv /\ [Next]_vars => [Final]_vars
  <2> SUFFICES ASSUME Inv, Serial, Next, status \in Ended, status' # status
               PROVE  status = "FAILED" /\ status' = "CANCELLED"
    BY DEF SerialInv
  <2>1. status # "RUNNING" /\ status # "none"
    BY DEF Ended
  <2>2. \E u \in Users : Close(u) \/ CancelWrite(u)
    BY <2>1 DEF Next, Instantiate, SubmitRead, Decide, Refetch, CreateStep, CancelRead, Fail,
                ScanRead, ScanStep, ScanFail, KeyExpires
  <2>3. PICK u \in Users : Close(u) \/ CancelWrite(u)
    BY <2>2
  <2>4. req[u].step = "cancel" /\ status = "FAILED"
    BY <2>1, <2>3, NoRequestTyped DEF Serial, Idle, Close, CancelWrite
  <2> QED BY <2>3, <2>4 DEF Close, CancelWrite
<1> QED BY <1>1, InvHolds, OneAfterTheOther, PTL DEF Spec, EndIsFinal

-----------------------------------------------------------------------------
(* Nobody is stuck.                                                        *)

Harmed == odd \cap {"failure", "overdue"} # {}

StuckInv ==
    /\ StuckOnlyIf
    /\ flagged # {} => Harmed

LEMMA InitStuck == Init => StuckInv
BY DEF Init, StuckInv, StuckOnlyIf

LEMMA NextStuck ==
  ASSUME Inv, StuckInv, [Next]_vars
  PROVE  StuckInv'
<1>1. Harmed => Harmed'
  BY OddKept DEF Harmed
<1>2. \A u \in Users : req[u] \in Request /\ Prepared(req[u])
  BY DEF Inv, TypeOK
<1>3. Harmed' => StuckInv'
  BY DEF StuckInv, StuckOnlyIf, Harmed
<1>4. ASSUME UNCHANGED flagged,
             status' # "RUNNING" \/ Active' # {} \/ \E u \in Users : req'[u] # NoRequest
      PROVE  StuckInv'
  BY <1>1, <1>4 DEF StuckInv, StuckOnlyIf
<1>5. CASE Instantiate
  <2>1. Active' # {}
    BY <1>5, FirstRows DEF Active
  <2> QED BY <1>4, <1>5, <2>1 DEF Instantiate
<1>6. ASSUME NEW u \in Users, NEW decision \in Decisions, SubmitRead(u, decision) PROVE StuckInv'
  BY <1>4, <1>6, AfterSubmit, NoRequestTyped DEF SubmitRead
<1>7. ASSUME NEW u \in Users, CancelRead(u) PROVE StuckInv'
  BY <1>4, <1>7, AfterCancelRead, NoRequestTyped DEF CancelRead
<1>8. ASSUME NEW u \in Users, Decide(u) PROVE StuckInv'
  BY <1>4, <1>8, AfterDecide, NoRequestTyped DEF Decide
<1>9. ASSUME NEW u \in Users, Refetch(u) PROVE StuckInv'
  <2> DEFINE o == OrderOf(req[u].row)
  <2>1. CASE req'[u] # NoRequest
    BY <1>4, <1>9, <2>1 DEF Refetch
  <2>2. CASE req'[u] = NoRequest
    <3>1. RouteNext(o).kind = "wait" /\ o \in Nat
      BY <1>9, <2>2, AfterRefetch, DecidedRow, NoRequestTyped
    <3>2. "rejected" \notin Branch(o) /\ "escalated" \notin Branch(o) /\ ~ (Branch(o) \subseteq Success)
      BY <3>1, Routes
    <3>3. PICK r \in DOMAIN steps : steps[r].status \notin Success /\ steps[r].status \in Branch(o)
      BY <3>2 DEF Branch
    <3>4. steps[r].status = "in_progress"
      BY <3>2, <3>3, RowTypes DEF Row, Inv
    <3>5. Active' # {}
      BY <1>9, <3>4 DEF Refetch, Active
    <3> QED BY <1>4, <1>9, <3>5 DEF Refetch
  <2> QED BY <2>1, <2>2
<1>10. ASSUME NEW u \in Users, CreateStep(u) PROVE StuckInv'
  <2>1. PICK row \in Row : row.status = "in_progress" /\ steps' = Append(steps, row)
    BY <1>10, AfterCreate
  <2>2. Active' # {}
    BY <2>1, RowAdded DEF Active, Inv
  <2> QED BY <1>4, <1>10, <2>2 DEF CreateStep
<1>11. ASSUME NEW u \in Users, Close(u) PROVE StuckInv'
  <2>1. req[u].route \in {"complete", "reject", "escalate"}
    BY <1>2, <1>11 DEF Close, Prepared
  <2>2. status' # "RUNNING"
    BY <1>11, <2>1 DEF Close
  <2> QED BY <1>4, <1>11, <2>2 DEF Close
<1>12. ASSUME NEW u \in Users, CancelWrite(u) PROVE StuckInv'
  BY <1>4, <1>12 DEF CancelWrite
<1>13. ASSUME NEW u \in Users, Fail(u) PROVE StuckInv'
  BY <1>3, <1>13 DEF Fail, Harmed
<1>14. CASE ScanRead \/ UNCHANGED vars
  BY <1>14 DEF ScanRead, vars, StuckInv, StuckOnlyIf, Active, Harmed, Begin
<1>15. ASSUME NEW r \in DOMAIN steps, ScanStep(r) \/ ScanFail(r) PROVE StuckInv'
  <2>1. CASE r \in flagged
    BY <1>1, <1>3, <2>1 DEF StuckInv
  <2>2. CASE r \notin flagged
    BY <1>3, <1>15, <2>2 DEF ScanStep, ScanFail, Harmed
  <2> QED BY <2>1, <2>2
<1>16. ASSUME NEW r \in DOMAIN steps, KeyExpires(r) PROVE StuckInv'
  BY <1>1, <1>3, <1>16 DEF KeyExpires, StuckInv
<1> QED BY <1>5, <1>6, <1>7, <1>8, <1>9, <1>10, <1>11, <1>12, <1>13, <1>14, <1>15, <1>16 DEF Next

\* However decisions overlap, a running instance that no request is working on
\* has a step to decide on, unless a request died half way or the cron
\* escalated a step (submitApproval, checkOverdueSteps).
THEOREM NobodyStuck == Spec => []StuckOnlyIf
<1>1. Inv /\ StuckInv /\ [Next]_vars => StuckInv'
  BY NextStuck
<1>2. StuckInv => StuckOnlyIf
  BY DEF StuckInv
<1> QED BY InitStuck, <1>1, <1>2, InvHolds, PTL DEF Spec

-----------------------------------------------------------------------------
(* The branches, one after the other.                                      *)

Plain == odd = {} /\ \A a \in approvals : a.decision # "escalate"

HasRow(i) == \E r \in DOMAIN steps : steps[r].step = i

AllPassed ==
    /\ \A i \in DOMAIN Definition : HasRow(i)
    /\ \A r \in DOMAIN steps : steps[r].status \in Success

\* The branches before order o are passed, those after it are not begun.
Reached(o) ==
    /\ \A r \in DOMAIN steps : OrderOf(r) <= o
    /\ \A r \in DOMAIN steps : OrderOf(r) < o => steps[r].status \in Success
    /\ \A i \in DOMAIN Definition : Order(i) < o => HasRow(i)

Open == Success \cup {"in_progress"}

Waiting(o) ==
    /\ \A i \in StepsAt(o) : HasRow(i)
    /\ \A r \in DOMAIN steps : steps[r].status \in Open
    /\ Active # {}
    /\ \A u \in Users : ~ Idle(u) =>
          \/ req[u].step = "cancel"
          \/ req[u].step = "decide" /\ req[u].row \in Active

Routing(o, u) ==
    /\ req[u].step = "refetch"
    /\ \A i \in StepsAt(o) : HasRow(i)
    /\ OrderOf(req[u].row) = o
    /\ steps[req[u].row].status \in Success \cup {"rejected"}
    /\ \A r \in DOMAIN steps : r # req[u].row => steps[r].status \in Open

Creating(o, u) ==
    /\ req[u].step = "create"
    /\ req[u].todo \subseteq StepsAt(o)
    /\ \A i \in StepsAt(o) \ req[u].todo : HasRow(i)
    /\ \A r \in DOMAIN steps : steps[r].status \in Open

Closing(u) ==
    /\ req[u].step = "close"
    /\ req[u].route = "reject" \/ (req[u].route = "complete" /\ AllPassed)

Underway ==
    \/ \E u \in Users : Closing(u)
    \/ \E o \in Orders :
          /\ Reached(o)
          /\ Waiting(o) \/ \E u \in Users : Routing(o, u) \/ Creating(o, u)

AsDecided == \A a \in approvals : steps[a.row].status = Outcome[a.decision]

BranchInv ==
    Plain =>
        /\ AsDecided
        /\ status = "COMPLETED" => AllPassed
        /\ status = "RUNNING" => Underway

LEMMA InitBranch == Init => BranchInv
BY DEF Init, BranchInv, AsDecided

\* A branch with nobody at work on its steps waits for a decision.
LEMMA WaitsAlone ==
  ASSUME Inv, Underway, \A u \in Users : req[u].step \in {"idle", "decide", "cancel"}
  PROVE  \E o \in Orders : Reached(o) /\ Waiting(o)
BY DEF Underway, Closing, Routing, Creating

LEMMA InstantiateBranch ==
  ASSUME Inv, Instantiate
  PROVE  AsDecided' /\ Underway'
<1> DEFINE o == First(Orders)
<1>1. /\ o \in Orders /\ \A p \in Orders : o <= p
      /\ DOMAIN steps' # {}
      /\ \A r \in DOMAIN steps' : steps'[r].status = "in_progress" /\ steps'[r].step \in StepsAt(o)
      /\ \A i \in StepsAt(o) : \E r \in DOMAIN steps' : steps'[r].step = i
  BY FirstRows
<1> HIDE DEF o
<1>2. approvals' = {} /\ \A u \in Users : Idle(u)'
  BY DEF Instantiate, Inv, Nothing, Idle
<1>3. \A r \in DOMAIN steps' : OrderOf(r)' = o
  BY <1>1 DEF OrderOf, Order, StepsAt
<1>4. o \in Nat /\ \A i \in DOMAIN Definition : Order(i) \in Nat /\ o <= Order(i)
  BY <1>1, Listed DEF Orders
<1>5. Reached(o)'
  BY <1>3, <1>4 DEF Reached, Order
<1>6. Waiting(o)'
  BY <1>1, <1>2 DEF Waiting, HasRow, Open, Active, StepsAt, Order
<1>7. AsDecided'
  BY <1>2 DEF AsDecided
<1> QED BY <1>1, <1>5, <1>6, <1>7 DEF Underway

LEMMA DecideBranch ==
  ASSUME Inv, Serial, AsDecided, Underway, NEW u \in Users, Decide(u), Plain'
  PROVE  AsDecided' /\ Underway'
<1>0. req[u].step = "decide" /\ req[u].row \in DOMAIN steps /\ req[u].decision \in Decisions
  BY DEF Decide, Inv, Prepared
<1>1. PICK r \in DOMAIN steps, d \in Decisions :
         req[u].step = "decide" /\ req[u].row = r /\ req[u].decision = d
  BY <1>0
<1>2. d # "escalate" /\ approvals' = approvals \cup {[row |-> r, decision |-> d]}
  <2>1. approvals' = approvals \cup {[row |-> r, decision |-> d]}
    BY <1>1 DEF Decide
  <2>2. PICK a \in approvals' : a = [row |-> r, decision |-> d]
    BY <2>1
  <2>3. a.decision = d
    BY <2>2
  <2> QED BY <2>1, <2>3 DEF Plain
<1>3. Outcome[d] \in Success \cup {"rejected"}
  BY <1>1, <1>2 DEF Outcome, Success, Decisions
<1>4. /\ DOMAIN steps' = DOMAIN steps
      /\ steps'[r].status = Outcome[d] /\ steps'[r].step = steps[r].step
      /\ \A q \in DOMAIN steps \ {r} : steps'[q] = steps[q]
  BY <1>1, <1>3, RowWritten DEF Decide, Inv
<1>5. \A v \in Users \ {u} : Idle(v)
  BY <1>1, NoRequestTyped DEF Serial, Idle
<1>6. PICK o \in Orders : Reached(o) /\ Waiting(o)
  BY <1>1, <1>5, WaitsAlone, NoRequestTyped DEF Idle
<1>7. r \in Active
  BY <1>1, <1>6, NoRequestTyped DEF Waiting, Idle
<1>8. AsDecided'
  <2>1. ASSUME NEW a \in approvals PROVE steps'[a.row].status = Outcome[a.decision]
    <3>1. a.row \in DOMAIN steps /\ a.decision \in Decisions
      BY DEF Inv, TypeOK
    <3>2. steps[a.row].status = Outcome[a.decision]
      BY DEF AsDecided
    <3>3. a.row # r
      BY <1>7, <3>1, <3>2 DEF Active, Outcome, Decisions
    <3> QED BY <1>4, <3>1, <3>2, <3>3
  <2>2. steps'[r].status = Outcome[d]
    BY <1>4
  <2> QED BY <1>2, <2>1, <2>2 DEF AsDecided
<1>9. OrderOf(r) = o
  <2>1. steps[r].status \notin Success
    BY <1>7 DEF Active, Success
  <2>2. OrderOf(r) <= o /\ ~ (OrderOf(r) < o)
    BY <1>1, <1>6, <2>1 DEF Reached
  <2>3. OrderOf(r) \in Nat /\ o \in Nat
    BY <1>1, RowTypes, Listed DEF Inv
  <2> QED BY <2>2, <2>3
<1>10. req'[u].step = "refetch" /\ req'[u].row = r
  BY <1>1, AfterDecide
<1>11. \A q \in DOMAIN steps : OrderOf(q)' = OrderOf(q)
  BY <1>4 DEF OrderOf, Order
<1>12. \A i : HasRow(i)' <=> HasRow(i)
  BY <1>4 DEF HasRow
<1>13. Reached(o)'
  <2>1. \A q \in DOMAIN steps : OrderOf(q) < o => q # r
    BY <1>6, <1>7 DEF Reached, Active, Success
  <2> QED BY <1>4, <1>6, <1>11, <1>12, <2>1 DEF Reached, Order
<1>14. Routing(o, u)'
  <2>1. \A q \in DOMAIN steps' : q # r => steps'[q].status \in Open
    BY <1>4, <1>6 DEF Waiting
  <2>2. OrderOf(r)' = o
    BY <1>1, <1>9, <1>11
  <2>3. \A i \in StepsAt(o) : HasRow(i)'
    BY <1>6, <1>12 DEF Waiting
  <2>4. OrderOf(req[u].row)' = o
    BY <1>10, <2>2 DEF OrderOf
  <2> QED BY <1>3, <1>4, <1>10, <2>1, <2>3, <2>4 DEF Routing, StepsAt, Order
<1> QED BY <1>8, <1>13, <1>14 DEF Underway

LEMMA RefetchBranch ==
  ASSUME Inv, Serial, Underway, NEW u \in Users, Refetch(u)
  PROVE  Underway'
<1>1. req[u].step = "refetch" /\ ~ Idle(u) /\ UNCHANGED <<status, steps>>
  BY NoRequestTyped DEF Refetch, Idle
<1>2. status = "RUNNING" /\ \A v \in Users \ {u} : Idle(v)
  BY <1>1 DEF Serial
<1>3. PICK o \in Orders : Reached(o) /\ Routing(o, u)
  BY <1>1, <1>2, NoRequestTyped DEF Underway, Closing, Routing, Creating, Waiting, Idle
<1>4. o \in Nat /\ OrderOf(req[u].row) = o /\ req[u].row \in DOMAIN steps
  BY <1>3, DecidedRow DEF Routing
<1> DEFINE route == RouteNext(o)
<1>5. /\ OnlyBy(u)
      /\ \/ route.kind = "wait" /\ req'[u] = NoRequest
         \/ /\ req'[u].step = "create" /\ req'[u].todo # {}
            /\ route.kind = "advance" => req'[u].todo = StepsAt(route.order)
            /\ route.kind \in {"advance", "escalate"}
         \/ /\ req'[u].step = "close" /\ req'[u].route = route.kind
            /\ route.kind \in {"complete", "reject", "escalate"}
  BY <1>4, AfterRefetch
<1>6. /\ route.kind = "complete" => Branch(o) \subseteq Success /\ Later(o) = {}
      /\ route.kind = "escalate" => "escalated" \in Branch(o)
      /\ route.kind = "wait" => "rejected" \notin Branch(o) /\ ~ (Branch(o) \subseteq Success)
      /\ route.kind = "advance" =>
           /\ Branch(o) \subseteq Success
           /\ route.order \in Later(o) /\ \A p \in Later(o) : route.order <= p
  BY <1>2, <1>4, Routes DEF Ended
<1> HIDE DEF route
<1>7. \A r \in DOMAIN steps : OrderOf(r) \in Nat /\ OrderOf(r) <= o
  BY <1>3, RowTypes, Listed DEF Inv, Reached
<1>8. \A r \in DOMAIN steps : OrderOf(r) = o => steps[r].status \in Branch(o)
  BY DEF Branch, OrderOf
<1>9. Branch(o) \subseteq Success => \A r \in DOMAIN steps : steps[r].status \in Success
  BY <1>3, <1>4, <1>7, <1>8 DEF Reached
<1>10. \A i \in DOMAIN Definition : Order(i) \in Nat /\ Order(i) \in Orders /\ (Order(i) <= o => HasRow(i))
  <2>1. \A i \in DOMAIN Definition : Order(i) \in Nat /\ Order(i) \in Orders
    BY Listed DEF Orders
  <2>2. \A i \in DOMAIN Definition : Order(i) = o => HasRow(i)
    BY <1>3 DEF Routing, StepsAt
  <2> QED BY <1>3, <1>4, <2>1, <2>2 DEF Reached
<1>11. "escalated" \notin Branch(o)
  <2>1. \A r \in DOMAIN steps : steps[r].status # "escalated"
    BY <1>3, <1>4 DEF Routing, Open, Success
  <2> QED BY <2>1 DEF Branch
<1>12. \A v \in Users \ {u} : Idle(v)'
  BY <1>2, <1>5 DEF OnlyBy, Idle
<1>13. CASE route.kind = "wait"
  <2>1. req'[u] = NoRequest
    BY <1>5, <1>13
  <2>2. \A r \in DOMAIN steps : steps[r].status \in Open
    <3>1. steps[req[u].row].status \in Open
      BY <1>3, <1>4, <1>6, <1>8, <1>13 DEF Routing, Open
    <3> QED BY <1>3, <3>1 DEF Routing
  <2>3. Active # {}
    <3>1. PICK r \in DOMAIN steps : steps[r].status \notin Success
      BY <1>6, <1>13 DEF Branch
    <3> QED BY <2>2, <3>1 DEF Active, Open
  <2>4. Waiting(o)' /\ Reached(o)'
    BY <1>1, <1>3, <1>12, <2>1, <2>2, <2>3
       DEF Waiting, Routing, Reached, Active, HasRow, OrderOf, Order, StepsAt, Idle
  <2> QED BY <2>4 DEF Underway
<1>14. CASE route.kind = "advance"
  <2>1. req'[u].step = "create" /\ req'[u].todo = StepsAt(route.order)
    BY <1>5, <1>14, NoRequestTyped
  <2>2. PICK p \in Orders : p = route.order /\ p > o /\ \A n \in Later(o) : p <= n
    BY <1>6, <1>14 DEF Later
  <2>3. p \in Nat
    BY Listed
  <2>4. \A r \in DOMAIN steps : steps[r].status \in Success /\ OrderOf(r) <= p
    BY <1>4, <1>6, <1>7, <1>9, <1>14, <2>2, <2>3
  <2>5. \A i \in DOMAIN Definition : Order(i) < p => HasRow(i)
    BY <1>4, <1>10, <2>2, <2>3 DEF Later
  <2>6. Reached(p)'
    BY <1>1, <2>4, <2>5 DEF Reached, HasRow, OrderOf, Order
  <2>7. Creating(p, u)'
    BY <1>1, <2>1, <2>2, <2>4 DEF Creating, HasRow, Open, StepsAt, Order
  <2> QED BY <2>6, <2>7 DEF Underway
<1>15. CASE route.kind = "complete"
  <2>1. req'[u].step = "close" /\ req'[u].route = "complete"
    BY <1>5, <1>15, NoRequestTyped
  <2>2. \A i \in DOMAIN Definition : HasRow(i)
    BY <1>4, <1>6, <1>10, <1>15 DEF Later
  <2>3. AllPassed'
    BY <1>1, <1>6, <1>9, <1>15, <2>2 DEF AllPassed, HasRow
  <2> QED BY <2>1, <2>3 DEF Underway, Closing
<1>16. CASE route.kind = "reject"
  BY <1>5, <1>16, NoRequestTyped DEF Underway, Closing
<1> QED BY <1>5, <1>6, <1>11, <1>13, <1>14, <1>15, <1>16

LEMMA CreateBranch ==
  ASSUME Inv, Serial, AsDecided, Underway, NEW u \in Users, CreateStep(u)
  PROVE  AsDecided' /\ Underway'
<1>1. req[u].step = "create" /\ ~ Idle(u) /\ UNCHANGED approvals
  BY NoRequestTyped DEF CreateStep, Idle
<1>2. \A v \in Users \ {u} : Idle(v)
  BY <1>1 DEF Serial
<1>3. PICK o \in Orders : Reached(o) /\ Creating(o, u)
  BY <1>1, <1>2, NoRequestTyped DEF Underway, Closing, Routing, Creating, Waiting, Idle
<1>4. PICK row \in Row, i \in req[u].todo :
         /\ row.step = i /\ row.status = "in_progress"
         /\ steps' = Append(steps, row)
         /\ \/ req[u].todo = {i} /\ req'[u] = NoRequest
            \/ req'[u].step = "create" /\ req'[u].todo = req[u].todo \ {i}
  BY AfterCreate
<1>5. PICK n : n = Len(steps) + 1
  OBVIOUS
<1>6. /\ n \notin DOMAIN steps /\ DOMAIN steps' = DOMAIN steps \cup {n}
      /\ steps'[n].step = i /\ steps'[n].status = "in_progress"
      /\ \A r \in DOMAIN steps : steps'[r] = steps[r]
  BY <1>4, <1>5, RowAdded DEF Inv
<1>7. i \in StepsAt(o) /\ Order(i) = o
  BY <1>3, <1>4 DEF Creating, StepsAt
<1>8. /\ \A j : HasRow(j) => HasRow(j)'
      /\ HasRow(i)'
  BY <1>6 DEF HasRow
<1>9. AsDecided'
  <2>1. \A a \in approvals : a.row \in DOMAIN steps
    BY DEF Inv, TypeOK
  <2> QED BY <1>1, <1>6, <2>1 DEF AsDecided
<1>10. /\ \A r \in DOMAIN steps : OrderOf(r)' = OrderOf(r)
       /\ OrderOf(n)' = o
  BY <1>6, <1>7 DEF OrderOf, Order
<1>11. o \in Nat
  BY Listed
<1>12. Reached(o)'
  BY <1>3, <1>6, <1>8, <1>10, <1>11 DEF Reached, Order
<1>13. \A r \in DOMAIN steps' : steps'[r].status \in Open
  BY <1>3, <1>6 DEF Creating, Open
<1>14. \A j \in StepsAt(o) : j \notin req[u].todo \ {i} => HasRow(j)'
  BY <1>3, <1>8 DEF Creating
<1>15. \A v \in Users \ {u} : Idle(v)'
  BY <1>2, AfterCreate DEF OnlyBy, Idle
<1>16. CASE req[u].todo = {i} /\ req'[u] = NoRequest
  <2>1. Active' # {}
    BY <1>6 DEF Active
  <2>2. Waiting(o)'
    BY <1>13, <1>14, <1>15, <1>16, <2>1 DEF Waiting, Idle, StepsAt, Order
  <2> QED BY <1>9, <1>12, <2>2 DEF Underway
<1>17. CASE req'[u].step = "create" /\ req'[u].todo = req[u].todo \ {i}
  <2>1. Creating(o, u)'
    BY <1>3, <1>13, <1>14, <1>17 DEF Creating, StepsAt, Order
  <2> QED BY <1>9, <1>12, <2>1 DEF Underway
<1> QED BY <1>4, <1>16, <1>17

\* What a request that only writes its own row leaves of a waiting branch.
LEMMA StillWaiting ==
  ASSUME Inv, Underway, NEW u \in Users, OnlyBy(u), \A v \in Users : Idle(v), UNCHANGED steps,
         req'[u].step = "cancel" \/ (req'[u].step = "decide" /\ req'[u].row \in Active)
  PROVE  Underway'
<1>1. PICK o \in Orders : Reached(o) /\ Waiting(o)
  BY WaitsAlone, NoRequestTyped DEF Idle
<1>2. Reached(o)' /\ Waiting(o)'
  BY <1>1 DEF Reached, Waiting, OnlyBy, Active, HasRow, OrderOf, Order, StepsAt, Idle
<1> QED BY <1>2 DEF Underway

LEMMA NextBranch ==
  ASSUME Inv, SerialInv, StuckInv, BranchInv, [Next]_vars
  PROVE  BranchInv'
<1> SUFFICES ASSUME Plain'
             PROVE  /\ AsDecided' /\ (status' = "COMPLETED" => AllPassed')
                    /\ status' = "RUNNING" => Underway'
  BY DEF BranchInv
<1>1. approvals \subseteq approvals'
  <2>1. UNCHANGED approvals \/ \E u \in Users : Decide(u)
    BY DEF Next, Instantiate, SubmitRead, Refetch, CreateStep, Close, CancelRead, CancelWrite,
           Fail, ScanRead, ScanStep, ScanFail, KeyExpires, vars
  <2> QED BY <2>1 DEF Decide
<1>2. Plain /\ odd' = {}
  BY <1>1, OddKept DEF Plain
<1>3. Serial /\ flagged = {}
  BY <1>2 DEF Plain, SerialInv, StuckInv, Harmed
<1>4. /\ AsDecided /\ (status = "COMPLETED" => AllPassed)
      /\ status = "RUNNING" => Underway
  BY <1>2 DEF BranchInv
<1>5. UNCHANGED <<approvals, steps>> => AsDecided' /\ (AllPassed => AllPassed')
  BY <1>4 DEF AsDecided, AllPassed, HasRow
<1>6. ASSUME Begin PROVE \A u \in Users : Idle(u)
  BY <1>2, <1>6, BeginsAlone
<1>7. CASE Instantiate
  BY <1>7, InstantiateBranch DEF Instantiate
<1>8. ASSUME NEW u \in Users, NEW decision \in Decisions, SubmitRead(u, decision)
      PROVE  AsDecided' /\ status' = "RUNNING" /\ Underway'
  BY <1>4, <1>5, <1>6, <1>8, AfterSubmit, StillWaiting DEF SubmitRead
<1>9. ASSUME NEW u \in Users, CancelRead(u)
      PROVE  AsDecided' /\ status' # "COMPLETED" /\ (status' = "RUNNING" => Underway')
  BY <1>4, <1>5, <1>6, <1>9, AfterCancelRead, StillWaiting DEF CancelRead
<1>10. ASSUME NEW u \in Users, Decide(u) \/ Refetch(u) \/ CreateStep(u)
       PROVE  AsDecided' /\ status' = "RUNNING" /\ Underway'
  <2>1. status = "RUNNING" /\ status' = status
    BY <1>3, <1>10, NoRequestTyped DEF Serial, Idle, Decide, Refetch, CreateStep
  <2>2. AsDecided' /\ Underway'
    BY <1>3, <1>4, <1>5, <1>10, <2>1, DecideBranch, RefetchBranch, CreateBranch DEF Refetch
  <2> QED BY <2>1, <2>2
<1>11. ASSUME NEW u \in Users, Close(u)
       PROVE  AsDecided' /\ status' # "RUNNING" /\ (status' = "COMPLETED" => AllPassed')
  <2>1. status = "RUNNING" /\ \A v \in Users \ {u} : Idle(v)
    BY <1>3, <1>11, NoRequestTyped DEF Serial, Idle, Close
  <2>2. Closing(u)
    BY <1>4, <1>11, <2>1, NoRequestTyped
       DEF Underway, Closing, Routing, Creating, Waiting, Idle, Close
  <2>3. CASE req[u].route = "reject"
    BY <1>5, <1>11, <2>3 DEF Close
  <2>4. CASE req[u].route = "complete" /\ AllPassed
    BY <1>5, <1>11, <2>4 DEF Close
  <2> QED BY <2>2, <2>3, <2>4 DEF Closing
<1>12. ASSUME NEW u \in Users, CancelWrite(u) PROVE AsDecided' /\ status' = "CANCELLED"
  BY <1>5, <1>12 DEF CancelWrite
<1>13. ASSUME NEW u \in Users, Fail(u) PROVE FALSE
  BY <1>2, <1>13 DEF Fail
<1>14. ASSUME NEW r \in DOMAIN steps, ScanStep(r) \/ ScanFail(r) \/ KeyExpires(r) PROVE FALSE
  BY <1>2, <1>3, <1>14 DEF ScanStep, ScanFail, KeyExpires
<1>15. CASE ScanRead \/ UNCHANGED vars
  <2>1. UNCHANGED <<status, steps, approvals, req>>
    BY <1>15 DEF ScanRead, vars
  <2> QED BY <1>4, <1>5, <2>1 DEF Underway, Closing, Reached, Waiting, Routing, Creating,
                                  AllPassed, HasRow, Active, OrderOf, Order, StepsAt, Idle
<1> QED BY <1>7, <1>8, <1>9, <1>10, <1>11, <1>12, <1>13, <1>14, <1>15 DEF Next

\* While requests come one after the other and none fails, an instance that
\* nobody escalated is COMPLETED only when every step of every parallel branch
\* was passed and none rejected (submitApproval, routeNext).
THEOREM BranchesPassed == Spec => []EveryBranchPassed
<1>1. Inv /\ SerialInv /\ StuckInv /\ BranchInv /\ [Next]_vars => BranchInv'
  BY NextBranch
<1>2. Inv /\ PassedInv /\ BranchInv => EveryBranchPassed
  <2> SUFFICES ASSUME Inv, PassedInv, AllPassed, AsDecided, NEW i \in DOMAIN Definition
               PROVE  Decided(i, Passing) /\ ~ Decided(i, {"reject"})
    BY DEF BranchInv, Plain, EveryBranchPassed
  <2>1. Decided(i, Passing)
    <3>1. PICK r \in DOMAIN steps : steps[r].step = i /\ steps[r].status \in Success
      BY DEF AllPassed, HasRow
    <3> QED BY <3>1 DEF PassedInv, Decided
  <2>2. ASSUME NEW a \in approvals, a.decision = "reject" PROVE FALSE
    <3>1. a.row \in DOMAIN steps /\ steps[a.row].status = "rejected"
      BY <2>2 DEF Inv, TypeOK, AsDecided, Outcome
    <3> QED BY <3>1 DEF AllPassed, Success
  <2> QED BY <2>1, <2>2 DEF Decided
<1>3. Spec => []PassedInv
  <2>1. Inv /\ PassedInv /\ [Next]_vars => PassedInv'
    BY NextPassed
  <2> QED BY InitPassed, <2>1, InvHolds, PTL DEF Spec
<1>4. Spec => []StuckInv
  <2>1. Inv /\ StuckInv /\ [Next]_vars => StuckInv'
    BY NextStuck
  <2> QED BY InitStuck, <2>1, InvHolds, PTL DEF Spec
<1>5. Spec => []BranchInv
  BY InitBranch, <1>1, <1>4, InvHolds, OneAfterTheOther, PTL DEF Spec
<1> QED BY <1>2, <1>3, <1>5, InvHolds, PTL

=============================================================================
