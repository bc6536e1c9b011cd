-------------------------- MODULE WorkflowDefinition --------------------------
(***************************************************************************)
(* The life of one workflow definition: WorkflowService.createDefinition,  *)
(* updateDefinition and publishDefinition.  An update or a publication     *)
(* reads the row, checks it, and writes it back in a later statement.  The *)
(* steps of the definition are told apart by their edition: a number that  *)
(* every new list of steps increases.                                      *)
(***************************************************************************)
EXTENDS Naturals

CONSTANTS
    Editors,   \* requests that may edit or publish at the same time
    MaxEdits   \* bound: editions of the steps

ASSUME EditAssumption == MaxEdits \in Nat

VARIABLES
    def,      \* the workflow_definitions row; edition 0 while there is none
    edit,     \* edit[e]: a request between its read and its write
    edition,  \* the newest edition written by a client
    reviewed, \* the editions a human marked as reviewed
    overlap   \* a request began while another one was under way

defVars == <<def, edit, edition, reviewed, overlap>>

NoDefinition == [status |-> "none", isAiDraft |-> FALSE, humanReviewed |-> FALSE, edition |-> 0]
NoEdit       == [step |-> "idle", read |-> NoDefinition]

DefInit ==
    /\ def = NoDefinition
    /\ edit = [e \in Editors |-> NoEdit]
    /\ edition = 0
    /\ reviewed = {}
    /\ overlap = FALSE

Create(isAiDraft) ==
    /\ def.status = "none"
    /\ edition < MaxEdits
    /\ edition' = edition + 1
    /\ def' = [status |-> "DRAFT", isAiDraft |-> isAiDraft, humanReviewed |-> FALSE,
               edition |-> edition + 1]
    /\ UNCHANGED <<edit, reviewed, overlap>>

Read(e, step) ==
    /\ edit[e] = NoEdit
    /\ def.status = "DRAFT"
    /\ edit' = [edit EXCEPT ![e] = [step |-> step, read |-> def]]
    /\ overlap' = (overlap \/ \E f \in Editors : edit[f] # NoEdit)
    /\ UNCHANGED <<def, edition, reviewed>>

UpdateRead(e) == Read(e, "update")

\* Faulty: the mark of the review survives a change of the steps.
WriteStepsMarked(e) ==
    /\ edit[e].step = "update"
    /\ edition < MaxEdits
    /\ edition' = edition + 1
    /\ def' = [def EXCEPT !.edition = edition + 1,
                          !.humanReviewed = edit[e].read.humanReviewed]
    /\ edit' = [edit EXCEPT ![e] = NoEdit]
    /\ UNCHANGED <<reviewed, overlap>>

\* New steps replace definitionJson, the __meta of an earlier review with it.
WriteSteps(e) ==
    /\ edit[e].step = "update"
    /\ edition < MaxEdits
    /\ edition' = edition + 1
    /\ def' = [def EXCEPT !.edition = edition + 1, !.humanReviewed = FALSE]
    /\ edit' = [edit EXCEPT ![e] = NoEdit]
    /\ UNCHANGED <<reviewed, overlap>>

\* The mark is put on definitionJson as it was read, which is then written back
\* whole.  Steps that come with the mark in one request are dropped.
WriteReview(e, humanReviewed) ==
    /\ edit[e].step = "update"
    /\ def' = [def EXCEPT !.edition = edit[e].read.edition, !.humanReviewed = humanReviewed]
    /\ reviewed' = reviewed \cup {n \in {edit[e].read.edition} : humanReviewed}
    /\ edit' = [edit EXCEPT ![e] = NoEdit]
    /\ UNCHANGED <<edition, overlap>>

\* An AI draft is refused here until it is reviewed.
PublishRead(e) ==
    /\ def.isAiDraft => def.humanReviewed
    /\ Read(e, "publish")

Publish(e) ==
    /\ edit[e].step = "publish"
    /\ def' = [def EXCEPT !.status = "PUBLISHED"]
    /\ edit' = [edit EXCEPT ![e] = NoEdit]
    /\ UNCHANGED <<edition, reviewed, overlap>>

DefNext ==
    \/ \E isAiDraft \in BOOLEAN : Create(isAiDraft)
    \/ \E e \in Editors :
          \/ UpdateRead(e)
          \/ WriteSteps(e)
          \/ \E humanReviewed \in BOOLEAN : WriteReview(e, humanReviewed)
          \/ PublishRead(e)
          \/ Publish(e)

DefSpec == DefInit /\ [][DefNext]_defVars

\* Every variable has its type.
DefTypeOK ==
    /\ def \in [status : {"none", "DRAFT", "PUBLISHED"}, isAiDraft : BOOLEAN,
                humanReviewed : BOOLEAN, edition : 0 .. MaxEdits]
    /\ edit \in [Editors -> [step : {"idle", "update", "publish"},
                             read : [status : {"none", "DRAFT"}, isAiDraft : BOOLEAN,
                                     humanReviewed : BOOLEAN, edition : 0 .. MaxEdits]]]
    /\ edition \in 0 .. MaxEdits
    /\ reviewed \subseteq 1 .. MaxEdits
    /\ overlap \in BOOLEAN

\* However updates overlap, a mark of review is on steps that a human did mark:
\* updateDefinition writes the steps and the mark as one value, so that a
\* request that comes late brings back both or neither.
MarkIsForItsSteps == def.humanReviewed => def.edition \in reviewed

\* Steps an AI drafted are published only in an edition a human has marked as
\* reviewed: an edit after the review calls for another one.  It holds while
\* no requests overlap: publishDefinition checks the row it read, and an update
\* may replace the steps before, or even after, it writes the status.
PublishedAsReviewed ==
    def.status = "PUBLISHED" /\ def.isAiDraft /\ ~ overlap => def.edition \in reviewed

=============================================================================
