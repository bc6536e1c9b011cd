------------------------------ MODULE MCWorkflow ------------------------------
(* One step, then two in parallel; an escalation of the first goes to the   *)
(* second order, one of the second has nowhere to go.                      *)
EXTENDS Workflow

CONSTANTS u1, u2

StepOf(o, escalation, assignee, due) ==
    [order |-> o, escalation |-> escalation, assignee |-> assignee, due |-> due]

LateBranch ==
    <<StepOf(1, FALSE, u1, FALSE), StepOf(2, FALSE, u2, TRUE), StepOf(2, TRUE, None, FALSE)>>

=============================================================================
