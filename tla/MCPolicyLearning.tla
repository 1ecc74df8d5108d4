-------------------------- MODULE MCPolicyLearning --------------------------
(* Small instances of PolicyLearning for TLC.                              *)
EXTENDS PolicyLearning

CONSTANTS d1, d2, w1, w2, alice, bob, coding, batch, model

Call(id, caller, context, success, rateLimited) ==
    [id |-> id, caller |-> caller, context |-> context, model |-> model,
     success |-> success, rateLimited |-> rateLimited]
Workflow(id, caller, context, served, success, quality, calls, missed) ==
    [id |-> id, caller |-> caller, context |-> context, type |-> "type", model |-> served,
     success |-> success, quality |-> quality, calls |-> calls, missed |-> missed]

(* Two callers, two contexts of one workflow type, one model.  A workflow  *)
(* that missed its deadline may never have made a call.                    *)
MCCallOutcomes ==
    {Call(d1, alice, coding, TRUE, FALSE), Call(d1, bob, coding, FALSE, TRUE),
     Call(d2, alice, batch, FALSE, FALSE)}
MCWorkflowOutcomes ==
    {Workflow(w1, alice, coding, model, TRUE, 3, 2, FALSE),
     Workflow(w1, alice, coding, model, FALSE, NoQuality, 1, TRUE),
     Workflow(w2, bob, batch, NoModel, FALSE, NoQuality, 0, TRUE)}
=============================================================================
