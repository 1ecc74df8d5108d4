----------------------- MODULE MCWorkflowCoordinator -----------------------
(* Small instances of WorkflowCoordinator for TLC.                         *)
EXTENDS WorkflowCoordinator, TLC

CONSTANTS c1, c2, c3, c4, p1, p2

MCDeadlines == {2, NoDeadline}
AlwaysDeadline == {2}
=============================================================================
