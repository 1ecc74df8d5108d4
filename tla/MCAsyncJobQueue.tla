-------------------------- MODULE MCAsyncJobQueue --------------------------
(* Small instances of AsyncJobQueue for TLC.                               *)
EXTENDS AsyncJobQueue

CONSTANTS j1, j2, j3

=============================================================================
