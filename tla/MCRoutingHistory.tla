-------------------------- MODULE MCRoutingHistory --------------------------
(* The instances of MCRoutingCoordinator, with the history variable.       *)
EXTENDS RoutingHistory, MCRoutingCoordinator
=============================================================================
