-------------------------- MODULE MCRunLifecycle ---------------------------
(* Two executions of the same second, model and dataset: they try the same *)
(* run ids in the same order.                                              *)
EXTENDS RunLifecycle, TLC

CONSTANTS e1, e2, n1, n2, n3

MCNameOf == [e \in Executions |-> <<n1, n2, n3>>]

MCLastPhase == e1 :> "gateway" @@ e2 :> "training"

=============================================================================
