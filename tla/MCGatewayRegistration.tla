----------------------- MODULE MCGatewayRegistration ------------------------
(* Values for the model checker: see the cfg files. *)
EXTENDS GatewayRegistration

=============================================================================
