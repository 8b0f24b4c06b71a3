-------------------------- MODULE MCServingLaunch ---------------------------
(* Two runs and one container of somebody else, which takes the name of    *)
(* run r1 and everybody's port.                                            *)
EXTENDS ServingLaunch, TLC

CONSTANTS r1, r2, o1

MCNameOf == r1 :> "n1" @@ r2 :> "n2" @@ o1 :> "n1"

MCPortOf == r1 :> 8101 @@ r2 :> 8101 @@ o1 :> 8101

\* "auto": the model names carry the run id.
AutoAliases == r1 :> "a1" @@ r2 :> "a2" @@ o1 :> "foreign"

\* Names fixed in the configuration, as in serving_gateway_example.yaml.
FixedAliases == r1 :> "a" @@ r2 :> "a" @@ o1 :> "foreign"

=============================================================================
