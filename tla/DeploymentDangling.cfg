\* The full profile, for what the documentation says of registrations that
\* succeeded.
SPECIFICATION Spec
CONSTANTS
  GatewayEnabled = TRUE
INVARIANTS
  VerifiedRoutesStayServed
CHECK_DEADLOCK FALSE
