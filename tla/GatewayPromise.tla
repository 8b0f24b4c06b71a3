--------------------------- MODULE GatewayPromise ---------------------------
(***************************************************************************)
(* What the gateway phase promises the controller that called it with the *)
(* cleanup policy on (gateway/manager.py, register_and_verify, as          *)
(* orchestration/controller.py relies on it when it decides whether the    *)
(* serving container may be removed).                                      *)
(*                                                                         *)
(* routes is the set of roles whose LiteLLM registration exists, or may    *)
(* still come to exist, under this run's ownership label: the roles        *)
(* through which a client of the gateway may be sent to this run's serving *)
(* container.                                                              *)
(***************************************************************************)

VARIABLES
  outcome,   \* how the call ended, or "working" until it does
  routes     \* roles through which the gateway may reach the container

promise == <<outcome, routes>>

Role == {"base", "fine_tuned"}

Outcome == {
  "working",    \* register_and_verify has not returned
  "ready",      \* it returned: both roles are routed
  "released",   \* it raised an ordinary error: nothing is routed any more
  "held",       \* it raised GatewayCleanupError: the container must stay
  "faulted"     \* its own error report failed, and nothing is promised
}

PromiseInit ==
  /\ outcome = "working"
  /\ routes = {}

\* While the call runs its registrations appear and disappear.
Work ==
  /\ outcome = "working"
  /\ routes' \in SUBSET Role
  /\ UNCHANGED outcome

ReturnReady ==
  /\ outcome = "working"
  /\ routes = Role
  /\ outcome' = "ready"
  /\ UNCHANGED routes

RaiseReleased ==
  /\ outcome = "working"
  /\ routes = {}
  /\ outcome' = "released"
  /\ UNCHANGED routes

RaiseHeld ==
  /\ outcome = "working"
  /\ outcome' = "held"
  /\ UNCHANGED routes

RaiseFaulted ==
  /\ outcome = "working"
  /\ outcome' = "faulted"
  /\ UNCHANGED routes

\* A creation request that was in flight when cleanup gave up ceases to be
\* a threat once its window is over; nothing new is ever routed.
Fade ==
  /\ outcome \in {"held", "faulted"}
  /\ routes' \in SUBSET routes
  /\ UNCHANGED outcome

PromiseNext ==
  \/ Work
  \/ ReturnReady
  \/ RaiseReleased
  \/ RaiseHeld
  \/ RaiseFaulted
  \/ Fade

PromiseSpec == PromiseInit /\ [][PromiseNext]_promise

=============================================================================
