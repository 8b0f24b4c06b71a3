--------------------------- MODULE ServingPromise ---------------------------
(***************************************************************************)
(* What the serving phase promises the controller (serving/manager.py,     *)
(* start_and_verify): when it may still change the Docker host, and what   *)
(* the way it ended says about the run's serving container.                *)
(***************************************************************************)

VARIABLES
  outcome,    \* how the call ended, or "working" until it does
  container   \* the container labelled with this run and execution

promise == <<outcome, container>>

Outcome == {
  "working",   \* start_and_verify has not returned
  "ready",     \* it returned: the run has a container
  "cleared",   \* it raised after removing the container
  "failed"     \* it raised, and the container may have been left behind
}

Container == {
  "absent",    \* never created, or removed by the run
  "present",   \* it exists, running or not
  "vanished"   \* somebody else removed it
}

PromiseInit ==
  /\ outcome = "working"
  /\ container = "absent"

Work ==
  /\ outcome = "working"
  /\ \/ container = "absent" /\ container' = "present"
     \/ container = "present" /\ container' = "absent"
  /\ UNCHANGED outcome

ReturnReady ==
  /\ outcome = "working"
  /\ container # "absent"
  /\ outcome' = "ready"
  /\ UNCHANGED container

\* The removal itself may be the step that ends the call.
RaiseCleared ==
  /\ outcome = "working"
  /\ outcome' = "cleared"
  /\ container' = IF container = "present" THEN "absent" ELSE container

\* A docker command that is cut off may have taken effect.
RaiseFailed ==
  /\ outcome = "working"
  /\ outcome' = "failed"
  /\ \/ UNCHANGED container
     \/ container = "absent" /\ container' = "present"
     \/ container = "present" /\ container' = "absent"

\* Once the call is over nothing of this run appears any more; somebody
\* else may remove the container at any time.
Vanish ==
  /\ container = "present"
  /\ container' = "vanished"
  /\ UNCHANGED outcome

PromiseNext == Work \/ ReturnReady \/ RaiseCleared \/ RaiseFailed \/ Vanish

PromiseSpec == PromiseInit /\ [][PromiseNext]_promise

=============================================================================
