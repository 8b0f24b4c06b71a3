----------------------------- MODULE MCFullCleanup -----------------------------
EXTENDS FullCleanup

Executions == {"e1", "e2", "e3"}
Pipelines == [e \in Executions |-> IF e = "e3" THEN "p3" ELSE "p1"]

Line(run, execution, pipeline) ==
  [run |-> run, execution |-> execution, pipeline |-> pipeline]
CommandLines ==
  {Line("none", "none", "p1"), Line("e1", "none", "none"), Line("e1", "e1", "none")}

=============================================================================
