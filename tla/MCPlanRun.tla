----------------------------- MODULE MCPlanRun -----------------------------
EXTENDS PlanRun

\* Two steps in order, two of which the first needs the second, a cycle, and
\* three that are out of order.
Chain == <<{}, {1}>>
Reversed == <<{2}, {}>>
Cycle == <<{2}, {1}>>
Fork == <<{3}, {1, 3}, {}>>
Shapes == {Chain, Reversed, Cycle, Fork}
OneShape == {Reversed}
=============================================================================
