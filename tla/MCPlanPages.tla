----------------------------- MODULE MCPlanPages -----------------------------
EXTENDS PlanPages

CONSTANTS u, o
=============================================================================
