-------------------------- MODULE MCOwnerDashboard --------------------------
EXTENDS OwnerDashboard

CONSTANTS t1, i1, i2, free, pro
=============================================================================
