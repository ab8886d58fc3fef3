--------------------------- MODULE MCUserDashboard ---------------------------
EXTENDS UserDashboard

CONSTANTS t1, k1

\* A customer with every feature.
MCFeatures == {"stats", "tunnels", "custom_domain"}
=============================================================================
