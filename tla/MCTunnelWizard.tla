---------------------------- MODULE MCTunnelWizard ----------------------------
EXTENDS TunnelWizard

CONSTANTS d1, d2, d3
=============================================================================
