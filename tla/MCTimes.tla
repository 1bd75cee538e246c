------------------------------- MODULE MCTimes -------------------------------
EXTENDS Times
=============================================================================
