------------------------- MODULE MCWorkloadSession -------------------------
EXTENDS WorkloadSession
=============================================================================
