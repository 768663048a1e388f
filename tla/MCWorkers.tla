------------------------------ MODULE MCWorkers ------------------------------
EXTENDS Workers
=============================================================================
