------------------------------- MODULE MCPqPsi -------------------------------
EXTENDS PqPsi
=============================================================================
