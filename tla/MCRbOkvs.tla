------------------------------ MODULE MCRbOkvs ------------------------------
EXTENDS RbOkvs
=============================================================================
