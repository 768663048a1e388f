------------------------------ MODULE MCRbBits ------------------------------
EXTENDS RbBits
=============================================================================
