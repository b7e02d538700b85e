------------------------------ MODULE MCRenewal ------------------------------
EXTENDS KeyRenewal
=============================================================================
