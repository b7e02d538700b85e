------------------------------- MODULE MCPow -------------------------------
EXTENDS PowSession
=============================================================================
