---------------------------- MODULE MCMCPServer ----------------------------
EXTENDS MCPServer

CONSTANT c
=============================================================================
