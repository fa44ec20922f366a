------------------------------- MODULE MCPipe -------------------------------
EXTENDS Pipe
CONSTANTS w1, r1, x, y
=============================================================================
