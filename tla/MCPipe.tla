------------------------------- MODULE MCPipe -------------------------------
(* Small pipes for TLC: MCPipe.cfg and MCPipeKilled.cfg give the constants. *)
EXTENDS Pipe
=============================================================================
