---------------------------- MODULE MCPipeManager ----------------------------
(* Instances of PipeManager for TLC.                                       *)
EXTENDS PipeManager

CONSTANTS regist, other

CallOf(op, name, server, sync) == [op |-> op, name |-> name, server |-> server, sync |-> sync]

(* A server's pipe created and closed, the registration pipe created by a  *)
(* client and replaced by a server, and the end of the loop.               *)
SomeCalls ==
  {CallOf("CreatePipe", other, TRUE, TRUE), CallOf("Close", other, TRUE, FALSE),
   CallOf("CreatePipe", regist, FALSE, TRUE), CallOf("CloseAndReCreate", regist, TRUE, FALSE),
   CallOf("StopLoop", other, TRUE, FALSE)}
=============================================================================
