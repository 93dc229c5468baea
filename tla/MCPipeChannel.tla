---------------------------- MODULE MCPipeChannel ----------------------------
(* A client that sends a request and a message that is too long, and a     *)
(* server that answers the request.                                        *)
EXTENDS PipeChannel

CONSTANTS req, rep, huge

FromOf  == [m \in Message |-> IF m = rep THEN "server" ELSE "client"]
SizeOf  == [m \in Message \union {Hello} |-> IF m = huge THEN 4 ELSE IF m = Hello THEN 1 ELSE 2]
ReplyOf == [r \in Request |-> rep]
=============================================================================
