------------------------- MODULE MCSharedMemoryIpc -------------------------
(* The channel with small sets of processes and messages.                  *)
EXTENDS SharedMemoryIpc, TLC

CONSTANTS large, huge

(* The size field takes 1.  A large message fits a memory of size 5 and    *)
(* not one of size 3, a huge one fits neither.                             *)
SizeOf == [m \in Message |-> IF m = large THEN 4 ELSE IF m = huge THEN 5 ELSE 1]
Equal  == [p \in Proc |-> 3]

(* Servers that pass a smaller size to create() than the clients.          *)
SmallServer == [p \in Proc |-> IF p \in Server THEN 3 ELSE 5]

(* The clients are interchangeable, and so are the servers.                *)
ProcSymmetry == Permutations(Server) \union Permutations(Client)
=============================================================================
