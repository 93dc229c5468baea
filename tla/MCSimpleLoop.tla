---------------------------- MODULE MCSimpleLoop ----------------------------
(* The loop thread and three callers.                                      *)
EXTENDS SimpleLoop
=============================================================================
