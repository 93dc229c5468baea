--------------------------- MODULE MCThreadManager ---------------------------
(* The tasks that users push: some do nothing, and one of each thread      *)
(* pushes a task of its own.                                               *)
EXTENDS ThreadManager

SomeCalls ==
  {<<"push_block_task", "nothing">>, <<"push_block_task", "push_block_task">>,
   <<"push_fast_task", "push_heartbeat_task">>, <<"push_heartbeat_task", "push_fast_task">>}
=============================================================================
