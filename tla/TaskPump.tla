------------------------------ MODULE TaskPump ------------------------------
(***************************************************************************)
(* What ipc::MessageLoop::PostTask promises: while the loop is on, one     *)
(* thread runs the posted closures, each once, one at a time and in the    *)
(* order in which they were posted.                                        *)
(***************************************************************************)
EXTENDS Sequences

CONSTANTS Task, NoTask

VARIABLES queue, running, on

pumpVars == <<queue, running, on>>

PumpInit == queue = <<>> /\ running = NoTask /\ on = FALSE

Post == (\E task \in Task : queue' = Append(queue, task)) /\ UNCHANGED <<running, on>>

Take ==
  /\ on /\ running = NoTask /\ queue # <<>>
  /\ running' = Head(queue)
  /\ queue' = Tail(queue)
  /\ UNCHANGED on

Done == running # NoTask /\ running' = NoTask /\ on' \in {on, FALSE} /\ UNCHANGED queue

Switch == running = NoTask /\ on' = ~on /\ UNCHANGED <<queue, running>>

PumpNext == Post \/ Take \/ Done \/ Switch

PumpSafety == PumpInit /\ [][PumpNext]_pumpVars

PumpSpec == PumpSafety /\ WF_pumpVars(Take)
=============================================================================
