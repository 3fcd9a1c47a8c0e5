---------------------------- MODULE MCScheduler ----------------------------
(* Two threads of one priority and a more urgent one, beside the idle thread. *)
EXTENDS Scheduler, TLC

CONSTANTS a, b, h

MCInitPrio == a :> 1 @@ b :> 1 @@ h :> 0 @@ Idle :> Lowest
MCSlice == a :> 2 @@ b :> 1 @@ h :> 1 @@ Idle :> 1
=============================================================================
