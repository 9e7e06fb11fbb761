--------------------------- MODULE MCContextSwitch ---------------------------
(***************************************************************************)
(* The tasks kernel_main creates: an idle task for each of the two CPUs    *)
(* and init, enqueued on CPU 1.                                            *)
(***************************************************************************)
EXTENDS ContextSwitch, TLC

CONSTANTS i0, i1, init

MCTasks == {i0, i1, init}
MCIdle == 0 :> i0 @@ 1 :> i1
MCHomeCpu == init :> 1
MCIntMin == -2
=============================================================================
