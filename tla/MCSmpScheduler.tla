--------------------------- MODULE MCSmpScheduler ---------------------------
(***************************************************************************)
(* Two CPUs, as apic_get_cpu_count() returns.  Boot puts three tasks on    *)
(* CPU 1, where kernel_main puts init, and none on CPU 0, whose queue is   *)
(* then always empty.  A slice of two ticks on a 3-bit integer lets the    *)
(* idle CPU run its slice below zero and past the smallest integer.        *)
(***************************************************************************)
EXTENDS SmpScheduler, TLC

CONSTANTS i0, i1, a, b, d

MCTasks == {i0, i1, a, b, d}
MCIdle == 0 :> i0 @@ 1 :> i1
MCHomeCpu == a :> 1 @@ b :> 1 @@ d :> 1

MCIntMin == -4
=============================================================================
