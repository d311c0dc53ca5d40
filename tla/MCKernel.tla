------------------------------ MODULE MCKernel ------------------------------
(***************************************************************************)
(* Kernel for TLC: the kernels of the five labs, two harts, two processes, *)
(* a clock of two bits and sleeps of up to two ticks, so that the clock    *)
(* wraps while a process sleeps, and a line of lab3 every second tick.     *)
(* The causes are the three interrupts the handlers serve, the ecall, and  *)
(* a store page fault, which neither handler serves.                       *)
(***************************************************************************)
EXTENDS Kernel

CONSTANTS p0, p1

MCProcs == {p0, p1}

MCCauses ==
    [intr : {TRUE}, id : {1, 5, 9}] \cup [intr : {FALSE}, id : {8, 15}]
=============================================================================
