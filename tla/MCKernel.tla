------------------------------ MODULE MCKernel ------------------------------
(* Kernel with two tasks and one worker.                                   *)
EXTENDS Kernel
=============================================================================
