-------------------------------- MODULE MCProc --------------------------------
(* Proc on a kernel with a handful of threads and a tiny keyboard buffer.  *)
EXTENDS Proc
===============================================================================
