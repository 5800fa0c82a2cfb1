------------------------------- MODULE MCSerial -------------------------------
(* Serial with a buffer that two short strings overfill and a UART that    *)
(* takes less than the buffer holds.                                       *)
EXTENDS Serial
===============================================================================
