------------------------------ MODULE MCCircBuff ------------------------------
(* CircBuff with a handful of slots: every position of the two heads,      *)
(* every fill level and every point of consumer_read occur.                *)
EXTENDS CircBuff
===============================================================================
