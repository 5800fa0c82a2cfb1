------------------------------- MODULE MCMemory -------------------------------
(* Memory on a machine with two usable regions: the kernel and the         *)
(* multiboot tags lie in the second one, and it starts off a page border.  *)
EXTENDS Memory

MCKernel == [start |-> 16, end |-> 27]
MCMultiboot == [start |-> 28, end |-> 36]
MCRegions == <<[start |-> 0, end |-> 8], [start |-> 13, end |-> 80]>>

(* The highest page of the first stack. *)
MCTlbPages == {StacksStart + StackPages}

(* The lower region of a PC ends in the middle of a page. *)
PCRegions == <<[start |-> 0, end |-> 7], [start |-> 13, end |-> 80]>>
===============================================================================
