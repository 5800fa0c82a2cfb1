--------------------------------- MODULE Fifo ---------------------------------
(***************************************************************************)
(* What a character buffer promises: a bounded queue whose reader takes    *)
(* the oldest character and hands exactly that character out.              *)
(***************************************************************************)
EXTENDS Integers, Sequences

CONSTANTS Chars, Nothing, Capacity

VARIABLES
    queue,      \* characters accepted and not yet taken
    hand,       \* the character a reader has taken, or Nothing
    out         \* the last character handed to a caller, or Nothing

fifoVars == <<queue, hand, out>>

FifoInit == queue = << >> /\ hand = Nothing /\ out = Nothing

Put(c) ==
    /\ Len(queue) < Capacity
    /\ queue' = Append(queue, c)
    /\ UNCHANGED <<hand, out>>

Take ==
    /\ hand = Nothing
    /\ queue # << >>
    /\ hand' = Head(queue)
    /\ queue' = Tail(queue)
    /\ UNCHANGED out

Deliver ==
    /\ hand # Nothing
    /\ out' = hand
    /\ hand' = Nothing
    /\ UNCHANGED queue

FifoNext == (\E c \in Chars : Put(c)) \/ Take \/ Deliver

FifoSpec == FifoInit /\ [][FifoNext]_fifoVars
===============================================================================
