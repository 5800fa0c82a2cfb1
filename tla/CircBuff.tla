------------------------------- MODULE CircBuff -------------------------------
(***************************************************************************)
(* lib/circ_buff.c with one producer and one consumer, as keyboard.c uses  *)
(* it: producer_write runs inside keyboard_handler and is never            *)
(* interrupted; consumer_read runs in getc with interrupts ON, so the      *)
(* producer may run between any two of its steps.  Nothing else keeps the  *)
(* two apart.                                                              *)
(*                                                                         *)
(* The heads are indices 0..BUFF_SIZE; BUFF_END is index BUFF_SIZE, where  *)
(* read_head stands for a moment before it wraps.  In                      *)
(*     *res = *state->read_head++;                                         *)
(* C does not order the store of read_head and the load of the character   *)
(* (gcc -O0 stores first), so the model takes them in either order.        *)
(***************************************************************************)
EXTENDS Integers, Sequences

CONSTANTS BUFF_SIZE, Chars, Nothing

ASSUME CircBuffAssumption ==
    /\ BUFF_SIZE \in Nat \ {0}
    /\ Nothing \notin Chars /\ Nothing \notin Nat

VARIABLES
    buff, read_head, write_head,    \* buff_state_t
    old,            \* consumer_read: the read_head it started from, or Nothing
    stored,         \* ... it has stored read_head + 1
    res,            \* ... the character it has loaded, or Nothing
    got,            \* the character the last consumer_read gave its caller
    queue, due      \* history: characters accepted and not taken; the one taken

vars == <<buff, read_head, write_head, old, stored, res, got, queue, due>>

Slots == 0..(BUFF_SIZE - 1)
BUFF_BEGIN == 0
BUFF_END == BUFF_SIZE

TypeOK ==
    /\ buff \in [Slots -> Chars \cup {Nothing}]
    /\ read_head \in 0..BUFF_SIZE
    /\ write_head \in Slots
    /\ old \in Slots \cup {Nothing}
    /\ stored \in BOOLEAN
    /\ res \in Chars \cup {Nothing}
    /\ got \in Chars \cup {Nothing}
    /\ queue \in Seq(Chars)
    /\ due \in Chars \cup {Nothing}

(* init_buff. *)
Init ==
    /\ buff = [i \in Slots |-> Nothing]
    /\ read_head = BUFF_BEGIN
    /\ write_head = BUFF_BEGIN
    /\ old = Nothing
    /\ stored = FALSE
    /\ res = Nothing
    /\ got = Nothing
    /\ queue = << >>
    /\ due = Nothing

is_buffer_empty == read_head = write_head

(* Slips: a full test without the wrapped case, and one without the        *)
(* reserved slot.                                                          *)
is_buffer_full_no_wrap == read_head = write_head + 1
is_buffer_full_never == FALSE

is_buffer_full ==
    \/ read_head = write_head + 1
    \/ read_head = BUFF_BEGIN /\ write_head = BUFF_END - 1

Wrap(head) == IF head >= BUFF_END THEN BUFF_BEGIN ELSE head

-----------------------------------------------------------------------------
(* A slip: write_head wraps one slot late. *)
producer_write_wraps_late(c) ==
    /\ ~is_buffer_full
    /\ buff' = [buff EXCEPT ![write_head] = c]
    /\ write_head' = IF write_head + 1 > BUFF_END THEN BUFF_BEGIN ELSE write_head + 1
    /\ queue' = Append(queue, c)
    /\ UNCHANGED <<read_head, old, stored, res, got, due>>

(* producer_write, in the interrupt handler.  On a full buffer it returns  *)
(* 0 and changes nothing.                                                  *)
producer_write(c) ==
    /\ ~is_buffer_full
    /\ buff' = [buff EXCEPT ![write_head] = c]
    /\ write_head' = Wrap(write_head + 1)
    /\ queue' = Append(queue, c)
    /\ UNCHANGED <<read_head, old, stored, res, got, due>>

(* consumer_read: the test for emptiness, and read_head into a register.   *)
(* On an empty buffer it returns 0 and changes nothing.                    *)
consumer_read_begin ==
    /\ old = Nothing
    /\ ~is_buffer_empty
    /\ old' = read_head
    /\ UNCHANGED <<buff, read_head, write_head, stored, res, got, queue, due>>

(* ... the store of read_head + 1: from here on the slot counts as free. *)
consumer_read_store ==
    /\ old # Nothing /\ ~stored
    /\ read_head' = old + 1
    /\ stored' = TRUE
    /\ queue' = Tail(queue)
    /\ due' = Head(queue)
    /\ UNCHANGED <<buff, write_head, old, res, got>>

(* ... the load of the character. *)
consumer_read_load ==
    /\ old # Nothing /\ res = Nothing
    /\ res' = buff[old]
    /\ UNCHANGED <<buff, read_head, write_head, old, stored, got, queue, due>>

(* ... the wrap, and return 1. *)
consumer_read_wrap ==
    /\ stored /\ res # Nothing
    /\ read_head' = Wrap(read_head)
    /\ got' = res
    /\ old' = Nothing /\ stored' = FALSE /\ res' = Nothing
    /\ due' = Nothing
    /\ UNCHANGED <<buff, write_head, queue>>

Next ==
    \/ \E c \in Chars : producer_write(c)
    \/ consumer_read_begin
    \/ consumer_read_store
    \/ consumer_read_load
    \/ consumer_read_wrap

Spec == Init /\ [][Next]_vars

-----------------------------------------------------------------------------
(* The slot n places after a head, and the slot of the i-th character. *)
Plus(head, n) == IF head + n < BUFF_SIZE THEN head + n ELSE head + n - BUFF_SIZE
SlotOf(i) == Plus(Wrap(read_head), i - 1)

(* The array between the heads holds the accepted characters in order, in  *)
(* every intermediate state of consumer_read.                              *)
HoldsQueue ==
    /\ write_head = Plus(Wrap(read_head), Len(queue))
    /\ Len(queue) < BUFF_SIZE
    /\ \A i \in 1..Len(queue) : buff[SlotOf(i)] = queue[i]

(* The producer never touches the slot a reader is still loading from,     *)
(* although read_head may already have moved past it: the slot is the one  *)
(* that is_buffer_full keeps empty.  So the load finds the right character *)
(* in either order.                                                        *)
ReaderSlotSafe ==
    /\ old # Nothing /\ ~stored => /\ queue # << >>
                                   /\ read_head = old
                                   /\ res # Nothing => res = queue[1]
    /\ stored => /\ old # Nothing
                 /\ read_head = old + 1
                 /\ due # Nothing
                 /\ buff[old] = due
                 /\ res # Nothing => res = due
    /\ old = Nothing => res = Nothing /\ ~stored /\ read_head # BUFF_END
    /\ ~stored => due = Nothing

(* The inductive invariant. *)
IInv == TypeOK /\ HoldsQueue /\ ReaderSlotSafe

(* producer_write refuses a character only when BUFF_SIZE - 1 are waiting, *)
(* also while read_head stands at BUFF_END.                                *)
FullExactlyAtCapacity == is_buffer_full <=> Len(queue) = BUFF_SIZE - 1

F == INSTANCE Fifo WITH Capacity <- BUFF_SIZE - 1, hand <- due, out <- got

(* The buffer is a first-in first-out queue of BUFF_SIZE - 1 characters:   *)
(* getc returns the characters typed, in order, once each.                 *)
ImplementsFifo == F!FifoSpec
===============================================================================
