--------------------------- MODULE CircBuff_proofs ---------------------------
(***************************************************************************)
(* The circular buffer for every BUFF_SIZE and every alphabet.             *)
(***************************************************************************)
EXTENDS CircBuff, SequenceTheorems, TLAPS

USE CircBuffAssumption

LEMMA InitIInv == Init => IInv
<1> SUFFICES ASSUME Init PROVE IInv
  OBVIOUS
<1>1. TypeOK
  <2>1. buff \in [Slots -> Chars \cup {Nothing}]
    BY DEF Init
  <2>2. queue \in Seq(Chars)
    BY DEF Init
  <2>3. read_head \in 0..BUFF_SIZE /\ write_head \in Slots
    BY DEF Init, Slots, BUFF_BEGIN
  <2> QED
    BY <2>1, <2>2, <2>3 DEF Init, TypeOK
<1>2. HoldsQueue
  <2>1. Len(queue) = 0 /\ Wrap(read_head) = 0 /\ write_head = 0
    BY DEF Init, Wrap, BUFF_BEGIN, BUFF_END
  <2> QED
    BY <2>1 DEF HoldsQueue, Plus
<1>3. ReaderSlotSafe
  BY DEF Init, ReaderSlotSafe, BUFF_BEGIN, BUFF_END
<1> QED
  BY <1>1, <1>2, <1>3 DEF IInv

(* The heads and the full test, in terms of the number of characters. *)
LEMMA HeadFacts ==
  ASSUME IInv
  PROVE  /\ Len(queue) \in Nat /\ Wrap(read_head) \in Slots
         /\ write_head = Plus(Wrap(read_head), Len(queue))
         /\ is_buffer_full <=> Len(queue) = BUFF_SIZE - 1
         /\ \A i \in 1..Len(queue) : /\ SlotOf(i) = Plus(Wrap(read_head), i - 1)
                                     /\ SlotOf(i) \in Slots
                                     /\ SlotOf(i) # write_head
<1>1. Len(queue) \in Nat /\ Len(queue) < BUFF_SIZE
  BY DEF IInv, TypeOK, HoldsQueue
<1>2. Wrap(read_head) \in Slots
  BY DEF IInv, TypeOK, Wrap, Slots, BUFF_BEGIN, BUFF_END
<1>3. write_head = Plus(Wrap(read_head), Len(queue))
  BY DEF IInv, HoldsQueue
<1>4. is_buffer_full <=> Len(queue) = BUFF_SIZE - 1
  BY <1>1, <1>3 DEF is_buffer_full, IInv, TypeOK, Wrap, Slots, BUFF_BEGIN,
                    BUFF_END, Plus
<1>5. ASSUME NEW i \in 1..Len(queue)
      PROVE  /\ SlotOf(i) = Plus(Wrap(read_head), i - 1)
             /\ SlotOf(i) \in Slots
             /\ SlotOf(i) # write_head
  BY <1>1, <1>2, <1>3 DEF SlotOf, Plus, Slots
<1> QED
  BY <1>1, <1>2, <1>3, <1>4, <1>5

LEMMA WriteStep ==
  ASSUME IInv, NEW c \in Chars, producer_write(c)
  PROVE  IInv'
<1> USE HeadFacts
<1>1. /\ buff' = [buff EXCEPT ![write_head] = c]
      /\ write_head' = Wrap(write_head + 1) /\ queue' = Append(queue, c)
      /\ UNCHANGED <<read_head, old, stored, res, got, due>>
      /\ Len(queue) # BUFF_SIZE - 1
  BY DEF producer_write
<1>2. write_head \in Slots /\ queue \in Seq(Chars) /\ Len(queue) < BUFF_SIZE
  BY DEF IInv, TypeOK, HoldsQueue
<1>3. TypeOK'
  BY <1>1, <1>2 DEF IInv, TypeOK, Wrap, Slots, BUFF_BEGIN, BUFF_END
<1>4. Len(queue') = Len(queue) + 1 /\ Len(queue') < BUFF_SIZE
  BY <1>1, <1>2
<1>5. write_head' = Plus(Wrap(read_head), Len(queue'))
  <2>1. PICK h \in Slots, n \in Nat :
           h = Wrap(read_head) /\ n = Len(queue) /\ write_head = Plus(h, n)
    OBVIOUS
  <2>2. n + 1 < BUFF_SIZE /\ Len(queue') = n + 1
    BY <1>4, <2>1
  <2>3. Wrap(Plus(h, n) + 1) = Plus(h, n + 1)
    BY <2>2 DEF Wrap, Plus, Slots, BUFF_BEGIN, BUFF_END
  <2> QED
    BY <1>1, <2>1, <2>2, <2>3
<1>6. ASSUME NEW i \in 1..Len(queue')
      PROVE  buff'[SlotOf(i)] = queue'[i]
  <2>1. CASE i = Len(queue')
    <3>1. SlotOf(i) = write_head
      <4>1. i - 1 = Len(queue)
        BY <1>4, <2>1
      <4> QED
        BY <4>1 DEF SlotOf
    <3> QED
      BY <1>1, <1>2, <1>4, <2>1, <3>1 DEF IInv, TypeOK
  <2>2. CASE i # Len(queue')
    <3>1. i \in 1..Len(queue)
      BY <1>4, <2>2
    <3>2. buff'[SlotOf(i)] = buff[SlotOf(i)] /\ queue'[i] = queue[i]
      BY <1>1, <1>2, <3>1 DEF IInv, TypeOK
    <3> QED
      BY <3>1, <3>2 DEF IInv, HoldsQueue
  <2> QED
    BY <2>1, <2>2
<1>7. HoldsQueue'
  <2>1. \A i \in 1..Len(queue') : SlotOf(i)' = SlotOf(i)
    BY <1>1 DEF SlotOf
  <2> QED
    BY <1>1, <1>4, <1>5, <1>6, <2>1 DEF HoldsQueue
<1>8. ReaderSlotSafe'
  <2>1. stored => buff'[old] = due
    <3>1. stored => old \in Slots /\ read_head = old + 1 /\ buff[old] = due
      BY DEF IInv, TypeOK, ReaderSlotSafe
    <3>2. stored => old # write_head
      BY <1>1, <3>1 DEF is_buffer_full, Slots, producer_write
    <3> QED
      BY <1>1, <3>1, <3>2 DEF IInv, TypeOK
  <2>2. queue' # << >> /\ (queue # << >> => queue'[1] = queue[1])
    BY <1>1, <1>2
  <2> QED
    BY <1>1, <2>1, <2>2 DEF IInv, ReaderSlotSafe
<1> QED
  BY <1>3, <1>7, <1>8 DEF IInv

LEMMA BeginStep ==
  ASSUME IInv, consumer_read_begin
  PROVE  IInv'
<1> USE HeadFacts
<1>1. /\ old = Nothing /\ old' = read_head /\ read_head # write_head
      /\ UNCHANGED <<buff, read_head, write_head, stored, res, got, queue, due>>
  BY DEF consumer_read_begin, is_buffer_empty
<1>2. read_head \in Slots /\ res = Nothing /\ ~stored
  BY <1>1 DEF IInv, TypeOK, ReaderSlotSafe, Slots, BUFF_END
<1>3. queue # << >>
  <2>1. Len(queue) # 0
    BY <1>1, <1>2 DEF Wrap, Plus, Slots, BUFF_END
  <2> QED
    BY <2>1
<1>4. TypeOK' /\ HoldsQueue'
  BY <1>1, <1>2 DEF IInv, TypeOK, HoldsQueue, SlotOf
<1>5. ReaderSlotSafe'
  BY <1>1, <1>2, <1>3 DEF IInv, ReaderSlotSafe, Slots
<1> QED
  BY <1>4, <1>5 DEF IInv

LEMMA StoreStep ==
  ASSUME IInv, consumer_read_store
  PROVE  IInv'
<1> USE HeadFacts
<1>1. /\ old # Nothing /\ ~stored /\ read_head' = old + 1 /\ stored' = TRUE
      /\ queue' = Tail(queue) /\ due' = Head(queue)
      /\ UNCHANGED <<buff, write_head, old, res, got>>
  BY DEF consumer_read_store
<1>2. /\ queue # << >> /\ read_head = old /\ old \in Slots /\ queue \in Seq(Chars)
      /\ res # Nothing => res = queue[1]
  BY <1>1 DEF IInv, TypeOK, ReaderSlotSafe
<1>3. /\ Len(queue) # 0 /\ Len(queue') = Len(queue) - 1 /\ queue' \in Seq(Chars)
      /\ Head(queue) = queue[1] /\ queue[1] \in Chars
      /\ \A i \in 1..Len(queue') : queue'[i] = queue[i + 1]
  BY <1>1, <1>2, HeadTailProperties, EmptySeq
<1>4. TypeOK'
  BY <1>1, <1>2, <1>3 DEF IInv, TypeOK, Slots
<1>5. Wrap(read_head) = old /\ Wrap(read_head') = Plus(old, 1)
  BY <1>1, <1>2 DEF Wrap, Plus, Slots, BUFF_BEGIN, BUFF_END
<1>6. HoldsQueue'
  <2>1. write_head = Plus(Wrap(read_head'), Len(queue')) /\ Len(queue') < BUFF_SIZE
    BY <1>2, <1>3, <1>5 DEF Plus, Slots, IInv, HoldsQueue
  <2>2. ASSUME NEW i \in 1..Len(queue')
        PROVE  SlotOf(i)' = SlotOf(i + 1) /\ i + 1 \in 1..Len(queue)
    <3>1. SlotOf(i)' = Plus(Wrap(read_head'), i - 1)
      BY DEF SlotOf
    <3>2. SlotOf(i + 1) = Plus(old, i)
      <4>1. (i + 1) - 1 = i
        OBVIOUS
      <4> QED
        BY <1>5, <4>1 DEF SlotOf
    <3> QED
      BY <1>2, <1>3, <1>5, <3>1, <3>2 DEF Plus, Slots, IInv, HoldsQueue
  <2>3. \A i \in 1..Len(queue') : buff[SlotOf(i)'] = queue'[i]
    BY <1>3, <2>2 DEF IInv, HoldsQueue
  <2> QED
    BY <1>1, <2>1, <2>3 DEF HoldsQueue
<1>7. ReaderSlotSafe'
  <2>1. buff[old] = queue[1]
    <3>1. SlotOf(1) = old /\ 1 \in 1..Len(queue)
      BY <1>2, <1>3, <1>5 DEF SlotOf, Slots, Plus
    <3> QED
      BY <3>1 DEF IInv, HoldsQueue
  <2> QED
    BY <1>1, <1>2, <1>3, <2>1 DEF ReaderSlotSafe
<1> QED
  BY <1>4, <1>6, <1>7 DEF IInv

LEMMA LoadStep ==
  ASSUME IInv, consumer_read_load
  PROVE  IInv'
<1> USE HeadFacts
<1>1. /\ old # Nothing /\ res = Nothing /\ res' = buff[old]
      /\ UNCHANGED <<buff, read_head, write_head, old, stored, got, queue, due>>
  BY DEF consumer_read_load
<1>2. old \in Slots /\ queue \in Seq(Chars)
  BY <1>1 DEF IInv, TypeOK
<1>3. CASE ~stored
  <2>1. queue # << >> /\ read_head = old
    BY <1>1, <1>3 DEF IInv, ReaderSlotSafe
  <2>2. Len(queue) # 0
    BY <1>2, <2>1, EmptySeq
  <2>3. SlotOf(1) = old /\ 1 \in 1..Len(queue)
    BY <1>2, <2>1, <2>2 DEF SlotOf, Slots, Plus, Wrap, BUFF_END
  <2>4. buff[old] = queue[1] /\ queue[1] \in Chars
    BY <1>2, <2>3 DEF IInv, HoldsQueue
  <2>5. TypeOK' /\ HoldsQueue'
    BY <1>1, <2>4 DEF IInv, TypeOK, HoldsQueue, SlotOf
  <2>6. ReaderSlotSafe'
    BY <1>1, <1>3, <2>1, <2>4 DEF IInv, ReaderSlotSafe
  <2> QED
    BY <2>5, <2>6 DEF IInv
<1>4. CASE stored
  <2>1. buff[old] = due /\ due # Nothing /\ due \in Chars
    BY <1>4 DEF IInv, TypeOK, ReaderSlotSafe
  <2>2. TypeOK' /\ HoldsQueue'
    BY <1>1, <2>1 DEF IInv, TypeOK, HoldsQueue, SlotOf
  <2>3. ReaderSlotSafe'
    BY <1>1, <1>4, <2>1 DEF IInv, ReaderSlotSafe
  <2> QED
    BY <2>2, <2>3 DEF IInv
<1> QED
  BY <1>3, <1>4

LEMMA WrapStep ==
  ASSUME IInv, consumer_read_wrap
  PROVE  IInv'
<1> USE HeadFacts
<1>1. /\ stored /\ res # Nothing /\ read_head' = Wrap(read_head) /\ got' = res
      /\ old' = Nothing /\ stored' = FALSE /\ res' = Nothing /\ due' = Nothing
      /\ UNCHANGED <<buff, write_head, queue>>
  BY DEF consumer_read_wrap
<1>2. Wrap(read_head') = Wrap(read_head) /\ read_head' \in Slots
  BY <1>1 DEF Wrap, Slots, BUFF_BEGIN, BUFF_END
<1>3. TypeOK'
  BY <1>1, <1>2 DEF IInv, TypeOK, Slots
<1>4. HoldsQueue'
  BY <1>1, <1>2 DEF IInv, HoldsQueue, SlotOf
<1>5. ReaderSlotSafe'
  BY <1>1, <1>2 DEF ReaderSlotSafe, Slots, BUFF_END
<1> QED
  BY <1>3, <1>4, <1>5 DEF IInv

LEMMA NextIInv == IInv /\ [Next]_vars => IInv'
<1> SUFFICES ASSUME IInv, [Next]_vars PROVE IInv'
  OBVIOUS
<1>1. ASSUME NEW c \in Chars, producer_write(c) PROVE IInv'
  BY <1>1, WriteStep
<1>2. CASE consumer_read_begin
  BY <1>2, BeginStep
<1>3. CASE consumer_read_store
  BY <1>3, StoreStep
<1>4. CASE consumer_read_load
  BY <1>4, LoadStep
<1>5. CASE consumer_read_wrap
  BY <1>5, WrapStep
<1>6. CASE UNCHANGED vars
  BY <1>6 DEF vars, IInv, TypeOK, HoldsQueue, ReaderSlotSafe, SlotOf
<1> QED
  BY <1>1, <1>2, <1>3, <1>4, <1>5, <1>6 DEF Next

(* Every reachable state of the buffer, between any two steps of           *)
(* consumer_read, satisfies the inductive invariant.                       *)
THEOREM Inductive == Spec => []IInv
BY InitIInv, NextIInv, PTL DEF Spec

(* Heads, slots and registers keep their types: in particular write_head   *)
(* never leaves the array.                                                 *)
THEOREM TypeCorrect == Spec => []TypeOK
<1>1. IInv => TypeOK
  BY DEF IInv
<1> QED
  BY Inductive, <1>1, PTL

(* The array between the heads holds the waiting characters in order. *)
THEOREM BufferHoldsQueue == Spec => []HoldsQueue
<1>1. IInv => HoldsQueue
  BY DEF IInv
<1> QED
  BY Inductive, <1>1, PTL

(* No character is overwritten while consumer_read still loads it. *)
THEOREM ReaderIsSafe == Spec => []ReaderSlotSafe
<1>1. IInv => ReaderSlotSafe
  BY DEF IInv
<1> QED
  BY Inductive, <1>1, PTL

(* is_buffer_full is exact: the buffer takes BUFF_SIZE - 1 characters. *)
THEOREM FullIsExact == Spec => []FullExactlyAtCapacity
<1>1. IInv => FullExactlyAtCapacity
  BY HeadFacts DEF FullExactlyAtCapacity
<1> QED
  BY Inductive, <1>1, PTL

-----------------------------------------------------------------------------
LEMMA InitRefines == Init => F!FifoInit
BY DEF Init, F!FifoInit

LEMMA StepRefines == IInv /\ [Next]_vars => [F!FifoNext]_(F!fifoVars)
<1> SUFFICES ASSUME IInv, [Next]_vars PROVE F!FifoNext \/ UNCHANGED F!fifoVars
  OBVIOUS
<1>1. ASSUME NEW c \in Chars, producer_write(c) PROVE F!FifoNext
  <2>1. Len(queue) # BUFF_SIZE - 1 /\ Len(queue) \in Nat /\ Len(queue) < BUFF_SIZE
    BY <1>1, HeadFacts DEF producer_write, IInv, HoldsQueue
  <2>2. Len(queue) < BUFF_SIZE - 1
    BY <2>1
  <2>3. F!Put(c)
    BY <1>1, <2>2 DEF producer_write, F!Put
  <2> QED
    BY <2>3 DEF F!FifoNext
<1>2. CASE consumer_read_begin
  BY <1>2 DEF consumer_read_begin, F!fifoVars
<1>3. CASE consumer_read_store
  <2>1. queue # << >> /\ due = Nothing
    BY <1>3 DEF consumer_read_store, IInv, ReaderSlotSafe
  <2>2. F!Take
    BY <1>3, <2>1 DEF consumer_read_store, F!Take
  <2> QED
    BY <2>2 DEF F!FifoNext
<1>4. CASE consumer_read_load
  BY <1>4 DEF consumer_read_load, F!fifoVars
<1>5. CASE consumer_read_wrap
  <2>1. due # Nothing /\ res = due
    BY <1>5 DEF consumer_read_wrap, IInv, ReaderSlotSafe
  <2>2. F!Deliver
    BY <1>5, <2>1 DEF consumer_read_wrap, F!Deliver
  <2> QED
    BY <2>2 DEF F!FifoNext
<1>6. CASE UNCHANGED vars
  BY <1>6 DEF vars, F!fifoVars
<1> QED
  BY <1>1, <1>2, <1>3, <1>4, <1>5, <1>6 DEF Next

(* Reader and interrupt handler share the buffer without a lock, and still *)
(* every character typed is delivered once, in order.                      *)
THEOREM Refinement == Spec => ImplementsFifo
BY Inductive, InitRefines, StepRefines, PTL DEF Spec, ImplementsFifo, F!FifoSpec
==============================================================================
