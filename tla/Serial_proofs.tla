----------------------------- MODULE Serial_proofs -----------------------------
(***************************************************************************)
(* The serial driver for any number of threads, any buffer, any UART that  *)
(* takes HW_BUFF_SIZE characters at a time and any string length.  Types   *)
(* hold whether or not interrupts arrive inside a resumed SER_writeb; what *)
(* status means, that nothing is stranded and that the characters keep     *)
(* their order hold when they do not (WindowOpen = FALSE), as run          *)
(* serial_open shows the other case to fail.                               *)
(***************************************************************************)
EXTENDS Serial, SequenceTheorems, TLAPS

USE SerialAssumption

(* Interrupts off exclude: who is in the driver holds the CPU, and the     *)
(* handler runs while nobody is.                                           *)
Exclusion ==
    /\ \A t \in Threads : pc[t] \notin {"out", "wait", "asleep"} => cpu = t
    /\ isr = "fill" => cpu = None

(* Whoever fills the UART found it idle, and the characters it has handed  *)
(* over are all the UART can hold.                                         *)
Filling ==
    /\ \A t \in Threads : pc[t] \in {"fill", "fill_end"} => status = "IDLE"
    /\ isr = "fill" => status = "IDLE"
    /\ i > 0 => \E t \in Threads : pc[t] \in {"fill", "fill_end"}
    /\ isr_i > 0 => isr = "fill"
    /\ status = "IDLE" => Len(fifo) <= i + isr_i

(* The UART is at work, or its interrupt is on the way. *)
Answering == fifo # << >> \/ (thre /\ irq)

Answered ==
    /\ thre => fifo = << >>
    /\ i > 0 \/ isr_i > 0 \/ status = "BUSY" => Answering

(* Characters wait in the buffer only for a busy UART, from the end of     *)
(* init_hw_write on.                                                       *)
Draining ==
    /\ cpu = None /\ isr = "off" /\ queue # << >> => status = "BUSY"
    /\ \A t \in Threads : cpu = t /\ pc[t] = "wait" /\ queue # << >> => status = "BUSY"

IInv ==
    /\ TypeOK
    /\ Exclusion
    /\ Filling
    /\ Answered
    /\ Draining
    /\ InOrder

-----------------------------------------------------------------------------
(* Types. *)

LEMMA StampFacts ==
  /\ 0 \in Stamps
  /\ \A n \in Stamps : Succ(n) \in Stamps
  BY DEF Stamps, Succ

LEMMA InitType == Init => TypeOK
<1> SUFFICES ASSUME Init PROVE TypeOK
  OBVIOUS
<1>1. /\ queue \in Seq(Stamps) /\ Len(queue) <= BufCap
      /\ fifo \in Seq(Stamps) /\ Len(fifo) <= UartDepth
      /\ blocked \in Seq(Threads)
  BY DEF Init
<1>2. pc \in [Threads -> Points] /\ block \in [Threads -> BOOLEAN]
  BY DEF Init, Points
<1>3. left \in [Threads -> 0..MaxLen] /\ i \in 0..HW_BUFF_SIZE /\ isr_i \in 0..HW_BUFF_SIZE
  BY DEF Init
<1>4. accepted \in Stamps /\ sent \in Stamps
  BY StampFacts DEF Init
<1> QED
  BY <1>1, <1>2, <1>3, <1>4 DEF Init, TypeOK

LEMMA TxType ==
  ASSUME TypeOK, NEW c \in Stamps, TX_byte(c)
  PROVE  /\ fifo' \in Seq(Stamps) /\ Len(fifo') <= UartDepth
         /\ thre' = FALSE /\ irq' = irq /\ sent' = sent
  BY DEF TX_byte, TypeOK

LEMMA PopType ==
  ASSUME TypeOK, NEW n, CanHand(n)
  PROVE  /\ Head(queue) \in Stamps /\ Tail(queue) \in Seq(Stamps)
         /\ Len(Tail(queue)) = Len(queue) - 1 /\ Len(queue) \in Nat
  BY HeadTailProperties, LenProperties DEF CanHand, TypeOK

LEMMA WakeType ==
  ASSUME TypeOK, PROC_unblock_head
  PROVE  /\ blocked' \in Seq(Threads)
         /\ pc' \in [Threads -> Points]
         /\ \A t \in Threads : pc'[t] = pc[t] \/ pc'[t] = "wait"
<1>1. CASE blocked = << >>
  BY <1>1 DEF PROC_unblock_head, TypeOK
<1>2. CASE blocked # << >>
  <2>1. Head(blocked) \in Threads /\ Tail(blocked) \in Seq(Threads)
    BY <1>2, HeadTailProperties DEF TypeOK
  <2>2. blocked' = Tail(blocked) /\ pc' = [pc EXCEPT ![Head(blocked)] = "wait"]
    BY <1>2 DEF PROC_unblock_head
  <2> QED
    BY <2>1, <2>2 DEF TypeOK, Points
<1> QED
  BY <1>1, <1>2

LEMMA GoToType ==
  ASSUME TypeOK, NEW t \in Threads, NEW p \in Points, GoTo(t, p)
  PROVE  /\ pc' \in [Threads -> Points]
         /\ \A u \in Threads : pc'[u] = IF u = t THEN p ELSE pc[u]
  BY DEF GoTo, TypeOK

LEMMA LeaveType ==
  ASSUME TypeOK, NEW t \in Threads, Leave(t)
  PROVE  /\ i' = 0 /\ pc' \in [Threads -> Points]
         /\ \A u \in Threads : u # t => pc'[u] = pc[u]
         /\ cpu' \in Threads \cup {None}
         /\ block' \in [Threads -> BOOLEAN] /\ ints' \in BOOLEAN
         /\ \/ pc[t] \in {"hw", "fill"} /\ pc'[t] = "wait" /\ cpu' = cpu
            \/ pc[t] \in {"hw_end", "fill_end"} /\ pc'[t] = "out" /\ cpu' = None
<1>1. i' = 0
  BY DEF Leave
<1>2. CASE pc[t] \in {"hw", "fill"} /\ GoTo(t, "wait") /\ UNCHANGED <<cpu, block, ints>>
  <2>1. "wait" \in Points
    BY DEF Points
  <2> QED
    BY <1>1, <1>2, <2>1, GoToType DEF TypeOK
<1>3. CASE /\ pc[t] \in {"hw_end", "fill_end"} /\ GoTo(t, "out") /\ cpu' = None
           /\ block' = [block EXCEPT ![t] = FALSE] /\ ints' = FALSE
  <2>1. "out" \in Points
    BY DEF Points
  <2> QED
    BY <1>1, <1>3, <2>1, GoToType DEF TypeOK
<1> QED
  BY <1>2, <1>3 DEF Leave

LEMMA TypeStep == TypeOK /\ [Next]_vars => TypeOK'
<1> SUFFICES ASSUME TypeOK, [Next]_vars PROVE TypeOK'
  OBVIOUS
<1> USE DEF driver, threads, uart
<1>1. ASSUME NEW t \in Threads, NEW n \in 0..MaxLen, NEW b \in BOOLEAN, SER_call(t, n, b)
      PROVE  TypeOK'
  <2>1. pc' \in [Threads -> Points]
    BY <1>1, GoToType DEF SER_call, Points
  <2> QED
    BY <1>1, <2>1 DEF SER_call, TypeOK
<1>2. ASSUME NEW t \in Threads, producer_write(t)
      PROVE  TypeOK'
  <2>1. accepted' \in Stamps
    BY <1>2, StampFacts DEF producer_write, TypeOK
  <2>2. queue' \in Seq(Stamps) /\ Len(queue') = Len(queue) + 1
    BY <1>2, <2>1 DEF producer_write, TypeOK
  <2>3. Len(queue') <= BufCap
    BY <1>2, <2>2 DEF producer_write, is_buffer_full, TypeOK
  <2>4. left' \in [Threads -> 0..MaxLen]
    BY <1>2 DEF producer_write, TypeOK
  <2> QED
    BY <1>2, <2>1, <2>2, <2>3, <2>4 DEF producer_write, TypeOK
<1>3. ASSUME NEW t \in Threads, buffer_was_full(t)
      PROVE  TypeOK'
  <2>1. pc' \in [Threads -> Points]
    BY <1>3, GoToType DEF buffer_was_full, Points
  <2>2. left' = left \/ left' = [left EXCEPT ![t] = 0]
    BY <1>3 DEF buffer_was_full
  <2>3. left' \in [Threads -> 0..MaxLen]
    <3>1. left \in [Threads -> 0..MaxLen] /\ 0 \in 0..MaxLen
      BY DEF TypeOK
    <3>2. [left EXCEPT ![t] = 0] \in [Threads -> 0..MaxLen]
      BY <3>1
    <3> QED
      BY <2>2, <3>1, <3>2
  <2> QED
    BY <1>3, <2>1, <2>3 DEF buffer_was_full, TypeOK
<1>4. ASSUME NEW t \in Threads, loop_done(t)
      PROVE  TypeOK'
  <2>1. pc' \in [Threads -> Points]
    BY <1>4, GoToType DEF loop_done, Points
  <2> QED
    BY <1>4, <2>1 DEF loop_done, TypeOK
<1>5. ASSUME NEW t \in Threads, init_hw_write(t)
      PROVE  TypeOK'
  <2>1. CASE status = "IDLE"
    <3>1. pc' \in [Threads -> Points]
      BY <1>5, <2>1, GoToType DEF init_hw_write, Points
    <3> QED
      BY <1>5, <2>1, <3>1 DEF init_hw_write, TypeOK
  <2>2. CASE status # "IDLE"
    <3>1. Leave(t)
      BY <1>5, <2>2 DEF init_hw_write
    <3> QED
      BY <1>5, <2>2, <3>1, LeaveType DEF init_hw_write, TypeOK
  <2> QED
    BY <2>1, <2>2
<1>6. ASSUME NEW t \in Threads, hand_over(t)
      PROVE  TypeOK'
  <2>1. TX_byte(Head(queue)) /\ CanHand(i)
    BY <1>6 DEF hand_over
  <2>2. i' \in 0..HW_BUFF_SIZE
    BY <1>6 DEF hand_over, CanHand, TypeOK
  <2>3. Head(queue) \in Stamps /\ queue' \in Seq(Stamps) /\ Len(queue') <= BufCap
    BY <1>6, <2>1, PopType DEF hand_over, TypeOK
  <2>4. /\ fifo' \in Seq(Stamps) /\ Len(fifo') <= UartDepth
        /\ thre' = FALSE /\ irq' = irq /\ sent' = sent
    BY <2>1, <2>3, TxType
  <2> QED
    BY <1>6, <2>2, <2>3, <2>4 DEF hand_over, TypeOK
<1>7. ASSUME NEW t \in Threads, mark_busy(t)
      PROVE  TypeOK'
  <2>1. Leave(t)
    BY <1>7 DEF mark_busy
  <2> QED
    BY <1>7, <2>1, LeaveType DEF mark_busy, TypeOK
<1>8. ASSUME NEW t \in Threads, wait_event(t)
      PROVE  TypeOK'
  <2>1. pc' \in [Threads -> Points]
    BY <1>8, GoToType DEF wait_event, Points
  <2>2. blocked' = blocked \/ blocked' = Append(blocked, t)
    BY <1>8 DEF wait_event
  <2>3. blocked' \in Seq(Threads)
    <3>1. blocked \in Seq(Threads)
      BY DEF TypeOK
    <3>2. Append(blocked, t) \in Seq(Threads)
      BY <3>1, AppendProperties
    <3> QED
      BY <2>2, <3>1, <3>2
  <2> QED
    BY <1>8, <2>1, <2>3 DEF wait_event, TypeOK
<1>9. CASE serial_isr
  <2>1. isr_i' \in 0..HW_BUFF_SIZE /\ isr' \in {"off", "fill"}
    BY <1>9 DEF serial_isr
  <2> QED
    BY <1>9, <2>1 DEF serial_isr, TypeOK
<1>10. CASE serial_isr_bad
  BY <1>10, WakeType DEF serial_isr_bad, TypeOK
<1>11. CASE isr_hand_over
  <2>1. TX_byte(Head(queue)) /\ CanHand(isr_i)
    BY <1>11 DEF isr_hand_over
  <2>2. isr_i' \in 0..HW_BUFF_SIZE
    BY <1>11 DEF isr_hand_over, CanHand, TypeOK
  <2>3. Head(queue) \in Stamps /\ queue' \in Seq(Stamps) /\ Len(queue') <= BufCap
    BY <1>11, <2>1, PopType DEF isr_hand_over, TypeOK
  <2>4. /\ fifo' \in Seq(Stamps) /\ Len(fifo') <= UartDepth
        /\ thre' = FALSE /\ irq' = irq /\ sent' = sent
    BY <2>1, <2>3, TxType
  <2> QED
    BY <1>11, <2>2, <2>3, <2>4 DEF isr_hand_over, TypeOK
<1>12. CASE isr_end
  BY <1>12, WakeType DEF isr_end, TypeOK
<1>13. CASE uart_send
  <2>1. /\ Head(fifo) \in Stamps /\ Tail(fifo) \in Seq(Stamps)
        /\ Len(Tail(fifo)) = Len(fifo) - 1
    BY <1>13, HeadTailProperties DEF uart_send, TypeOK
  <2> QED
    BY <1>13, <2>1 DEF uart_send, TypeOK
<1>14. CASE UNCHANGED vars
  BY <1>14 DEF vars, TypeOK
<1> QED
  BY <1>1, <1>2, <1>3, <1>4, <1>5, <1>6, <1>7, <1>8, <1>9, <1>10, <1>11, <1>12, <1>13,
     <1>14 DEF Next, Inside

(* Every variable keeps its type, the buffer never holds more than BufCap  *)
(* characters and the UART never more than its FIFO, whether or not        *)
(* interrupts reach a resumed SER_writeb.                                  *)
THEOREM TypeCorrect == Spec => []TypeOK
BY InitType, TypeStep, PTL DEF Spec

-----------------------------------------------------------------------------
(* The order of the characters. *)

LEMMA SameOrder ==
  ASSUME InOrder, UNCHANGED <<fifo, queue, sent, accepted>>
  PROVE  InOrder'
  BY DEF InOrder

(* Handing a character over moves it from the head of the buffer to the    *)
(* end of the FIFO: together they hold the same.                           *)
LEMMA MoveOrder ==
  ASSUME TypeOK, InOrder, NEW n, CanHand(n), Len(fifo) < UartDepth,
         queue' = Tail(queue), TX_byte(Head(queue)), accepted' = accepted
  PROVE  InOrder' /\ fifo' = Append(fifo, Head(queue))
<1>1. fifo' = Append(fifo, Head(queue)) /\ sent' = sent
  BY DEF TX_byte
<1>2. /\ fifo \in Seq(Stamps) /\ queue \in Seq(Stamps) /\ queue # << >>
      /\ Head(queue) \in Stamps
  BY PopType DEF TypeOK, CanHand
<1>3. fifo' \o queue' = fifo \o queue
  <2>1. /\ Tail(queue) \in Seq(Stamps) /\ Len(Tail(queue)) = Len(queue) - 1
        /\ \A k \in 1..Len(Tail(queue)) : Tail(queue)[k] = queue[k + 1]
        /\ Head(queue) = queue[1] /\ Len(queue) \in Nat /\ Len(queue) > 0
    BY <1>2, HeadTailProperties, EmptySeq, LenProperties
  <2>2. /\ fifo' \in Seq(Stamps) /\ Len(fifo') = Len(fifo) + 1 /\ Len(fifo) \in Nat
        /\ \A k \in 1..Len(fifo) : fifo'[k] = fifo[k]
        /\ fifo'[Len(fifo) + 1] = queue[1]
    BY <1>1, <1>2, <2>1, AppendProperties, LenProperties
  <2> DEFINE a == fifo' \o queue'
             b == fifo \o queue
  <2>3. /\ a \in Seq(Stamps) /\ Len(a) = Len(fifo') + Len(queue')
        /\ \A k \in 1..Len(a) :
              a[k] = IF k <= Len(fifo') THEN fifo'[k] ELSE queue'[k - Len(fifo')]
    <3>1. fifo' \in Seq(Stamps) /\ queue' \in Seq(Stamps)
      BY <2>1, <2>2
    <3>2. /\ a \in Seq(Stamps) /\ Len(a) = Len(fifo') + Len(queue')
          /\ \A k \in 1..(Len(fifo') + Len(queue')) :
                a[k] = IF k <= Len(fifo') THEN fifo'[k] ELSE queue'[k - Len(fifo')]
      BY <3>1, ConcatProperties
    <3> QED
      BY <3>2
  <2>4. /\ b \in Seq(Stamps) /\ Len(b) = Len(fifo) + Len(queue)
        /\ \A k \in 1..Len(b) :
              b[k] = IF k <= Len(fifo) THEN fifo[k] ELSE queue[k - Len(fifo)]
    BY <1>2, ConcatProperties
  <2>5. /\ Len(a) = Len(b) /\ Len(a) = Len(fifo) + Len(queue) /\ Len(a) \in Nat
        /\ \A k \in 1..Len(a) :
             a[k] = IF k <= Len(fifo) + 1 THEN fifo'[k] ELSE Tail(queue)[k - (Len(fifo) + 1)]
    BY <2>1, <2>2, <2>3, <2>4
  <2> HIDE DEF a, b
  <2>6. ASSUME NEW k \in 1..Len(a) PROVE a[k] = b[k]
    <3>1. CASE k <= Len(fifo)
      BY <2>2, <2>4, <2>5, <2>6, <3>1
    <3>2. CASE k = Len(fifo) + 1
      BY <2>2, <2>4, <2>5, <2>6, <3>2
    <3>3. CASE k > Len(fifo) + 1
      <4>1. a[k] = Tail(queue)[k - (Len(fifo) + 1)] /\ b[k] = queue[k - Len(fifo)]
        BY <2>2, <2>4, <2>5, <2>6, <3>3
      <4>2. k - (Len(fifo) + 1) \in 1..Len(Tail(queue))
        BY <2>1, <2>2, <2>4, <2>5, <2>6, <3>3
      <4>3. Tail(queue)[k - (Len(fifo) + 1)] = queue[(k - (Len(fifo) + 1)) + 1]
        BY <2>1, <4>2
      <4>4. (k - (Len(fifo) + 1)) + 1 = k - Len(fifo)
        BY <2>2, <2>6
      <4> QED
        BY <4>1, <4>3, <4>4
    <3>4. k \in Int /\ Len(fifo) \in Int
      BY <2>1, <2>2, <2>4, <2>5, <2>6
    <3> QED
      BY <3>1, <3>2, <3>3, <3>4
  <2>7. a = b
    BY <2>3, <2>4, <2>5, <2>6, SeqEqual
  <2> QED
    BY <2>7 DEF a, b
<1> QED
  BY <1>1, <1>3 DEF InOrder

(* Adding modulo Stamp, within one turn. *)
LEMMA StampPlus ==
  ASSUME NEW a \in Stamps, NEW k \in 0..Stamp
  PROVE  (a + k) % Stamp = IF a + k < Stamp THEN a + k ELSE a + k - Stamp
<1>1. CASE a + k < Stamp
  BY <1>1 DEF Stamps
<1>2. CASE a + k >= Stamp
  BY <1>2 DEF Stamps
<1> QED
  BY <1>1, <1>2 DEF Stamps

LEMMA StampNext ==
  ASSUME NEW a \in Stamps, NEW k \in 0..(Stamp - 1)
  PROVE  /\ (((a + 1) % Stamp) + k) % Stamp = (a + (k + 1)) % Stamp
         /\ (((a + k) % Stamp) + 1) % Stamp = (a + (k + 1)) % Stamp
<1>1. (a + 1) % Stamp \in Stamps /\ (a + k) % Stamp \in Stamps
  BY DEF Stamps
<1>2. 1 \in 0..Stamp /\ k \in 0..Stamp /\ k + 1 \in 0..Stamp
  BY DEF Stamps
<1>3. /\ (a + 1) % Stamp = IF a + 1 < Stamp THEN a + 1 ELSE a + 1 - Stamp
      /\ (a + k) % Stamp = IF a + k < Stamp THEN a + k ELSE a + k - Stamp
      /\ (a + (k + 1)) % Stamp = IF a + (k + 1) < Stamp THEN a + (k + 1)
                                                      ELSE a + (k + 1) - Stamp
  BY <1>2, StampPlus
<1>4. /\ (((a + 1) % Stamp) + k) % Stamp =
            IF ((a + 1) % Stamp) + k < Stamp THEN ((a + 1) % Stamp) + k
                                             ELSE ((a + 1) % Stamp) + k - Stamp
      /\ (((a + k) % Stamp) + 1) % Stamp =
            IF ((a + k) % Stamp) + 1 < Stamp THEN ((a + k) % Stamp) + 1
                                             ELSE ((a + k) % Stamp) + 1 - Stamp
  BY <1>1, <1>2, StampPlus
<1>5. a \in Int /\ a >= 0 /\ a < Stamp /\ k \in Int /\ k >= 0 /\ k < Stamp
  BY DEF Stamps
<1> QED
  BY <1>3, <1>4, <1>5

LEMMA PendingLength ==
  ASSUME TypeOK
  PROVE  /\ fifo \o queue \in Seq(Stamps)
         /\ Len(fifo \o queue) = Len(fifo) + Len(queue)
         /\ Len(fifo) \in Nat /\ Len(queue) \in Nat
         /\ Len(fifo \o queue) \in 0..(Stamp - 1)
         /\ \A k \in 1..(Len(fifo) + Len(queue)) :
               (fifo \o queue)[k] = IF k <= Len(fifo) THEN fifo[k] ELSE queue[k - Len(fifo)]
<1>1. fifo \in Seq(Stamps) /\ queue \in Seq(Stamps)
  BY DEF TypeOK
<1>2. Len(fifo) \in Nat /\ Len(queue) \in Nat
  BY <1>1, LenProperties
<1> QED
  BY <1>1, <1>2, ConcatProperties DEF TypeOK

(* Accepting a character puts the next number at the end. *)
LEMMA AcceptOrder ==
  ASSUME TypeOK, InOrder, accepted' = Succ(accepted), queue' = Append(queue, accepted'),
         UNCHANGED <<fifo, sent>>
  PROVE  InOrder'
<1> DEFINE n == Len(fifo \o queue)
<1>1. accepted' \in Stamps /\ sent \in Stamps /\ n \in 0..(Stamp - 1)
  BY StampFacts, PendingLength DEF TypeOK
<1>2. accepted' = (sent + (n + 1)) % Stamp
  BY <1>1, StampNext DEF InOrder, Succ
<1>3. fifo' \o queue' = Append(fifo \o queue, accepted')
  <2>1. fifo \in Seq(Stamps) /\ queue \in Seq(Stamps)
    BY DEF TypeOK
  <2> QED
    BY <1>1, <2>1
<1>4. /\ Len(fifo' \o queue') = n + 1
      /\ \A k \in 1..n : (fifo' \o queue')[k] = (fifo \o queue)[k]
      /\ (fifo' \o queue')[n + 1] = accepted'
  BY <1>1, <1>3, PendingLength, AppendProperties
<1>5. ASSUME NEW k \in 1..(n + 1) PROVE (fifo' \o queue')[k] = (sent + k) % Stamp
  <2>1. CASE k \in 1..n
    BY <1>4, <2>1 DEF InOrder
  <2>2. CASE k = n + 1
    BY <1>2, <1>4, <2>2
  <2> QED
    BY <1>1, <2>1, <2>2
<1> QED
  BY <1>2, <1>4, <1>5 DEF InOrder

(* Sending takes the first, which is the next after the last sent. *)
LEMMA SendOrder ==
  ASSUME TypeOK, InOrder, fifo # << >>, sent' = Head(fifo), fifo' = Tail(fifo),
         UNCHANGED <<queue, accepted>>
  PROVE  InOrder'
<1> DEFINE n == Len(fifo \o queue)
           m == n - 1
<1>1. /\ fifo \in Seq(Stamps) /\ Tail(fifo) \in Seq(Stamps) /\ Len(fifo) \in Nat
      /\ Len(Tail(fifo)) = Len(fifo) - 1 /\ Len(fifo) > 0 /\ Head(fifo) = fifo[1]
      /\ \A k \in 1..Len(Tail(fifo)) : Tail(fifo)[k] = fifo[k + 1]
  BY HeadTailProperties, EmptySeq, LenProperties DEF TypeOK
<1>2. /\ n = Len(fifo) + Len(queue) /\ n \in 1..(Stamp - 1) /\ m \in 0..(Stamp - 1)
      /\ queue \in Seq(Stamps) /\ Len(queue) \in Nat
      /\ m + 1 = n /\ sent \in Stamps
      /\ \A k \in 1..n :
            (fifo \o queue)[k] = IF k <= Len(fifo) THEN fifo[k] ELSE queue[k - Len(fifo)]
  BY <1>1, PendingLength DEF TypeOK
<1>3. sent' = (sent + 1) % Stamp
  <2>1. (fifo \o queue)[1] = fifo[1] /\ 1 \in 1..n
    BY <1>1, <1>2
  <2> QED
    BY <1>1, <2>1 DEF InOrder
<1>4. /\ Len(fifo' \o queue') = m
      /\ \A k \in 1..m : (fifo' \o queue')[k] =
            IF k <= Len(Tail(fifo)) THEN Tail(fifo)[k] ELSE queue[k - Len(Tail(fifo))]
  BY <1>1, <1>2, ConcatProperties
<1>5. ASSUME NEW k \in 1..m PROVE (fifo' \o queue')[k] = (sent' + k) % Stamp
  <2>1. (fifo' \o queue')[k] = (fifo \o queue)[k + 1]
    <3>1. CASE k <= Len(Tail(fifo))
      BY <1>1, <1>2, <1>4, <1>5, <3>1
    <3>2. CASE k > Len(Tail(fifo))
      <4>1. k - Len(Tail(fifo)) = (k + 1) - Len(fifo) /\ ~(k + 1 <= Len(fifo))
        BY <1>1, <1>5, <3>2
      <4> QED
        BY <1>1, <1>2, <1>4, <1>5, <3>2, <4>1
    <3> QED
      BY <1>1, <1>5, <3>1, <3>2
  <2>2. (fifo \o queue)[k + 1] = (sent + (k + 1)) % Stamp
    BY <1>2, <1>5 DEF InOrder
  <2>3. (sent' + k) % Stamp = (sent + (k + 1)) % Stamp
    <3>1. k \in 0..(Stamp - 1)
      BY <1>2, <1>5
    <3> QED
      BY <1>2, <1>3, <3>1, StampNext
  <2> QED
    BY <2>1, <2>2, <2>3
<1>6. accepted' = (sent' + m) % Stamp
  BY <1>2, <1>3, StampNext DEF InOrder
<1> QED
  BY <1>4, <1>5, <1>6 DEF InOrder

-----------------------------------------------------------------------------
(* The inductive invariant, with interrupts off inside the driver. *)

Rest == Exclusion /\ Filling /\ Answered /\ Draining /\ InOrder

LEMMA InitIInv == Init => IInv
<1> SUFFICES ASSUME Init PROVE IInv
  OBVIOUS
<1>1. TypeOK
  BY InitType
<1>2. Exclusion /\ Filling /\ Answered /\ Draining
  BY DEF Init, Exclusion, Filling, Answered, Answering, Draining
<1>3. InOrder
  <2>1. Len(fifo \o queue) = 0
    BY DEF Init
  <2> QED
    BY <2>1 DEF Init, InOrder
<1> QED
  BY <1>1, <1>2, <1>3 DEF IInv

LEMMA CallStep ==
  ASSUME IInv, NEW t \in Threads, NEW n \in 0..MaxLen, NEW b \in BOOLEAN, SER_call(t, n, b)
  PROVE  Rest'
<1>1. /\ cpu = None /\ cpu' = t /\ isr = "off" /\ TypeOK
      /\ UNCHANGED <<queue, status, i, isr, isr_i, fifo, thre, irq, sent, accepted>>
  BY DEF SER_call, IInv, driver, uart
<1>2. \A u \in Threads : pc'[u] = IF u = t THEN "put" ELSE pc[u]
  BY GoToType DEF SER_call, Points, IInv
<1>3. Exclusion' /\ Filling' /\ Answered' /\ Draining'
  BY <1>1, <1>2 DEF IInv, Exclusion, Filling, Answered, Answering, Draining
<1> QED
  BY <1>1, <1>3, SameOrder DEF IInv, Rest

LEMMA WriteStep ==
  ASSUME IInv, NEW t \in Threads, producer_write(t)
  PROVE  Rest'
<1>1. /\ cpu = t /\ isr = "off" /\ pc[t] = "put" /\ TypeOK
      /\ UNCHANGED <<status, cpu, pc, i, isr, isr_i, fifo, thre, irq, sent>>
  BY DEF producer_write, Runs, IInv, uart
<1>2. Exclusion' /\ Filling' /\ Answered' /\ Draining'
  BY <1>1 DEF IInv, Exclusion, Filling, Answered, Answering, Draining
<1>3. InOrder'
  BY <1>1, AcceptOrder DEF IInv, producer_write
<1> QED
  BY <1>2, <1>3 DEF Rest

(* Steps of a thread that only move its point, inside the driver. *)
LEMMA MoveStep ==
  ASSUME IInv, NEW t \in Threads, NEW p \in Points, Runs(t, "put"),
         p \in {"hw", "hw_end"}, GoTo(t, p),
         UNCHANGED <<queue, status, cpu, i, isr, isr_i, fifo, thre, irq, sent, accepted>>
  PROVE  Rest'
<1>1. cpu = t /\ isr = "off" /\ pc[t] = "put" /\ TypeOK
  BY DEF Runs, IInv
<1>2. \A u \in Threads : pc'[u] = IF u = t THEN p ELSE pc[u]
  BY <1>1, GoToType
<1>3. Exclusion' /\ Filling' /\ Answered' /\ Draining'
  BY <1>1, <1>2 DEF IInv, Exclusion, Filling, Answered, Answering, Draining
<1> QED
  BY <1>3, SameOrder DEF IInv, Rest

LEMMA FullStep ==
  ASSUME IInv, NEW t \in Threads, buffer_was_full(t)
  PROVE  Rest'
<1>1. /\ Runs(t, "put") /\ \E p \in {"hw", "hw_end"} : GoTo(t, p)
      /\ UNCHANGED <<queue, status, cpu, i, isr, isr_i, fifo, thre, irq, sent, accepted>>
  BY DEF buffer_was_full, driver, uart
<1> QED
  BY <1>1, MoveStep DEF Points

LEMMA DoneStep ==
  ASSUME IInv, NEW t \in Threads, loop_done(t)
  PROVE  Rest'
<1>1. /\ Runs(t, "put") /\ GoTo(t, "hw_end")
      /\ UNCHANGED <<queue, status, cpu, i, isr, isr_i, fifo, thre, irq, sent, accepted>>
  BY DEF loop_done, driver, uart
<1> QED
  BY <1>1, MoveStep DEF Points

LEMMA HwStep ==
  ASSUME IInv, NEW t \in Threads, init_hw_write(t)
  PROVE  Rest'
<1>1. /\ cpu = t /\ isr = "off" /\ pc[t] \in {"hw", "hw_end"} /\ TypeOK
      /\ UNCHANGED <<queue, status, isr, isr_i, fifo, thre, irq, sent, accepted>>
  BY DEF init_hw_write, Runs, IInv, driver, uart
<1>2. CASE status = "IDLE"
  <2>1. PICK p \in {"fill", "fill_end"} : GoTo(t, p)
    BY <1>2 DEF init_hw_write
  <2>2. UNCHANGED <<cpu, i>>
    BY <1>2 DEF init_hw_write
  <2>3. \A u \in Threads : pc'[u] = IF u = t THEN p ELSE pc[u]
    BY <1>1, <2>1, GoToType DEF Points
  <2> QED
    <3>1. Exclusion' /\ Filling' /\ Answered' /\ Draining'
      BY <1>1, <1>2, <2>1, <2>2, <2>3
         DEF IInv, Exclusion, Filling, Answered, Answering, Draining
    <3> QED
      BY <1>1, <3>1, SameOrder DEF IInv, Rest
<1>3. CASE status # "IDLE"
  <2>1. Leave(t)
    BY <1>3 DEF init_hw_write
  <2>2. status = "BUSY"
    BY <1>1, <1>3 DEF TypeOK
  <2>3. Exclusion' /\ Filling' /\ Answered' /\ Draining'
    BY <1>1, <2>1, <2>2, LeaveType
       DEF IInv, Exclusion, Filling, Answered, Answering, Draining
  <2> QED
    BY <1>1, <2>3, SameOrder DEF IInv, Rest
<1> QED
  BY <1>2, <1>3

(* Handing over: the UART is idle, so it has room and is not "empty" now. *)
LEMMA HandStep ==
  ASSUME IInv, NEW t \in Threads, hand_over(t)
  PROVE  Rest'
<1>1. /\ cpu = t /\ isr = "off" /\ pc[t] \in {"fill", "fill_end"} /\ TypeOK
      /\ CanHand(i) /\ queue' = Tail(queue) /\ TX_byte(Head(queue)) /\ i' = i + 1
      /\ UNCHANGED <<status, cpu, pc, isr, isr_i, accepted>>
  BY DEF hand_over, Runs, IInv
<1>2. status = "IDLE" /\ i < HW_BUFF_SIZE /\ isr_i = 0 /\ i \in Nat /\ Len(fifo) <= i
  BY <1>1 DEF IInv, Filling, CanHand, TypeOK
<1>3. Len(fifo) < UartDepth
  BY <1>1, <1>2 DEF TypeOK
<1>4. InOrder' /\ fifo' = Append(fifo, Head(queue)) /\ thre' = FALSE
  BY <1>1, <1>3, MoveOrder DEF IInv, TX_byte
<1>5. Len(fifo') = Len(fifo) + 1 /\ fifo' # << >>
  BY <1>1, <1>4, PopType, AppendProperties DEF TypeOK
<1>6. Exclusion' /\ Filling' /\ Answered' /\ Draining'
  BY <1>1, <1>2, <1>4, <1>5 DEF IInv, TypeOK, Exclusion, Filling, Answered, Answering, Draining
<1> QED
  BY <1>4, <1>6 DEF Rest

(* The end of init_hw_write: what is still in the buffer did not fit, so   *)
(* something was handed over.                                              *)
LEMMA MarkStep ==
  ASSUME IInv, NEW t \in Threads, mark_busy(t)
  PROVE  Rest'
<1>1. /\ cpu = t /\ isr = "off" /\ pc[t] \in {"fill", "fill_end"} /\ TypeOK
      /\ ~CanHand(i) /\ status' = IF i > 0 THEN "BUSY" ELSE status
      /\ Leave(t)
      /\ UNCHANGED <<queue, isr, isr_i, fifo, thre, irq, sent, accepted>>
  BY DEF mark_busy, Runs, IInv, uart
<1>2. isr_i = 0 /\ i \in 0..HW_BUFF_SIZE
  BY <1>1 DEF IInv, TypeOK, Filling
<1>3. queue # << >> => status' = "BUSY"
  BY <1>1, <1>2 DEF CanHand
<1>4. status' = "BUSY" => Answering
  BY <1>1 DEF IInv, Answered
<1>5. status' = "IDLE" => Len(fifo) <= 0
  BY <1>1, <1>2 DEF IInv, Filling
<1>6. \A u \in Threads : pc'[u] \notin {"out", "wait", "asleep"} => u # t /\ pc'[u] = pc[u]
  BY <1>1, LeaveType
<1>7. \A u \in Threads : pc'[u] \in {"out", "wait", "asleep"}
  BY <1>1, <1>6, LeaveType DEF IInv, Exclusion
<1>8. i' = 0
  BY <1>1, LeaveType
<1>9. Exclusion' /\ Filling' /\ Answered' /\ Draining'
  BY <1>1, <1>2, <1>3, <1>4, <1>5, <1>7, <1>8
     DEF IInv, Exclusion, Filling, Answered, Answering, Draining
<1> QED
  BY <1>1, <1>9, SameOrder DEF IInv, Rest

LEMMA WaitStep ==
  ASSUME IInv, NEW t \in Threads, wait_event(t)
  PROVE  Rest'
<1>1. /\ cpu \in {t, None} /\ isr = "off" /\ pc[t] = "wait" /\ TypeOK
      /\ UNCHANGED <<queue, status, i, isr, isr_i, fifo, thre, irq, sent, accepted>>
  BY DEF wait_event, IInv, uart
<1>2. CASE is_buffer_full
  <2>1. GoTo(t, "asleep") /\ cpu' = None
    BY <1>2 DEF wait_event
  <2>2. \A u \in Threads : pc'[u] = IF u = t THEN "asleep" ELSE pc[u]
    BY <1>1, <2>1, GoToType DEF Points
  <2>3. queue # << >>
    BY <1>2 DEF is_buffer_full
  <2>4. status = "BUSY"
    BY <1>1, <2>3 DEF IInv, Draining
  <2>5. Exclusion' /\ Filling' /\ Answered' /\ Draining'
    BY <1>1, <2>1, <2>2, <2>4 DEF IInv, Exclusion, Filling, Answered, Answering, Draining
  <2> QED
    BY <1>1, <2>5, SameOrder DEF IInv, Rest
<1>3. CASE ~is_buffer_full
  <2>1. GoTo(t, "put") /\ cpu' = t
    BY <1>3 DEF wait_event
  <2>2. \A u \in Threads : pc'[u] = IF u = t THEN "put" ELSE pc[u]
    BY <1>1, <2>1, GoToType DEF Points
  <2>3. Exclusion' /\ Filling' /\ Answered' /\ Draining'
    BY <1>1, <2>1, <2>2 DEF IInv, Exclusion, Filling, Answered, Answering, Draining
  <2> QED
    BY <1>1, <2>3, SameOrder DEF IInv, Rest
<1> QED
  BY <1>2, <1>3

(* The handler comes while nobody is in the driver. *)
LEMMA Undisturbed ==
  ASSUME IInv, ~WindowOpen, Deliverable \/ isr = "fill"
  PROVE  /\ cpu = None /\ i = 0 /\ \A t \in Threads : pc[t] \in {"out", "wait", "asleep"}
         /\ TypeOK
<1>1. cpu = None
  BY DEF Deliverable, IInv, Exclusion
<1>2. \A t \in Threads : pc[t] \in {"out", "wait", "asleep"}
  BY <1>1 DEF IInv, Exclusion
<1>3. i = 0
  <2>1. i \in 0..HW_BUFF_SIZE /\ ~(i > 0)
    BY <1>2 DEF IInv, TypeOK, Filling
  <2> QED
    BY <2>1
<1> QED
  BY <1>1, <1>2, <1>3 DEF IInv

LEMMA IsrStep ==
  ASSUME IInv, ~WindowOpen, serial_isr
  PROVE  Rest'
<1>1. /\ cpu = None /\ i = 0 /\ (\A t \in Threads : pc[t] \in {"out", "wait", "asleep"})
      /\ TypeOK
  BY Undisturbed DEF serial_isr
<1>2. /\ thre /\ irq' = FALSE /\ thre' = FALSE /\ status' = "IDLE" /\ isr' = "fill" /\ isr_i' = 0
      /\ UNCHANGED <<queue, cpu, pc, i, fifo, sent, accepted>>
  BY DEF serial_isr, threads
<1>3. Len(fifo) = 0
  BY <1>2 DEF IInv, Answered
<1>4. Exclusion' /\ Filling' /\ Answered' /\ Draining'
  BY <1>1, <1>2, <1>3 DEF IInv, Exclusion, Filling, Answered, Answering, Draining
<1> QED
  BY <1>2, <1>4, SameOrder DEF IInv, Rest

LEMMA IsrBadStep ==
  ASSUME IInv, ~WindowOpen, serial_isr_bad
  PROVE  Rest'
<1>1. /\ cpu = None /\ i = 0 /\ (\A t \in Threads : pc[t] \in {"out", "wait", "asleep"})
      /\ TypeOK
  BY Undisturbed DEF serial_isr_bad
<1>2. /\ ~thre /\ irq' = FALSE /\ PROC_unblock_head /\ isr = "off"
      /\ UNCHANGED <<queue, status, cpu, i, isr, isr_i, fifo, thre, sent, accepted>>
  BY DEF serial_isr_bad, Deliverable
<1>3. \A t \in Threads : pc'[t] \in {"out", "wait", "asleep"}
  BY <1>1, <1>2, WakeType
<1>4. Exclusion' /\ Filling' /\ Answered' /\ Draining'
  BY <1>1, <1>2, <1>3 DEF IInv, Exclusion, Filling, Answered, Answering, Draining
<1> QED
  BY <1>2, <1>4, SameOrder DEF IInv, Rest

LEMMA IsrHandStep ==
  ASSUME IInv, ~WindowOpen, isr_hand_over
  PROVE  Rest'
<1>1. /\ isr = "fill" /\ CanHand(isr_i) /\ queue' = Tail(queue) /\ TX_byte(Head(queue))
      /\ isr_i' = isr_i + 1
      /\ UNCHANGED <<status, cpu, pc, i, isr, accepted>>
  BY DEF isr_hand_over, threads
<1>2. /\ cpu = None /\ i = 0 /\ (\A t \in Threads : pc[t] \in {"out", "wait", "asleep"})
      /\ TypeOK
  BY <1>1, Undisturbed
<1>3. status = "IDLE" /\ isr_i < HW_BUFF_SIZE /\ isr_i \in Nat /\ Len(fifo) <= isr_i
  BY <1>1, <1>2 DEF IInv, Filling, CanHand, TypeOK
<1>4. Len(fifo) < UartDepth
  BY <1>2, <1>3 DEF TypeOK
<1>5. InOrder' /\ fifo' = Append(fifo, Head(queue)) /\ thre' = FALSE
  BY <1>1, <1>2, <1>4, MoveOrder DEF IInv, TX_byte
<1>6. Len(fifo') = Len(fifo) + 1 /\ fifo' # << >>
  BY <1>1, <1>2, <1>5, PopType, AppendProperties DEF TypeOK
<1>7. Exclusion' /\ Filling' /\ Answered' /\ Draining'
  BY <1>1, <1>2, <1>3, <1>5, <1>6
     DEF IInv, TypeOK, Exclusion, Filling, Answered, Answering, Draining
<1> QED
  BY <1>5, <1>7 DEF Rest

LEMMA IsrEndStep ==
  ASSUME IInv, ~WindowOpen, isr_end
  PROVE  Rest'
<1>1. /\ isr = "fill" /\ ~CanHand(isr_i) /\ isr' = "off" /\ isr_i' = 0
      /\ status' = IF isr_i > 0 THEN "BUSY" ELSE status
      /\ PROC_unblock_head
      /\ UNCHANGED <<queue, cpu, i, fifo, thre, irq, sent, accepted>>
  BY DEF isr_end, uart
<1>2. /\ cpu = None /\ i = 0 /\ (\A t \in Threads : pc[t] \in {"out", "wait", "asleep"})
      /\ TypeOK
  BY <1>1, Undisturbed
<1>3. isr_i \in 0..HW_BUFF_SIZE
  BY <1>2 DEF TypeOK
<1>4. queue # << >> => status' = "BUSY"
  BY <1>1, <1>3 DEF CanHand
<1>5. status' = "BUSY" => Answering
  BY <1>1 DEF IInv, Answered
<1>6. status' = "IDLE" => Len(fifo) <= 0
  BY <1>1, <1>2, <1>3 DEF IInv, Filling
<1>7. \A t \in Threads : pc'[t] \in {"out", "wait", "asleep"}
  BY <1>1, <1>2, WakeType
<1>8. Exclusion' /\ Filling' /\ Answered' /\ Draining'
  BY <1>1, <1>2, <1>4, <1>5, <1>6, <1>7
     DEF IInv, Exclusion, Filling, Answered, Answering, Draining
<1> QED
  BY <1>1, <1>8, SameOrder DEF IInv, Rest

LEMMA SendStep ==
  ASSUME IInv, uart_send
  PROVE  Rest'
<1>1. /\ fifo # << >> /\ sent' = Head(fifo) /\ fifo' = Tail(fifo)
      /\ thre' = (Len(fifo) = 1) /\ irq' = (irq \/ Len(fifo) = 1)
      /\ UNCHANGED <<queue, status, cpu, pc, i, isr, isr_i, accepted>>
  BY DEF uart_send, driver, threads
<1>2. InOrder'
  BY <1>1, SendOrder DEF IInv
<1>3. /\ Len(fifo) \in Nat /\ Len(fifo) > 0 /\ Len(fifo') = Len(fifo) - 1
      /\ fifo' \in Seq(Stamps)
  BY <1>1, HeadTailProperties, LenProperties, EmptySeq DEF IInv, TypeOK
<1>4. fifo' = << >> <=> Len(fifo) = 1
  <2>1. fifo' = << >> <=> Len(fifo') = 0
    BY <1>3, EmptySeq
  <2>2. Len(fifo') = 0 <=> Len(fifo) = 1
    BY <1>3
  <2> QED
    BY <2>1, <2>2
<1>5. Answering' /\ (thre' => fifo' = << >>)
  BY <1>1, <1>4 DEF Answering
<1>6. Exclusion' /\ Draining'
  BY <1>1 DEF IInv, Exclusion, Draining
<1>7. Filling'
  BY <1>1, <1>3 DEF IInv, Filling, TypeOK
<1>8. Answered'
  BY <1>5 DEF Answered
<1> QED
  BY <1>2, <1>6, <1>7, <1>8 DEF Rest

LEMMA Inductive ==
  ASSUME ~WindowOpen
  PROVE  Spec => []IInv
<1>1. IInv /\ [Next]_vars => IInv'
  <2> SUFFICES ASSUME IInv, [Next]_vars PROVE IInv'
    OBVIOUS
  <2>1. TypeOK'
    BY TypeStep DEF IInv
  <2>2. CASE Next
    <3>1. Rest'
      BY <2>2, CallStep, WriteStep, FullStep, DoneStep, HwStep, HandStep, MarkStep, WaitStep,
         IsrStep, IsrBadStep, IsrHandStep, IsrEndStep, SendStep DEF Next, Inside
    <3> QED
      BY <2>1, <3>1 DEF Rest, IInv
  <2>3. CASE UNCHANGED vars
    <3>1. Exclusion' /\ Filling' /\ Answered' /\ Draining'
      BY <2>3 DEF vars, driver, threads, uart, IInv, Exclusion, Filling, Answered,
                  Answering, Draining
    <3>2. InOrder'
      BY <2>3, SameOrder DEF vars, driver, uart, IInv
    <3> QED
      BY <2>1, <3>1, <3>2 DEF IInv
  <2> QED
    BY <2>2, <2>3
<1> QED
  BY InitIInv, <1>1, PTL DEF Spec

(* While a resumed SER_writeb is not interrupted, BUSY always has an       *)
(* interrupt to come: status = BUSY is never the last word.                *)
THEOREM BusyIsAnswered ==
  ASSUME ~WindowOpen
  PROVE  Spec => []WaitingForInterrupt
<1>1. IInv => WaitingForInterrupt
  BY DEF IInv, Answered, Answering, WaitingForInterrupt
<1> QED
  BY Inductive, <1>1, PTL

(* Outside the driver, characters wait in the buffer only while the        *)
(* hardware is busy, for any mix of SER_write and SER_writeb.              *)
THEOREM NoneStranded ==
  ASSUME ~WindowOpen
  PROVE  Spec => []NothingStranded
<1>1. IInv => NothingStranded
  BY DEF IInv, Draining, NothingStranded
<1> QED
  BY Inductive, <1>1, PTL

(* What was accepted and not yet sent is in the UART and the buffer, in    *)
(* order: TX_byte never meets a full FIFO, however the UART and the        *)
(* threads interleave.                                                     *)
THEOREM OrderKept ==
  ASSUME ~WindowOpen
  PROVE  Spec => []InOrder
<1>1. IInv => InOrder
  BY DEF IInv
<1> QED
  BY Inductive, <1>1, PTL
================================================================================
