-------------------------------- MODULE Serial --------------------------------
(***************************************************************************)
(* The serial driver dev/serial.c: threads that print with SER_write       *)
(* (drops what does not fit) or SER_writeb (sleeps until it fits), the     *)
(* transmit interrupt serial_isr, and the UART (external), which empties   *)
(* its FIFO while the CPU runs.                                            *)
(*                                                                         *)
(* SER_writeb starts with CLI, but wait_event_interruptable ends in STI:   *)
(* a writer that has slept runs the rest of SER_writeb, and the            *)
(* init_hw_write at its end, with interrupts on.  WindowOpen says whether  *)
(* interrupts then really arrive.                                          *)
(*                                                                         *)
(* The circular buffer is the queue that CircBuff shows it to be as long   *)
(* as one context reads at a time.  Characters are numbered in the order   *)
(* in which they are accepted, modulo Stamp.                               *)
(***************************************************************************)
EXTENDS Integers, Sequences

CONSTANTS
    Threads,
    None,
    BufCap,         \* characters the circular buffer holds (BUFF_SIZE - 1)
    HW_BUFF_SIZE,   \* characters handed to the UART at a time
    UartDepth,      \* characters the UART's FIFO holds (16)
    Stamp,          \* modulus of the character numbers
    MaxLen,         \* longest string printed
    WindowOpen

ASSUME SerialAssumption ==
    /\ None \notin Threads
    /\ BufCap \in Nat \ {0} /\ HW_BUFF_SIZE \in Nat \ {0} /\ MaxLen \in Nat \ {0}
    /\ UartDepth \in Nat /\ HW_BUFF_SIZE <= UartDepth
    /\ Stamp \in Nat /\ Stamp > BufCap + UartDepth
    /\ WindowOpen \in BOOLEAN

VARIABLES
    queue,      \* state: accepted characters, not yet given to the UART
    status,     \* "IDLE" or "BUSY"
    blocked,    \* writers asleep, longest first
    cpu,        \* the thread that holds the CPU, or None
    pc,         \* thread -> where it is in the driver
    block,      \* thread -> it called SER_writeb
    left,       \* thread -> characters of its string still to write
    i,          \* init_hw_write of the running thread: characters handed over
    ints,       \* interrupts are on inside the driver call of the running thread
    isr, isr_i, \* serial_isr: "off", or filling the UART; its i
    fifo,       \* the UART's transmit FIFO
    thre,       \* the UART's "transmitter empty" condition
    irq,        \* the request latched in the PIC
    accepted,   \* number of the last character accepted
    sent        \* number of the last character the UART has sent

driver == <<queue, status, blocked>>
threads == <<cpu, pc, block, left, i, ints>>
uart == <<fifo, thre, irq, sent>>
vars == <<driver, threads, isr, isr_i, uart, accepted>>

Stamps == 0..(Stamp - 1)
Succ(n) == (n + 1) % Stamp

(* "put": at the loop of SER_write(b); "hw", "fill": in init_hw_write      *)
(* before sleeping; "hw_end", "fill_end": in init_hw_write at the end;     *)
(* "wait": at the test of wait_event; "asleep": inside PROC_block_on.      *)
Points == {"out", "put", "hw", "fill", "wait", "asleep", "hw_end", "fill_end"}

TypeOK ==
    /\ queue \in Seq(Stamps) /\ Len(queue) <= BufCap
    /\ status \in {"IDLE", "BUSY"}
    /\ blocked \in Seq(Threads)
    /\ cpu \in Threads \cup {None}
    /\ pc \in [Threads -> Points]
    /\ block \in [Threads -> BOOLEAN]
    /\ left \in [Threads -> 0..MaxLen]
    /\ i \in 0..HW_BUFF_SIZE /\ isr_i \in 0..HW_BUFF_SIZE
    /\ ints \in BOOLEAN
    /\ isr \in {"off", "fill"}
    /\ fifo \in Seq(Stamps) /\ Len(fifo) <= UartDepth
    /\ thre \in BOOLEAN /\ irq \in BOOLEAN
    /\ accepted \in Stamps /\ sent \in Stamps

(* SER_init ends by enabling the transmit interrupt of an empty UART. *)
Init ==
    /\ queue = << >> /\ status = "IDLE" /\ blocked = << >>
    /\ cpu = None
    /\ pc = [t \in Threads |-> "out"]
    /\ block = [t \in Threads |-> FALSE]
    /\ left = [t \in Threads |-> 0]
    /\ i = 0 /\ ints = FALSE
    /\ isr = "off" /\ isr_i = 0
    /\ fifo = << >> /\ thre = TRUE /\ irq = TRUE
    /\ accepted = 0 /\ sent = 0

(* A slip: the buffer never counts as full. *)
is_buffer_full_never == FALSE

is_buffer_full == Len(queue) = BufCap

(* TX_byte: a byte for a full FIFO is lost; any byte ends "empty". *)
TX_byte(c) ==
    /\ fifo' = IF Len(fifo) < UartDepth THEN Append(fifo, c) ELSE fifo
    /\ thre' = FALSE
    /\ UNCHANGED <<irq, sent>>

-----------------------------------------------------------------------------
(* Threads.  They are cooperative: one keeps the CPU until it sleeps or    *)
(* has returned.                                                           *)

Runs(t, point) == isr = "off" /\ cpu = t /\ pc[t] = point
GoTo(t, point) == pc' = [pc EXCEPT ![t] = point]

(* SER_write(buff, n), or SER_writeb(buff, n): CLI, and on to the loop. *)
SER_call(t, n, b) ==
    /\ isr = "off" /\ cpu = None /\ pc[t] = "out"
    /\ cpu' = t
    /\ GoTo(t, "put")
    /\ left' = [left EXCEPT ![t] = n]
    /\ block' = [block EXCEPT ![t] = b]
    /\ ints' = FALSE
    /\ UNCHANGED <<driver, i, isr, isr_i, uart, accepted>>

(* One turn of the loop, with the buffer not full. *)
producer_write(t) ==
    /\ Runs(t, "put") /\ left[t] > 0 /\ ~is_buffer_full
    /\ accepted' = Succ(accepted)
    /\ queue' = Append(queue, accepted')
    /\ left' = [left EXCEPT ![t] = @ - 1]
    /\ UNCHANGED <<status, blocked, cpu, pc, block, i, ints, isr, isr_i, uart>>

(* A slip: SER_writeb sleeps without starting the hardware. *)
buffer_was_full_no_start(t) ==
    /\ Runs(t, "put") /\ left[t] > 0 /\ is_buffer_full
    /\ IF block[t]
         THEN GoTo(t, "wait") /\ UNCHANGED left
         ELSE GoTo(t, "hw_end") /\ left' = [left EXCEPT ![t] = 0]
    /\ UNCHANGED <<driver, cpu, block, i, ints, isr, isr_i, uart, accepted>>

(* ... with the buffer full: SER_write drops the rest. *)
buffer_was_full(t) ==
    /\ Runs(t, "put") /\ left[t] > 0 /\ is_buffer_full
    /\ IF block[t]
         THEN GoTo(t, "hw") /\ UNCHANGED left
         ELSE GoTo(t, "hw_end") /\ left' = [left EXCEPT ![t] = 0]
    /\ UNCHANGED <<driver, cpu, block, i, ints, isr, isr_i, uart, accepted>>

(* A slip: a call that finds the hardware idle leaves it idle. *)
loop_done_no_start(t) ==
    /\ Runs(t, "put") /\ left[t] = 0
    /\ GoTo(t, "out")
    /\ cpu' = None
    /\ UNCHANGED <<driver, block, left, i, ints, isr, isr_i, uart, accepted>>

loop_done(t) ==
    /\ Runs(t, "put") /\ left[t] = 0
    /\ GoTo(t, "hw_end")
    /\ UNCHANGED <<driver, cpu, block, left, i, ints, isr, isr_i, uart, accepted>>

(* Leaving init_hw_write: to wait_event, or STI and return. *)
Leave(t) ==
    /\ i' = 0
    /\ \/ /\ pc[t] \in {"hw", "fill"}
          /\ GoTo(t, "wait")
          /\ UNCHANGED <<cpu, block, ints>>
       \/ /\ pc[t] \in {"hw_end", "fill_end"}
          /\ GoTo(t, "out")
          /\ cpu' = None
          /\ block' = [block EXCEPT ![t] = FALSE]
          /\ ints' = FALSE

(* init_hw_write: the test of status. *)
init_hw_write(t) ==
    /\ Runs(t, "hw") \/ Runs(t, "hw_end")
    /\ IF status = "IDLE"
         THEN /\ GoTo(t, IF pc[t] = "hw" THEN "fill" ELSE "fill_end")
              /\ UNCHANGED <<cpu, block, i, ints>>
         ELSE Leave(t)
    /\ UNCHANGED <<driver, left, isr, isr_i, uart, accepted>>

CanHand(n) == n < HW_BUFF_SIZE /\ queue # << >>

(* ... one turn of its loop: consumer_read and TX_byte. *)
hand_over(t) ==
    /\ Runs(t, "fill") \/ Runs(t, "fill_end")
    /\ CanHand(i)
    /\ queue' = Tail(queue)
    /\ TX_byte(Head(queue))
    /\ i' = i + 1
    /\ UNCHANGED <<status, blocked, cpu, pc, block, left, ints, isr, isr_i, accepted>>

(* A slip: status becomes BUSY also when nothing was handed over. *)
mark_busy_always(t) ==
    /\ Runs(t, "fill") \/ Runs(t, "fill_end")
    /\ ~CanHand(i)
    /\ status' = "BUSY"
    /\ Leave(t)
    /\ UNCHANGED <<queue, blocked, left, isr, isr_i, uart, accepted>>

(* ... and its end.  An interrupt can arrive between the last TX_byte and  *)
(* this store when interrupts are on.                                      *)
mark_busy(t) ==
    /\ Runs(t, "fill") \/ Runs(t, "fill_end")
    /\ ~CanHand(i)
    /\ status' = IF i > 0 THEN "BUSY" ELSE status
    /\ Leave(t)
    /\ UNCHANGED <<queue, blocked, left, isr, isr_i, uart, accepted>>

(* wait_event_interruptable: CLI, the test; sleep, or STI and back to the  *)
(* loop.  A writer woken by serial_isr tests again when it gets the CPU.   *)
wait_event(t) ==
    /\ isr = "off" /\ cpu \in {t, None} /\ pc[t] = "wait"
    /\ IF is_buffer_full
         THEN /\ blocked' = Append(blocked, t)
              /\ GoTo(t, "asleep")
              /\ cpu' = None
              /\ ints' = FALSE
         ELSE /\ GoTo(t, "put")
              /\ cpu' = t
              /\ ints' = TRUE
              /\ UNCHANGED blocked
    /\ UNCHANGED <<queue, status, block, left, i, isr, isr_i, uart, accepted>>

-----------------------------------------------------------------------------
(* The interrupt.  It finds interrupts on when no thread is in the driver, *)
(* and inside the driver when the window is open.                          *)

Deliverable == irq /\ isr = "off" /\ (cpu = None \/ (WindowOpen /\ ints))

PROC_unblock_head ==
    /\ blocked' = IF blocked = << >> THEN blocked ELSE Tail(blocked)
    /\ pc' = IF blocked = << >> THEN pc ELSE [pc EXCEPT ![Head(blocked)] = "wait"]

(* serial_isr, IIR_TX_EMPTY: reading IIR ends the condition; status = IDLE *)
(* and on to init_hw_write.                                                *)
serial_isr ==
    /\ Deliverable /\ thre
    /\ irq' = FALSE
    /\ thre' = FALSE
    /\ status' = "IDLE"
    /\ isr' = "fill" /\ isr_i' = 0
    /\ UNCHANGED <<queue, blocked, threads, fifo, sent, accepted>>

(* serial_isr, default: a byte was written after the request was latched,  *)
(* so IIR shows nothing.                                                   *)
serial_isr_bad ==
    /\ Deliverable /\ ~thre
    /\ irq' = FALSE
    /\ PROC_unblock_head
    /\ UNCHANGED <<queue, status, cpu, block, left, i, ints, isr, isr_i,
                   fifo, thre, sent, accepted>>

isr_hand_over ==
    /\ isr = "fill" /\ CanHand(isr_i)
    /\ queue' = Tail(queue)
    /\ TX_byte(Head(queue))
    /\ isr_i' = isr_i + 1
    /\ UNCHANGED <<status, blocked, threads, isr, accepted>>

(* Slips: the end of the handler forgets the sleeping writer, or BUSY. *)
isr_end_no_wakeup ==
    /\ isr = "fill" /\ ~CanHand(isr_i)
    /\ status' = IF isr_i > 0 THEN "BUSY" ELSE status
    /\ isr' = "off" /\ isr_i' = 0
    /\ UNCHANGED <<queue, blocked, threads, uart, accepted>>

isr_end_stays_idle ==
    /\ isr = "fill" /\ ~CanHand(isr_i)
    /\ PROC_unblock_head
    /\ isr' = "off" /\ isr_i' = 0
    /\ UNCHANGED <<queue, status, cpu, block, left, i, ints, uart, accepted>>

(* The end of init_hw_write in the handler, PROC_unblock_head and EOI. *)
isr_end ==
    /\ isr = "fill" /\ ~CanHand(isr_i)
    /\ status' = IF isr_i > 0 THEN "BUSY" ELSE status
    /\ PROC_unblock_head
    /\ isr' = "off" /\ isr_i' = 0
    /\ UNCHANGED <<queue, cpu, block, left, i, ints, uart, accepted>>

(* The UART sends a byte, at any time.  Empty, it raises the interrupt. *)
uart_send ==
    /\ fifo # << >>
    /\ sent' = Head(fifo)
    /\ fifo' = Tail(fifo)
    /\ thre' = (Len(fifo) = 1)
    /\ irq' = (irq \/ Len(fifo) = 1)
    /\ UNCHANGED <<driver, threads, isr, isr_i, accepted>>

-----------------------------------------------------------------------------
Inside(t) ==
    \/ producer_write(t)
    \/ buffer_was_full(t)
    \/ loop_done(t)
    \/ init_hw_write(t)
    \/ hand_over(t)
    \/ mark_busy(t)
    \/ wait_event(t)

Next ==
    \/ \E t \in Threads, n \in 0..MaxLen, b \in BOOLEAN : SER_call(t, n, b)
    \/ \E t \in Threads : Inside(t)
    \/ serial_isr
    \/ serial_isr_bad
    \/ isr_hand_over
    \/ isr_end
    \/ uart_send

(* The CPU goes on with a driver call and with a handler it has begun, and *)
(* the UART sends.  A request latched in the PIC is delivered although     *)
(* calls keep turning interrupts off: they come on between any two calls.  *)
(* Nobody has to print.                                                    *)
Fairness ==
    /\ \A t \in Threads : WF_vars(Inside(t))
    /\ SF_vars(serial_isr)
    /\ SF_vars(serial_isr_bad)
    /\ WF_vars(isr_hand_over)
    /\ WF_vars(isr_end)
    /\ WF_vars(uart_send)

Spec == Init /\ [][Next]_vars /\ Fairness

-----------------------------------------------------------------------------
(* init_hw_write: "We are either done or waiting for a TX empty            *)
(* interrupt".  BUSY means that such an interrupt is still to come, so     *)
(* that status = BUSY is never the last word.                              *)
WaitingForInterrupt == status = "BUSY" => fifo # << >> \/ (thre /\ irq)

(* The other half: when nobody is inside the driver, characters are left   *)
(* in the buffer only while the hardware is busy.                          *)
NothingStranded == cpu = None /\ isr = "off" /\ queue # << >> => status = "BUSY"

(* Strings may be cut short, but what was accepted stays in order: the     *)
(* UART and the buffer together hold exactly the characters after the last *)
(* one sent, none lost in the UART and none twice.                         *)
InOrder ==
    LET pending == fifo \o queue
    IN /\ \A k \in 1..Len(pending) : pending[k] = (sent + k) % Stamp
       /\ accepted = (sent + Len(pending)) % Stamp

(* A writer asleep in SER_writeb is woken. *)
WritersWoken == \A t \in Threads : pc[t] = "asleep" ~> pc[t] # "asleep"

(* Every accepted character reaches the wire, even if nobody prints again. *)
OutputDrains ==
    \A s \in Stamps : (\E k \in 1..Len(queue) : queue[k] = s) ~> (sent = s)
===============================================================================
