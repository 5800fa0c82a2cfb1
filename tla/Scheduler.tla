------------------------------ MODULE Scheduler ------------------------------
(***************************************************************************)
(* Thread management of proc/proc.c over the queues of ProcQueue, with the *)
(* region from PROC_reschedule to the end of CONTEXT_SWITCH taken as one   *)
(* step: these are the executions in which no device interrupt arrives     *)
(* between yield_sys_call's STI and the iretq.  Proc.tla opens that        *)
(* window.  Device interrupts arrive anywhere else, in particular between  *)
(* the two halves of PROC_block_on.                                        *)
(***************************************************************************)
EXTENDS ProcQueue

CONSTANT Orig       \* &orig_proc, the context of kmain

ASSUME OrigAssumption == Orig \notin Procs /\ Orig # NULL

VARIABLES
    mem,        \* links, heads and tails of all queues
    current,    \* scheduler.c: cursor of the round robin
    curr_proc,  \* proc.c: the process on the CPU (NULL until the first PROC_run)
    next_proc,  \* proc.c: the process CONTEXT_SWITCH will run
    phase,      \* where the running context is
    drain,      \* the queue PROC_unblock_all is emptying, or NULL
    live,       \* allocated process_t blocks
    elems       \* history: the threads of each queue, in order

vars == <<mem, current, curr_proc, next_proc, phase, drain, live, elems>>

WaitQueues == Queues \ {RunQ}

TypeOK ==
    /\ mem \in Memories
    /\ current \in ProcsOrNull
    /\ curr_proc \in ProcsOrNull \cup {Orig}
    /\ next_proc \in ProcsOrNull \cup {Orig}
    /\ phase \in {"run", "yield", "hlt"}
    /\ drain \in WaitQueues \cup {NULL}
    /\ live \in SUBSET Procs
    /\ elems \in [Queues -> Seq(Procs)]

Init ==
    /\ mem = PROC_init_queue
    /\ current = NULL
    /\ curr_proc = NULL
    /\ next_proc = NULL
    /\ phase = "run"
    /\ drain = NULL
    /\ live = {}
    /\ elems = [q \in Queues |-> << >>]

(* A slip: the fallback to orig_proc is written to the cursor as well. *)
PROC_reschedule_stores_orig(m, c) ==
    LET picked == rr_next(m, c)
        chosen == IF picked = NULL THEN Orig ELSE picked
    IN /\ current' = chosen
       /\ next_proc' = chosen
       /\ curr_proc' = chosen
       /\ phase' = IF chosen = Orig THEN "hlt" ELSE "run"

(* PROC_reschedule on memory m with cursor c, then CONTEXT_SWITCH.  A      *)
(* thread resumes after its yield; kmain resumes behind PROC_run, where    *)
(* STI and hlt are one step (STI takes effect after the next instruction). *)
PROC_reschedule(m, c) ==
    LET picked == rr_next(m, c)
        chosen == IF picked = NULL THEN Orig ELSE picked
    IN /\ current' = picked
       /\ next_proc' = chosen
       /\ curr_proc' = chosen
       /\ phase' = IF chosen = Orig THEN "hlt" ELSE "run"

InThread == drain = NULL /\ curr_proc \in Procs
InKmain  == drain = NULL /\ curr_proc \notin Procs

-----------------------------------------------------------------------------
(* PROC_create_kthread, called from kmain only: kcalloc, then sched_admit. *)
PROC_create_kthread(t) ==
    /\ InKmain /\ phase = "run"
    /\ t \notin live
    /\ live' = live \cup {t}
    /\ mem' = sched_admit(kcalloc(mem, t), t)
    /\ elems' = [elems EXCEPT ![RunQ] = Append(@, t)]
    /\ UNCHANGED <<current, curr_proc, next_proc, phase, drain>>

(* PROC_run with nothing scheduled: kmain goes on to STI; hlt. *)
PROC_run_idle ==
    /\ InKmain /\ phase = "run"
    /\ ~are_procs_scheduled(mem)
    /\ curr_proc' = Orig
    /\ next_proc' = Orig
    /\ phase' = "hlt"
    /\ UNCHANGED <<mem, current, drain, live, elems>>

(* PROC_run with threads scheduled: it yields to one of them. *)
PROC_run_yield ==
    /\ InKmain /\ phase = "run"
    /\ are_procs_scheduled(mem)
    /\ PROC_reschedule(mem, current)
    /\ UNCHANGED <<mem, drain, live, elems>>

(* yield() of a thread, on its own account or at the end of PROC_block_on. *)
yield_sys_call ==
    /\ InThread /\ phase \in {"run", "yield"}
    /\ PROC_reschedule(mem, current)
    /\ UNCHANGED <<mem, drain, live, elems>>

(* A slip: the thread joins the wait queue before it leaves the run queue. *)
PROC_block_on_swapped(q) ==
    /\ InThread /\ phase = "run"
    /\ current' = sched_remove_current(mem, current, curr_proc)
    /\ mem' = sched_remove(append_proc(mem, curr_proc, q), curr_proc)
    /\ phase' = "yield"
    /\ elems' = [elems EXCEPT ![RunQ] = Without(@, curr_proc),
                              ![q] = Append(@, curr_proc)]
    /\ UNCHANGED <<curr_proc, next_proc, drain, live>>

(* PROC_block_on up to its STI, run with interrupts off: the thread leaves *)
(* the run queue, joins the wait queue, and has yet to yield.              *)
PROC_block_on(q) ==
    /\ InThread /\ phase = "run"
    /\ current' = sched_remove_current(mem, current, curr_proc)
    /\ mem' = append_proc(sched_remove(mem, curr_proc), curr_proc, q)
    /\ phase' = "yield"
    /\ elems' = [elems EXCEPT ![RunQ] = Without(@, curr_proc),
                              ![q] = Append(@, curr_proc)]
    /\ UNCHANGED <<curr_proc, next_proc, drain, live>>

(* A slip: kexit_isr frees the thread without descheduling it. *)
kexit_isr_keeps_scheduled ==
    /\ InThread /\ phase = "run"
    /\ live' = live \ {curr_proc}
    /\ PROC_reschedule(mem, current)
    /\ UNCHANGED <<mem, drain, elems>>

(* kexit_isr: deschedule, free, reschedule, all with interrupts off. *)
kexit_isr ==
    /\ InThread /\ phase = "run"
    /\ mem' = sched_remove(mem, curr_proc)
    /\ live' = live \ {curr_proc}
    /\ elems' = [elems EXCEPT ![RunQ] = Without(@, curr_proc)]
    /\ PROC_reschedule(mem', sched_remove_current(mem, current, curr_proc))
    /\ UNCHANGED drain

-----------------------------------------------------------------------------
(* Device interrupts.  curr_proc = next_proc outside the switch, so the    *)
(* interrupt's own CONTEXT_SWITCH does nothing; kmain's hlt ends.          *)

Wakes(q) == elems' = [elems EXCEPT ![RunQ] = Append(@, Head(elems[q])),
                                   ![q] = Tail(@)]

(* PROC_unblock_head from a device's interrupt handler. *)
PROC_unblock_head(q) ==
    /\ drain = NULL
    /\ mem.head[q] # NULL
    /\ mem' = unblock_head(mem, q)
    /\ Wakes(q)
    /\ phase' = IF phase = "hlt" THEN "run" ELSE phase
    /\ UNCHANGED <<current, curr_proc, next_proc, drain, live>>

(* An interrupt that unblocks nobody (pop_proc finds an empty queue, or    *)
(* the handler does not touch one) still ends the hlt.                     *)
OtherInterrupt ==
    /\ drain = NULL
    /\ phase = "hlt"
    /\ phase' = "run"
    /\ UNCHANGED <<mem, current, curr_proc, next_proc, drain, live, elems>>

(* PROC_unblock_all: its loop runs with interrupts off, so nothing else    *)
(* happens until the queue is empty.  No caller exists in the kernel yet.  *)
PROC_unblock_all(q) ==
    /\ drain = NULL
    /\ mem.head[q] # NULL
    /\ drain' = q
    /\ phase' = IF phase = "hlt" THEN "run" ELSE phase
    /\ UNCHANGED <<mem, current, curr_proc, next_proc, live, elems>>

unblock_all_turn ==
    /\ drain # NULL
    /\ IF mem.head[drain] = NULL
         THEN drain' = NULL /\ UNCHANGED <<mem, elems>>
         ELSE mem' = unblock_head(mem, drain) /\ Wakes(drain) /\ UNCHANGED drain
    /\ UNCHANGED <<current, curr_proc, next_proc, phase, live>>

-----------------------------------------------------------------------------
Next ==
    \/ \E t \in Procs : PROC_create_kthread(t)
    \/ PROC_run_idle
    \/ PROC_run_yield
    \/ yield_sys_call
    \/ \E q \in WaitQueues : PROC_block_on(q)
    \/ kexit_isr
    \/ \E q \in WaitQueues : PROC_unblock_head(q)
    \/ OtherInterrupt
    \/ \E q \in WaitQueues : PROC_unblock_all(q)
    \/ unblock_all_turn

(* The CPU keeps executing kmain's loop and PROC_unblock_all's loop, and   *)
(* threads are cooperative: a running thread gives the CPU up eventually.  *)
(* Nothing is assumed of interrupts, of blocking or of exiting.            *)
Fairness ==
    /\ WF_vars(PROC_run_yield)
    /\ WF_vars(yield_sys_call)
    /\ WF_vars(unblock_all_turn)

Spec == Init /\ [][Next]_vars
FairSpec == Spec /\ Fairness

-----------------------------------------------------------------------------
(* The links of proc_queue.c always spell out the intended queues: head,   *)
(* tail, next and prev of each queue agree with the order in which threads *)
(* were admitted and blocked, no thread is linked twice although run queue *)
(* and wait queues share the link fields, and a thread in no queue has the *)
(* NULL links append_proc counts on.                                       *)
QueuesWellFormed ==
    Spells(mem, elems) /\ Disjoint(elems) /\ Unlinked(mem, elems)

(* Exactly the allocated threads are queued: blocking, waking and exiting  *)
(* never lose a thread, and kexit_isr leaves no queue that reaches the     *)
(* freed process_t.                                                        *)
LiveThreadsQueued == \A p \in Procs : p \in live <=> Queued(elems, p)

(* The scheduler's cursor names a scheduled thread, and while a thread     *)
(* executes its own code the cursor stands on that thread (sched_remove's  *)
(* "thread == current" then holds for every caller); kmain runs only when  *)
(* the cursor is reset.                                                    *)
CursorFollowsRunning ==
    /\ current # NULL => Holds(elems[RunQ], current)
    /\ curr_proc \in Procs /\ phase = "run" => current = curr_proc
    /\ curr_proc \notin Procs => current = NULL
    /\ curr_proc = next_proc
    /\ curr_proc \in Procs => curr_proc \in live

(* kmain halts only when no thread is runnable: a thread made runnable     *)
(* while the last one was giving up the CPU is never slept on.             *)
HaltOnlyWhenIdle == phase = "hlt" => curr_proc = Orig /\ mem.head[RunQ] = NULL

(* Who can be in which phase: only a thread is ever between the halves of  *)
(* PROC_block_on, and PROC_unblock_all has ended the hlt it interrupted.   *)
PhasesFit ==
    /\ phase = "yield" => curr_proc \in Procs
    /\ drain # NULL => phase # "hlt"

(* The inductive invariant: everything above, together. *)
IInv ==
    /\ TypeOK
    /\ QueuesWellFormed
    /\ LiveThreadsQueued
    /\ CursorFollowsRunning
    /\ HaltOnlyWhenIdle
    /\ PhasesFit

(* The pointer structure implements the round-robin ring. *)
RR == INSTANCE RoundRobin WITH
        Threads    <- Procs,
        WaitQueues <- WaitQueues,
        Idle       <- Orig,
        ring       <- elems[RunQ],
        at         <- CursorAt(elems[RunQ], current),
        running    <- IF curr_proc \in Procs THEN curr_proc ELSE Orig,
        waiting    <- [q \in WaitQueues |-> elems[q]]

(* Picking with rr_next, stepping the cursor back in sched_remove and      *)
(* appending in sched_admit together behave as the ring of RoundRobin: a   *)
(* thread that blocks or exits never changes whose turn is next.           *)
ImplementsRoundRobin == RR!RRSpec

(* Once threads stop blocking, each scheduled thread gets the CPU, however *)
(* often the others exit and are created around it: rr_next wraps from the *)
(* tail to the head, and sched_remove's step back skips nobody.            *)
NoStarvation ==
    <>[](phase # "yield") =>
        \A p \in Procs : Holds(elems[RunQ], p) ~> (curr_proc = p)
==============================================================================
