--------------------------------- MODULE Proc ---------------------------------
(***************************************************************************)
(* proc/proc.c together with the CPU that runs it: the context switch of   *)
(* irq/isr_wrapper.asm taken apart, kmain's idle loop, the getc system     *)
(* call that blocks on the keyboard, and device interrupts.                *)
(*                                                                         *)
(* The system-call gate is a trap gate and yield_sys_call ends in STI, so  *)
(* CONTEXT_SWITCH at the end of a system call runs with interrupts ON.  An *)
(* interrupt there ends in a CONTEXT_SWITCH of its own (with interrupts    *)
(* off), which sees curr_proc # next_proc and performs the switch first.   *)
(* The interrupted one finishes when its thread is next resumed, with the  *)
(* rbx and rcx it had read before.                                         *)
(***************************************************************************)
EXTENDS ProcQueue, FiniteSets

CONSTANTS
    Orig,           \* &orig_proc
    KbdQ,           \* keyb.blocked
    BufCap,         \* characters keyb.circ_buff holds (BUFF_SIZE - 1)
    WindowOpen      \* interrupts arrive inside the switch, too

ASSUME ProcAssumption ==
    /\ Orig \notin Procs /\ Orig # NULL
    /\ Queues = {RunQ, KbdQ} /\ RunQ # KbdQ
    /\ BufCap \in Nat \ {0}
    /\ WindowOpen \in BOOLEAN

VARIABLES
    mem, current,           \* as in Scheduler
    curr_proc, next_proc,
    live,
    elems,                  \* history: the threads of each queue, in order
    cpu,                    \* the registers: whose code, where, return point, rcx, rbx
    ctx,                    \* regfile of each process_t
    kbd,                    \* characters in keyb.circ_buff
    underrun                \* consumer_read found nothing: getc returned garbage

vars == <<mem, current, curr_proc, next_proc, live, elems, cpu, ctx, kbd, underrun>>

Contexts == Procs \cup {Orig}
Window == {"cmp", "save", "load"}

(* Program points: kmain at the top of its loop or halted; a thread in its *)
(* own code, at the test of wait_event, behind PROC_block_on's STI, or in  *)
(* consumer_read; any system call inside CONTEXT_SWITCH; and "wild" once   *)
(* the CPU has loaded the context of a freed process.                      *)
Points == {"kmain", "hlt", "code", "getc", "yield", "read", "wild"} \cup Window

Registers == [self : Contexts, pc : Points, ret : Points,
              rcx : Contexts \cup {NULL}, rbx : Contexts \cup {NULL}]

At(p, pc) == [self |-> p, pc |-> pc, ret |-> pc, rcx |-> NULL, rbx |-> NULL]

TypeOK ==
    /\ mem \in Memories
    /\ current \in ProcsOrNull
    /\ curr_proc \in Contexts \cup {NULL}
    /\ next_proc \in Contexts \cup {NULL}
    /\ live \subseteq Procs
    /\ cpu \in Registers
    /\ ctx \in [Contexts -> Registers]
    /\ kbd \in 0..BufCap
    /\ underrun \in BOOLEAN

Init ==
    /\ mem = PROC_init_queue
    /\ current = NULL
    /\ curr_proc = NULL
    /\ next_proc = NULL
    /\ live = {}
    /\ elems = [q \in Queues |-> << >>]
    /\ cpu = At(Orig, "kmain")
    /\ ctx = [p \in Contexts |-> At(p, "code")]
    /\ kbd = 0
    /\ underrun = FALSE

(* The history's view of leaving and joining a queue. *)
Leave(e, p) == IF Holds(e[RunQ], p) THEN [e EXCEPT ![RunQ] = Without(@, p)] ELSE e
Join(e, p, q) == [e EXCEPT ![q] = Append(@, p)]

(* The registers after loading the context of p: nothing good can be said  *)
(* of a context that kexit_isr has freed.                                  *)
Loaded(c, p) == IF p \in live \cup {Orig} THEN c[p] ELSE At(p, "wild")

(* A slip: with nothing runnable, PROC_reschedule leaves next_proc alone   *)
(* instead of falling back on orig_proc.                                   *)
Reschedule_without_orig(r) ==
    LET picked == rr_next(mem, current)
    IN /\ current' = picked
       /\ next_proc' = IF picked = NULL THEN next_proc ELSE picked
       /\ cpu' = [cpu EXCEPT !.pc = "cmp", !.ret = r]

(* yield_sys_call between CLI and STI; the CPU is then in CONTEXT_SWITCH   *)
(* and will return to point r.                                             *)
Reschedule(r) ==
    LET picked == rr_next(mem, current)
    IN /\ current' = picked
       /\ next_proc' = IF picked = NULL THEN Orig ELSE picked
       /\ cpu' = [cpu EXCEPT !.pc = "cmp", !.ret = r]

-----------------------------------------------------------------------------
(* kmain creates its threads before its loop starts. *)
PROC_create_kthread(t) ==
    /\ cpu.pc = "kmain" /\ curr_proc = NULL
    /\ t \notin live
    /\ live' = live \cup {t}
    /\ mem' = sched_admit(kcalloc(mem, t), t)
    /\ elems' = Join(elems, t, RunQ)
    /\ ctx' = [ctx EXCEPT ![t] = At(t, "code")]
    /\ UNCHANGED <<current, curr_proc, next_proc, cpu, kbd, underrun>>

(* One turn of kmain's loop: CLI; PROC_run(); STI; hlt.  PROC_run returns  *)
(* at once, or yields and returns when kmain is next switched to.          *)
PROC_run ==
    /\ cpu.pc = "kmain"
    /\ curr_proc' = Orig
    /\ IF are_procs_scheduled(mem)
         THEN Reschedule("hlt")
         ELSE /\ cpu' = At(Orig, "hlt")
              /\ next_proc' = Orig
              /\ UNCHANGED current
    /\ UNCHANGED <<mem, live, elems, ctx, kbd, underrun>>

(* yield(): from a thread's own code, or the end of PROC_block_on. *)
yield_sys_call ==
    /\ cpu.pc \in {"code", "yield"}
    /\ Reschedule(IF cpu.pc = "yield" THEN "getc" ELSE "code")
    /\ UNCHANGED <<mem, curr_proc, live, elems, ctx, kbd, underrun>>

(* A slip: wait_event with "if" in place of "while". *)
wait_event_tests_once ==
    \/ /\ cpu.pc = "getc"
       /\ cpu' = [cpu EXCEPT !.pc = "read"]
       /\ UNCHANGED <<mem, current, elems, curr_proc, next_proc, live, ctx, kbd, underrun>>
    \/ /\ cpu.pc = "code"
       /\ IF kbd > 0
            THEN /\ cpu' = [cpu EXCEPT !.pc = "read"]
                 /\ UNCHANGED <<mem, current, elems>>
            ELSE /\ mem' = append_proc(sched_remove(mem, curr_proc), curr_proc, KbdQ)
                 /\ current' = sched_remove_current(mem, current, curr_proc)
                 /\ elems' = Join(Leave(elems, curr_proc), curr_proc, KbdQ)
                 /\ cpu' = [cpu EXCEPT !.pc = "yield"]
       /\ UNCHANGED <<curr_proc, next_proc, live, ctx, kbd, underrun>>

(* getc_sys_call: one turn of wait_event_interruptable's loop, with        *)
(* interrupts off.  On an empty buffer PROC_block_on moves curr_proc (not  *)
(* necessarily the thread whose code this is) to the wait queue and turns  *)
(* interrupts on; otherwise the loop ends in STI.                          *)
wait_event_interruptable ==
    /\ cpu.pc \in {"code", "getc"}
    /\ IF kbd > 0
         THEN /\ cpu' = [cpu EXCEPT !.pc = "read"]
              /\ UNCHANGED <<mem, current, elems>>
         ELSE /\ mem' = append_proc(sched_remove(mem, curr_proc), curr_proc, KbdQ)
              /\ current' = sched_remove_current(mem, current, curr_proc)
              /\ elems' = Join(Leave(elems, curr_proc), curr_proc, KbdQ)
              /\ cpu' = [cpu EXCEPT !.pc = "yield"]
    /\ UNCHANGED <<curr_proc, next_proc, live, ctx, kbd, underrun>>

(* getc_sys_call: consumer_read, then the CONTEXT_SWITCH that ends every   *)
(* system call.                                                            *)
getc_sys_call ==
    /\ cpu.pc = "read"
    /\ kbd' = IF kbd > 0 THEN kbd - 1 ELSE 0
    /\ underrun' = (underrun \/ kbd = 0)
    /\ cpu' = [cpu EXCEPT !.pc = "cmp", !.ret = "code"]
    /\ UNCHANGED <<mem, current, curr_proc, next_proc, live, elems, ctx>>

(* kexit: the gate is an interrupt gate, so deschedule, free, reschedule   *)
(* and the switch are one step.  The switch still saves registers into the *)
(* block just freed.                                                       *)
kexit_isr ==
    /\ cpu.pc = "code"
    /\ LET m == sched_remove(mem, curr_proc)
           picked == rr_next(m, sched_remove_current(mem, current, curr_proc))
           chosen == IF picked = NULL THEN Orig ELSE picked
       IN /\ mem' = m
          /\ current' = picked
          /\ next_proc' = chosen
          /\ curr_proc' = chosen
          /\ cpu' = IF chosen = curr_proc THEN cpu ELSE Loaded(ctx, chosen)
    /\ live' = live \ {curr_proc}
    /\ elems' = Leave(elems, curr_proc)
    /\ UNCHANGED <<ctx, kbd, underrun>>

-----------------------------------------------------------------------------
(* CONTEXT_SWITCH at the end of a system call, interrupts on. *)

(* mov rcx, [curr_proc]; mov rbx, [next_proc]; cmp; je .no_context_switch *)
switch_compare ==
    /\ cpu.pc = "cmp"
    /\ cpu' = IF curr_proc = next_proc
                THEN At(cpu.self, cpu.ret)
                ELSE [cpu EXCEPT !.pc = "save", !.rcx = curr_proc, !.rbx = next_proc]
    /\ UNCHANGED <<mem, current, curr_proc, next_proc, live, elems, ctx, kbd, underrun>>

(* A slip: curr_proc is not set to the process switched to. *)
switch_save_keeps_curr ==
    /\ cpu.pc = "save"
    /\ ctx' = [ctx EXCEPT ![cpu.rcx] = At(cpu.self, cpu.ret)]
    /\ cpu' = [cpu EXCEPT !.pc = "load"]
    /\ UNCHANGED <<mem, current, curr_proc, next_proc, live, elems, kbd, underrun>>

(* .save: the interrupted context goes to [rcx], curr_proc becomes rbx. *)
switch_save ==
    /\ cpu.pc = "save"
    /\ ctx' = [ctx EXCEPT ![cpu.rcx] = At(cpu.self, cpu.ret)]
    /\ curr_proc' = cpu.rbx
    /\ cpu' = [cpu EXCEPT !.pc = "load"]
    /\ UNCHANGED <<mem, current, next_proc, live, elems, kbd, underrun>>

(* .load and iretq, as one step: the first load is that of rip, and an     *)
(* interrupt behind it changes where the CPU goes only when curr_proc and  *)
(* next_proc already disagree.                                             *)
switch_load ==
    /\ cpu.pc = "load"
    /\ cpu' = Loaded(ctx, cpu.rbx)
    /\ UNCHANGED <<mem, current, curr_proc, next_proc, live, elems, ctx, kbd, underrun>>

-----------------------------------------------------------------------------
(* Interrupts may arrive: always outside CONTEXT_SWITCH, inside it only    *)
(* when the model opens the window.                                        *)
Interruptible == cpu.pc \in (IF WindowOpen THEN Points ELSE Points \ Window) \ {"wild"}

(* The interrupt's own CONTEXT_SWITCH, with interrupts off.  An interrupt  *)
(* ends the hlt, so the interrupted context continues at kmain's loop.     *)
InterruptReturn ==
    LET here == IF cpu.pc = "hlt" THEN At(Orig, "kmain") ELSE cpu
    IN IF curr_proc = next_proc
         THEN cpu' = here /\ UNCHANGED <<ctx, curr_proc>>
         ELSE /\ ctx' = [ctx EXCEPT ![curr_proc] = here]
              /\ curr_proc' = next_proc
              /\ cpu' = Loaded(ctx', next_proc)

(* Slips: the handler forgets the waiting reader, wakes it only for the    *)
(* first character, or writes past a full buffer.                          *)
keyboard_handler_no_wakeup ==
    /\ Interruptible
    /\ kbd' = IF kbd < BufCap THEN kbd + 1 ELSE kbd
    /\ InterruptReturn
    /\ UNCHANGED <<mem, elems, current, next_proc, live, underrun>>

keyboard_handler_wakes_when_empty ==
    /\ Interruptible
    /\ kbd' = IF kbd < BufCap THEN kbd + 1 ELSE kbd
    /\ IF kbd = 0 /\ elems[KbdQ] # << >>
         THEN /\ mem' = unblock_head(mem, KbdQ)
              /\ elems' = [elems EXCEPT ![RunQ] = Append(@, Head(elems[KbdQ])),
                                        ![KbdQ] = Tail(@)]
         ELSE UNCHANGED <<mem, elems>>
    /\ InterruptReturn
    /\ UNCHANGED <<current, next_proc, live, underrun>>

keyboard_handler_overflows ==
    /\ Interruptible
    /\ kbd' = kbd + 1
    /\ mem' = unblock_head(mem, KbdQ)
    /\ elems' = IF elems[KbdQ] = << >> THEN elems
                  ELSE [elems EXCEPT ![RunQ] = Append(@, Head(elems[KbdQ])),
                                     ![KbdQ] = Tail(@)]
    /\ InterruptReturn
    /\ UNCHANGED <<current, next_proc, live, underrun>>

(* keyboard_handler on a supported key: producer_write, which drops the    *)
(* character when the buffer is full, then PROC_unblock_head.              *)
keyboard_handler ==
    /\ Interruptible
    /\ kbd' = IF kbd < BufCap THEN kbd + 1 ELSE kbd
    /\ mem' = unblock_head(mem, KbdQ)
    /\ elems' = IF elems[KbdQ] = << >> THEN elems
                  ELSE [elems EXCEPT ![RunQ] = Append(@, Head(elems[KbdQ])),
                                     ![KbdQ] = Tail(@)]
    /\ InterruptReturn
    /\ UNCHANGED <<current, next_proc, live, underrun>>

(* Any other interrupt: a key without a character, a spurious line. *)
other_handler ==
    /\ Interruptible
    /\ InterruptReturn
    /\ UNCHANGED <<mem, current, next_proc, live, elems, kbd, underrun>>

-----------------------------------------------------------------------------
Next ==
    \/ \E t \in Procs : PROC_create_kthread(t)
    \/ PROC_run
    \/ yield_sys_call
    \/ wait_event_interruptable
    \/ getc_sys_call
    \/ kexit_isr
    \/ switch_compare
    \/ switch_save
    \/ switch_load
    \/ keyboard_handler
    \/ other_handler

(* The CPU does not stop: kmain's loop, a switch and a system call that    *)
(* have begun go on.  A thread that keeps returning to its own code yields *)
(* eventually (threads are cooperative).  Nothing is assumed of interrupts *)
(* and nobody has to call getc or kexit.                                   *)
Fairness ==
    /\ WF_vars(PROC_run)
    /\ SF_vars(yield_sys_call)
    /\ WF_vars(cpu.pc = "getc" /\ wait_event_interruptable)
    /\ WF_vars(getc_sys_call)
    /\ WF_vars(switch_compare)
    /\ WF_vars(switch_save)
    /\ WF_vars(switch_load)

Spec == Init /\ [][Next]_vars /\ Fairness

-----------------------------------------------------------------------------
InOwnCode == cpu.pc \in {"code", "getc", "read"}

(* Whose code the CPU will execute once it is out of CONTEXT_SWITCH, and   *)
(* which of the scheduler's phases that is.                                *)
SchedulerPhase ==
    IF cpu.pc \in Window THEN (IF next_proc = Orig THEN "hlt" ELSE "run")
    ELSE IF cpu.pc \in {"yield", "hlt"} THEN cpu.pc
    ELSE "run"

Sched == INSTANCE Scheduler WITH
           curr_proc <- next_proc,
           phase     <- SchedulerPhase,
           drain     <- NULL

(* When no interrupt arrives inside CONTEXT_SWITCH, the machine behaves as *)
(* Scheduler says: PROC_reschedule takes effect at once, each interrupt is *)
(* one wake-up, and what is proved of Scheduler holds of proc.c.           *)
ImplementsScheduler == Sched!Spec

(* yield_sys_call "passes control to the next eligible thread": the CPU    *)
(* only ever executes a thread that is on the run queue, that curr_proc    *)
(* names, and that has not been freed.                                     *)
ControlReachesEligible ==
    /\ cpu.pc # "wild"
    /\ InOwnCode => /\ cpu.self = curr_proc
                    /\ cpu.self \in live
                    /\ Holds(elems[RunQ], cpu.self)

(* kmain halts the CPU only when no thread is runnable. *)
HaltOnlyWhenIdle == cpu.pc = "hlt" => mem.head[RunQ] = NULL

(* consumer_read in getc always finds a character, although getc ignores   *)
(* its result and any number of readers compete for the buffer.            *)
NoUnderrun == ~underrun

(* Readers that the keyboard woke and that have not read yet. *)
Point(p) == IF cpu.self = p THEN cpu ELSE ctx[p]
Reading(p) == Point(p).pc \in {"getc", "yield", "read"} \/ Point(p).ret = "getc"
Woken == {i \in 1..Len(elems[RunQ]) : Reading(elems[RunQ][i])}

(* While somebody waits, there is a woken reader on the run queue for each *)
(* buffered character, even when running threads take characters from      *)
(* under the woken ones: no character is left without a reader.            *)
ReaderPerCharacter == elems[KbdQ] # << >> => kbd <= Cardinality(Woken)

(* A character never stays in the buffer while a reader stays blocked. *)
KeysAreServed == (kbd > 0 /\ elems[KbdQ] # << >>) ~> (kbd = 0 \/ elems[KbdQ] = << >>)
==============================================================================
