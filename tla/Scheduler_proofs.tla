--------------------------- MODULE Scheduler_proofs ---------------------------
(***************************************************************************)
(* The invariants of Scheduler for every set of threads and queues.        *)
(***************************************************************************)
EXTENDS Scheduler, ProcQueue_proofs

USE ProcQueueAssumption, OrigAssumption

LEMMA InitIInv == Init => IInv
<1> SUFFICES ASSUME Init PROVE IInv
  OBVIOUS
<1>1. TypeOK
  BY DEF Init, TypeOK, PROC_init_queue, Memories, ProcsOrNull
<1>2. \A q \in Queues : elems[q] = << >> /\ Len(elems[q]) = 0
  BY DEF Init
<1>3. \A p \in Procs : ~Queued(elems, p)
  BY <1>2 DEF Queued, Holds
<1>4. QueuesWellFormed
  BY <1>2 DEF Init, QueuesWellFormed, Spells, Represents, Disjoint, Unlinked,
              PROC_init_queue
<1>5. LiveThreadsQueued
  BY <1>3 DEF LiveThreadsQueued, Init
<1>6. CursorFollowsRunning /\ HaltOnlyWhenIdle /\ PhasesFit
  BY DEF Init, CursorFollowsRunning, HaltOnlyWhenIdle, PhasesFit
<1> QED
  BY <1>1, <1>4, <1>5, <1>6 DEF IInv

(* What a state predicate about the queues gives the lemmas of             *)
(* ProcQueue_proofs.                                                       *)
LEMMA QueueFacts ==
  ASSUME IInv
  PROVE  /\ mem \in Memories /\ elems \in Contents
         /\ Spells(mem, elems) /\ Disjoint(elems) /\ Unlinked(mem, elems)
         /\ current \in ProcsOrNull
         /\ current # NULL => Holds(elems[RunQ], current)
         /\ live \in SUBSET Procs
         /\ \A p \in Procs : p \in live <=> Queued(elems, p)
BY DEF IInv, TypeOK, QueuesWellFormed, LiveThreadsQueued, CursorFollowsRunning,
       Contents

(* Running PROC_reschedule on a well-formed memory puts a scheduled thread *)
(* under the cursor and on the CPU, or halts kmain on an empty run queue.  *)
LEMMA RescheduleFacts ==
  ASSUME NEW m \in Memories, NEW e \in Contents, NEW c \in ProcsOrNull,
         Spells(m, e), Disjoint(e), c # NULL => Holds(e[RunQ], c)
  PROVE  LET x == rr_next(m, c)
             y == IF x = NULL THEN Orig ELSE x
             ph == IF y = Orig THEN "hlt" ELSE "run"
         IN /\ x \in ProcsOrNull
            /\ x # NULL => Holds(e[RunQ], x) /\ Queued(e, x)
            /\ y \in ProcsOrNull \cup {Orig}
            /\ y \in Procs => x = y /\ ph = "run" /\ Queued(e, y)
            /\ y \notin Procs => x = NULL
            /\ ph = "hlt" => y = Orig /\ m.head[RunQ] = NULL
            /\ ph \in {"run", "hlt"}
<1> DEFINE x == rr_next(m, c)
<1>1. /\ x \in ProcsOrNull
      /\ x = NULL <=> m.head[RunQ] = NULL
      /\ x # NULL => Holds(e[RunQ], x)
  BY RrNextFacts
<1>2. x # NULL => Queued(e, x)
  BY <1>1 DEF Queued
<1> HIDE DEF x
<1> QED
  BY <1>1, <1>2 DEF ProcsOrNull, x

LEMMA CreateStep ==
  ASSUME IInv, NEW t \in Procs, PROC_create_kthread(t)
  PROVE  IInv'
<1> USE QueueFacts
<1>1. ~Queued(elems, t)
  BY DEF PROC_create_kthread
<1>2. mem' = append_proc(mem, t, RunQ) /\ elems' = [elems EXCEPT ![RunQ] = Append(@, t)]
  BY <1>1, KcallocFacts DEF PROC_create_kthread, sched_admit
<1>3. /\ mem' \in Memories /\ elems' \in Contents
      /\ Spells(mem', elems') /\ Disjoint(elems') /\ Unlinked(mem', elems')
      /\ \A x \in Procs : Queued(elems', x) <=> Queued(elems, x) \/ x = t
      /\ \A x \in Procs : Holds(elems[RunQ], x) => Holds(elems'[RunQ], x)
  BY <1>1, <1>2, AppendProc
<1>4. /\ UNCHANGED <<current, curr_proc, next_proc, phase, drain>>
      /\ phase = "run" /\ drain = NULL /\ live' = live \cup {t}
  BY DEF PROC_create_kthread, InKmain
<1>5. TypeOK'
  BY <1>3, <1>4 DEF TypeOK, IInv, Contents
<1>6. QueuesWellFormed'
  BY <1>3 DEF QueuesWellFormed
<1>7. LiveThreadsQueued'
  BY <1>3, <1>4 DEF LiveThreadsQueued
<1>8. CursorFollowsRunning'
  <2>1. current # NULL => current \in Procs
    BY DEF ProcsOrNull
  <2> QED
    BY <1>3, <1>4, <2>1 DEF CursorFollowsRunning, IInv
<1>9. HaltOnlyWhenIdle' /\ PhasesFit'
  BY <1>4 DEF HaltOnlyWhenIdle, PhasesFit, IInv
<1> QED
  BY <1>5, <1>6, <1>7, <1>8, <1>9 DEF IInv

LEMMA IdleStep ==
  ASSUME IInv, PROC_run_idle
  PROVE  IInv'
<1>1. /\ UNCHANGED <<mem, current, drain, live, elems>>
      /\ curr_proc' = Orig /\ next_proc' = Orig /\ phase' = "hlt"
      /\ drain = NULL /\ mem.head[RunQ] = NULL /\ curr_proc \notin Procs
  BY DEF PROC_run_idle, InKmain, are_procs_scheduled
<1>2. TypeOK' /\ QueuesWellFormed' /\ LiveThreadsQueued'
  BY <1>1 DEF IInv, TypeOK, QueuesWellFormed, LiveThreadsQueued
<1>3. CursorFollowsRunning' /\ HaltOnlyWhenIdle' /\ PhasesFit'
  BY <1>1 DEF IInv, CursorFollowsRunning, HaltOnlyWhenIdle, PhasesFit
<1> QED
  BY <1>2, <1>3 DEF IInv

(* PROC_run with work to do, and yield, only move the cursor. *)
LEMMA RescheduleStep ==
  ASSUME IInv, PROC_reschedule(mem, current), drain = NULL,
         UNCHANGED <<mem, drain, live, elems>>
  PROVE  IInv'
<1> USE QueueFacts
<1> DEFINE x == rr_next(mem, current)
           y == IF x = NULL THEN Orig ELSE x
           ph == IF y = Orig THEN "hlt" ELSE "run"
<1>1. current' = x /\ next_proc' = y /\ curr_proc' = y /\ phase' = ph
  BY DEF PROC_reschedule
<1>2. /\ x \in ProcsOrNull
      /\ x # NULL => Holds(elems[RunQ], x) /\ Queued(elems, x)
      /\ y \in ProcsOrNull \cup {Orig}
      /\ y \in Procs => x = y /\ ph = "run" /\ Queued(elems, y)
      /\ y \notin Procs => x = NULL
      /\ ph = "hlt" => y = Orig /\ mem.head[RunQ] = NULL
      /\ ph \in {"run", "hlt"}
  BY RescheduleFacts
<1> HIDE DEF x, y, ph
<1>3. TypeOK' /\ QueuesWellFormed' /\ LiveThreadsQueued'
  BY <1>1, <1>2 DEF IInv, TypeOK, QueuesWellFormed, LiveThreadsQueued
<1>4. CursorFollowsRunning' /\ HaltOnlyWhenIdle' /\ PhasesFit'
  BY <1>1, <1>2 DEF CursorFollowsRunning, HaltOnlyWhenIdle, PhasesFit
<1> QED
  BY <1>3, <1>4 DEF IInv

LEMMA BlockStep ==
  ASSUME IInv, NEW q \in WaitQueues, PROC_block_on(q)
  PROVE  IInv'
<1> USE QueueFacts
<1>1. /\ curr_proc \in Procs /\ current = curr_proc /\ curr_proc \in live
      /\ drain = NULL /\ Holds(elems[RunQ], curr_proc)
  BY DEF PROC_block_on, InThread, IInv, CursorFollowsRunning
<1>2. /\ current' = sched_remove_current(mem, curr_proc, curr_proc)
      /\ mem' = append_proc(sched_remove(mem, curr_proc), curr_proc, q)
      /\ elems' = [elems EXCEPT ![RunQ] = Without(@, curr_proc),
                                ![q] = Append(@, curr_proc)]
      /\ phase' = "yield" /\ UNCHANGED <<curr_proc, next_proc, drain, live>>
  BY <1>1 DEF PROC_block_on
<1>3. /\ mem' \in Memories /\ elems' \in Contents
      /\ Spells(mem', elems') /\ Disjoint(elems') /\ Unlinked(mem', elems')
      /\ \A x \in Procs : Queued(elems', x) <=> Queued(elems, x)
  BY <1>1, <1>2, BlockOn DEF WaitQueues
<1>4. /\ current' \in ProcsOrNull
      /\ current' # NULL => Holds(elems'[RunQ], current')
  <2>1. elems'[RunQ] = Without(elems[RunQ], curr_proc)
    BY <1>2 DEF WaitQueues, Contents
  <2> QED
    BY <1>1, <1>2, <2>1, CursorStepsBack
<1>5. TypeOK'
  BY <1>2, <1>3, <1>4 DEF TypeOK, IInv, Contents
<1>6. QueuesWellFormed' /\ LiveThreadsQueued'
  BY <1>2, <1>3 DEF QueuesWellFormed, LiveThreadsQueued
<1>7. CursorFollowsRunning' /\ HaltOnlyWhenIdle' /\ PhasesFit'
  BY <1>1, <1>2, <1>4
     DEF CursorFollowsRunning, HaltOnlyWhenIdle, PhasesFit, IInv
<1> QED
  BY <1>5, <1>6, <1>7 DEF IInv

LEMMA ExitStep ==
  ASSUME IInv, kexit_isr
  PROVE  IInv'
<1> USE QueueFacts
<1> DEFINE c == sched_remove_current(mem, curr_proc, curr_proc)
           x == rr_next(mem', c)
           y == IF x = NULL THEN Orig ELSE x
           ph == IF y = Orig THEN "hlt" ELSE "run"
<1>1. /\ curr_proc \in Procs /\ current = curr_proc /\ curr_proc \in live
      /\ drain = NULL /\ Holds(elems[RunQ], curr_proc)
  BY DEF kexit_isr, InThread, IInv, CursorFollowsRunning
<1>2. /\ mem' = remove_proc(mem, curr_proc, RunQ)
      /\ elems' = [elems EXCEPT ![RunQ] = Without(@, curr_proc)]
      /\ live' = live \ {curr_proc} /\ drain' = drain
      /\ current' = x /\ next_proc' = y /\ curr_proc' = y /\ phase' = ph
  BY <1>1 DEF kexit_isr, PROC_reschedule, sched_remove
<1>3. /\ mem' \in Memories /\ elems' \in Contents
      /\ Spells(mem', elems') /\ Disjoint(elems') /\ Unlinked(mem', elems')
      /\ \A z \in Procs : Queued(elems', z) <=> Queued(elems, z) /\ z # curr_proc
  BY <1>1, <1>2, RemoveProc
<1>4. c \in ProcsOrNull /\ (c # NULL => Holds(elems'[RunQ], c))
  <2>1. elems'[RunQ] = Without(elems[RunQ], curr_proc)
    BY <1>2 DEF Contents
  <2> QED
    BY <1>1, <2>1, CursorStepsBack
<1>5. /\ x \in ProcsOrNull
      /\ x # NULL => Holds(elems'[RunQ], x) /\ Queued(elems', x)
      /\ y \in ProcsOrNull \cup {Orig}
      /\ y \in Procs => x = y /\ ph = "run" /\ Queued(elems', y)
      /\ y \notin Procs => x = NULL
      /\ ph = "hlt" => y = Orig /\ mem'.head[RunQ] = NULL
      /\ ph \in {"run", "hlt"}
  BY <1>3, <1>4, RescheduleFacts
<1> HIDE DEF c, x, y, ph
<1>6. TypeOK'
  BY <1>1, <1>2, <1>3, <1>5 DEF TypeOK, IInv, Contents
<1>7. QueuesWellFormed' /\ LiveThreadsQueued'
  BY <1>2, <1>3 DEF QueuesWellFormed, LiveThreadsQueued
<1>8. \A z \in Procs : Queued(elems', z) => z \in live'
  BY <1>2, <1>3
<1>9. CursorFollowsRunning' /\ HaltOnlyWhenIdle' /\ PhasesFit'
  BY <1>1, <1>2, <1>5, <1>8 DEF CursorFollowsRunning, HaltOnlyWhenIdle, PhasesFit
<1> QED
  BY <1>6, <1>7, <1>9 DEF IInv

(* PROC_unblock_head and a turn of PROC_unblock_all move one thread. *)
LEMMA WakeStep ==
  ASSUME IInv, NEW q \in WaitQueues, mem.head[q] # NULL,
         mem' = unblock_head(mem, q), Wakes(q),
         UNCHANGED <<current, curr_proc, next_proc, drain, live>>,
         phase' = (IF phase = "hlt" THEN "run" ELSE phase)
  PROVE  IInv'
<1> USE QueueFacts
<1>1. /\ mem' \in Memories /\ elems' \in Contents
      /\ Spells(mem', elems') /\ Disjoint(elems') /\ Unlinked(mem', elems')
      /\ \A x \in Procs : Queued(elems', x) <=> Queued(elems, x)
      /\ \A x \in Procs : Holds(elems[RunQ], x) => Holds(elems'[RunQ], x)
  BY UnblockHead DEF Wakes, WaitQueues
<1>2. TypeOK'
  BY <1>1 DEF TypeOK, IInv, Contents
<1>3. QueuesWellFormed' /\ LiveThreadsQueued'
  BY <1>1 DEF QueuesWellFormed, LiveThreadsQueued
<1>4. phase = "hlt" => curr_proc \notin Procs
  BY DEF IInv, HaltOnlyWhenIdle
<1>5. CursorFollowsRunning'
  <2>1. current # NULL => current \in Procs
    BY DEF ProcsOrNull
  <2> QED
    BY <1>1, <1>4, <2>1 DEF CursorFollowsRunning, IInv
<1>6. HaltOnlyWhenIdle' /\ PhasesFit'
  BY DEF HaltOnlyWhenIdle, PhasesFit, IInv
<1> QED
  BY <1>2, <1>3, <1>5, <1>6 DEF IInv

(* A step that only ends kmain's hlt, or starts or ends PROC_unblock_all. *)
LEMMA QuietStep ==
  ASSUME IInv, UNCHANGED <<mem, current, curr_proc, next_proc, live, elems>>,
         drain' \in WaitQueues \cup {NULL},
         \/ phase' = "run" /\ phase = "hlt"
         \/ phase' = phase /\ (drain' # NULL => phase # "hlt")
  PROVE  IInv'
<1>1. TypeOK' /\ QueuesWellFormed' /\ LiveThreadsQueued'
  BY DEF IInv, TypeOK, QueuesWellFormed, LiveThreadsQueued
<1>2. CursorFollowsRunning' /\ HaltOnlyWhenIdle' /\ PhasesFit'
  BY DEF IInv, CursorFollowsRunning, HaltOnlyWhenIdle, PhasesFit
<1> QED
  BY <1>1, <1>2 DEF IInv

LEMMA NextIInv == IInv /\ [Next]_vars => IInv'
<1> SUFFICES ASSUME IInv, [Next]_vars PROVE IInv'
  OBVIOUS
<1>1. ASSUME NEW t \in Procs, PROC_create_kthread(t) PROVE IInv'
  BY <1>1, CreateStep
<1>2. CASE PROC_run_idle
  BY <1>2, IdleStep
<1>3. CASE PROC_run_yield
  BY <1>3, RescheduleStep DEF PROC_run_yield, InKmain
<1>4. CASE yield_sys_call
  BY <1>4, RescheduleStep DEF yield_sys_call, InThread
<1>5. ASSUME NEW q \in WaitQueues, PROC_block_on(q) PROVE IInv'
  BY <1>5, BlockStep
<1>6. CASE kexit_isr
  BY <1>6, ExitStep
<1>7. ASSUME NEW q \in WaitQueues, PROC_unblock_head(q) PROVE IInv'
  BY <1>7, WakeStep DEF PROC_unblock_head
<1>8. CASE OtherInterrupt
  BY <1>8, QuietStep DEF OtherInterrupt
<1>9. ASSUME NEW q \in WaitQueues, PROC_unblock_all(q) PROVE IInv'
  BY <1>9, QuietStep DEF PROC_unblock_all
<1>10. CASE unblock_all_turn
  <2>1. drain \in WaitQueues /\ phase # "hlt"
    BY <1>10 DEF unblock_all_turn, IInv, TypeOK, PhasesFit
  <2>2. CASE mem.head[drain] = NULL
    BY <1>10, <2>1, <2>2, QuietStep DEF unblock_all_turn
  <2>3. CASE mem.head[drain] # NULL
    BY <1>10, <2>1, <2>3, WakeStep DEF unblock_all_turn
  <2> QED
    BY <2>2, <2>3
<1>11. CASE UNCHANGED vars
  BY <1>11, QuietStep DEF vars, IInv, TypeOK, PhasesFit
<1> QED
  BY <1>1, <1>2, <1>3, <1>4, <1>5, <1>6, <1>7, <1>8, <1>9, <1>10, <1>11 DEF Next

(* The conjunction of all invariants holds in every reachable state. *)
THEOREM Inductive == Spec => []IInv
BY InitIInv, NextIInv, PTL DEF Spec

(* Every variable of the scheduler keeps its type. *)
THEOREM TypeCorrect == Spec => []TypeOK
<1>1. IInv => TypeOK
  BY DEF IInv
<1> QED
  BY Inductive, <1>1, PTL

(* remove_proc, append_proc and pop_proc, called as proc.c calls them,     *)
(* keep every list intact although run and wait queues share their links.  *)
THEOREM QueuesStayWellFormed == Spec => []QueuesWellFormed
<1>1. IInv => QueuesWellFormed
  BY DEF IInv
<1> QED
  BY Inductive, <1>1, PTL

(* No thread is lost by blocking, waking or exiting, and none is queued    *)
(* after kexit_isr has freed it.                                           *)
THEOREM ThreadsNeverLost == Spec => []LiveThreadsQueued
<1>1. IInv => LiveThreadsQueued
  BY DEF IInv
<1> QED
  BY Inductive, <1>1, PTL

(* The scheduler's cursor and the CPU agree. *)
THEOREM CursorIsRunning == Spec => []CursorFollowsRunning
<1>1. IInv => CursorFollowsRunning
  BY DEF IInv
<1> QED
  BY Inductive, <1>1, PTL

(* kmain never sleeps on a runnable thread when the switch is atomic. *)
THEOREM HaltsOnlyWhenIdle == Spec => []HaltOnlyWhenIdle
<1>1. IInv => HaltOnlyWhenIdle
  BY DEF IInv
<1> QED
  BY Inductive, <1>1, PTL

-----------------------------------------------------------------------------
(* Refinement: the pointer structure implements RoundRobin. *)

Running(c) == IF c \in Procs THEN c ELSE Orig

Waiting(e) == [q \in WaitQueues |-> e[q]]

LEMMA PositionIs ==
  ASSUME NEW e \in Contents, Disjoint(e), NEW q \in Queues,
         NEW i \in 1..Len(e[q])
  PROVE  Position(e[q], e[q][i]) = i
<1>1. \A i1, i2 \in 1..Len(e[q]) : e[q][i1] = e[q][i2] => i1 = i2
  BY DEF Disjoint
<1>2. e[q] \in Seq(Procs) /\ Holds(e[q], e[q][i])
  BY DEF Contents, Holds
<1>3. /\ Position(e[q], e[q][i]) \in 1..Len(e[q])
      /\ e[q][Position(e[q], e[q][i])] = e[q][i]
  BY <1>2, PositionFacts
<1> QED
  BY <1>1, <1>3

(* Appending to the run queue does not move the cursor. *)
LEMMA AppendKeepsCursor ==
  ASSUME NEW e \in Contents, NEW f \in Contents, Disjoint(e), Disjoint(f),
         NEW p \in Procs, f[RunQ] = Append(e[RunQ], p),
         NEW c \in ProcsOrNull, c # NULL => Holds(e[RunQ], c)
  PROVE  CursorAt(f[RunQ], c) = CursorAt(e[RunQ], c)
<1>1. CASE c = NULL
  BY <1>1 DEF CursorAt
<1>2. CASE c # NULL
  <2>1. PICK i \in 1..Len(e[RunQ]) : e[RunQ][i] = c
    BY <1>2 DEF Holds
  <2>2. e[RunQ] \in Seq(Procs)
    BY DEF Contents
  <2>3. i \in 1..Len(f[RunQ]) /\ f[RunQ][i] = c
    BY <2>1, <2>2
  <2>4. Position(e[RunQ], c) = i /\ Position(f[RunQ], c) = i
    BY <2>1, <2>3, PositionIs
  <2> QED
    BY <1>2, <2>4 DEF CursorAt
<1> QED
  BY <1>1, <1>2

LEMMA InitRefines == Init => RR!RRInit
BY DEF Init, RR!RRInit, CursorAt, WaitQueues

LEMMA CreateRefines ==
  ASSUME IInv, IInv', NEW t \in Procs, PROC_create_kthread(t)
  PROVE  RR!Admit(t)
<1>1. ~Queued(elems, t)
  BY QueueFacts DEF PROC_create_kthread
<1>2. ~RR!Occurs(elems[RunQ], t) /\ \A q \in WaitQueues : ~RR!Occurs(Waiting(elems)[q], t)
  BY <1>1 DEF Queued, Holds, RR!Occurs, WaitQueues, Waiting
<1>3. /\ elems' = [elems EXCEPT ![RunQ] = Append(@, t)]
      /\ UNCHANGED <<current, curr_proc>>
  BY DEF PROC_create_kthread
<1>4. elems \in Contents /\ elems' \in Contents /\ Disjoint(elems) /\ Disjoint(elems')
  BY QueueFacts DEF IInv, TypeOK, QueuesWellFormed, Contents
<1>5. elems'[RunQ] = Append(elems[RunQ], t) /\ \A q \in WaitQueues : elems'[q] = elems[q]
  BY <1>3, <1>4 DEF Contents, WaitQueues
<1>6. CursorAt(elems'[RunQ], current') = CursorAt(elems[RunQ], current)
  BY <1>3, <1>4, <1>5, AppendKeepsCursor, QueueFacts
<1> QED
  BY <1>2, <1>3, <1>5, <1>6 DEF RR!Admit, Waiting

(* rr_next and CONTEXT_SWITCH are the abstract pick. *)
LEMMA PickRefines ==
  ASSUME IInv, PROC_reschedule(mem, current), UNCHANGED elems
  PROVE  RR!Pick
<1> USE QueueFacts
<1> DEFINE s == elems[RunQ]
           x == rr_next(mem, current)
           t == TurnAfter(s, CursorAt(s, current))
<1>1. /\ x \in ProcsOrNull
      /\ x = NULL <=> Len(s) = 0
      /\ x # NULL => t \in 1..Len(s) /\ x = s[t] /\ Position(s, x) = t
  BY RrNextFacts
<1>2. current' = x /\ curr_proc' = IF x = NULL THEN Orig ELSE x
  BY DEF PROC_reschedule
<1>3. RR!Turn(s, CursorAt(s, current)) = t
  BY DEF RR!Turn, TurnAfter
<1> HIDE DEF s, x, t
<1>4. CursorAt(s, current') = t /\ (x = NULL => t = 0) /\ (x # NULL => t # 0)
  BY <1>1, <1>2 DEF CursorAt, TurnAfter, t
<1>5. Running(curr_proc') = IF t = 0 THEN Orig ELSE s[t]
  BY <1>1, <1>2, <1>4 DEF Running, ProcsOrNull
<1> QED
  BY <1>3, <1>4, <1>5 DEF RR!Pick, RR!PickFrom, Running, s

(* The thread that calls PROC_block_on or kexit stands under the cursor. *)
LEMMA OnCursorFacts ==
  ASSUME IInv, InThread, phase = "run"
  PROVE  /\ RR!OnCursor /\ current = curr_proc /\ curr_proc \in Procs
         /\ Holds(elems[RunQ], curr_proc)
         /\ CursorAt(elems[RunQ], current) = Position(elems[RunQ], curr_proc)
         /\ RR!RemoveAt(elems[RunQ], CursorAt(elems[RunQ], current))
              = Without(elems[RunQ], curr_proc)
<1> USE QueueFacts
<1>1. /\ current = curr_proc /\ curr_proc \in Procs /\ curr_proc # NULL
      /\ Holds(elems[RunQ], curr_proc) /\ elems[RunQ] \in Seq(Procs)
  BY DEF IInv, CursorFollowsRunning, InThread, Contents
<1>2. CursorAt(elems[RunQ], current) = Position(elems[RunQ], curr_proc)
  BY <1>1 DEF CursorAt
<1>3. /\ Position(elems[RunQ], curr_proc) \in 1..Len(elems[RunQ])
      /\ elems[RunQ][Position(elems[RunQ], curr_proc)] = curr_proc
  BY <1>1, PositionFacts
<1>4. RR!OnCursor
  BY <1>1, <1>2, <1>3 DEF RR!OnCursor
<1> QED
  BY <1>1, <1>2, <1>4 DEF RR!RemoveAt, Without, DropAt

(* The cursor after sched_remove, as a position: one less. *)
LEMMA CursorStepsBackByOne ==
  ASSUME NEW m \in Memories, NEW e \in Contents, NEW p \in Procs,
         Spells(m, e), Disjoint(e), Holds(e[RunQ], p)
  PROVE  CursorAt(Without(e[RunQ], p), sched_remove_current(m, p, p))
           = Position(e[RunQ], p) - 1
<1> DEFINE c == sched_remove_current(m, p, p)
           k == Position(e[RunQ], p)
           w == Without(e[RunQ], p)
<1>1. /\ k \in 1..Len(e[RunQ])
      /\ c = IF k = 1 THEN NULL ELSE e[RunQ][k - 1]
      /\ c # NULL => Position(w, c) = k - 1
  BY CursorStepsBack
<1>2. e[RunQ] \in Seq(Procs)
  BY DEF Contents
<1>3. k # 1 => c # NULL
  BY <1>1, <1>2
<1> HIDE DEF c, k, w
<1>4. CursorAt(w, c) = k - 1
  BY <1>1, <1>3 DEF CursorAt
<1> QED
  BY <1>4 DEF c, k, w

LEMMA BlockRefines ==
  ASSUME IInv, NEW q \in WaitQueues, PROC_block_on(q)
  PROVE  RR!Block(q)
<1> USE QueueFacts
<1>1. /\ RR!OnCursor /\ current = curr_proc /\ curr_proc \in Procs
      /\ Holds(elems[RunQ], curr_proc)
      /\ CursorAt(elems[RunQ], current) = Position(elems[RunQ], curr_proc)
      /\ RR!RemoveAt(elems[RunQ], CursorAt(elems[RunQ], current))
           = Without(elems[RunQ], curr_proc)
  BY OnCursorFacts DEF PROC_block_on
<1>2. /\ current' = sched_remove_current(mem, curr_proc, curr_proc)
      /\ elems' = [elems EXCEPT ![RunQ] = Without(@, curr_proc),
                                ![q] = Append(@, curr_proc)]
      /\ curr_proc' = curr_proc
  BY <1>1 DEF PROC_block_on
<1>3. /\ elems'[RunQ] = Without(elems[RunQ], curr_proc)
      /\ elems'[q] = Append(elems[q], curr_proc)
      /\ \A r \in WaitQueues : r # q => elems'[r] = elems[r]
  BY <1>2 DEF WaitQueues, Contents
<1>4. CursorAt(elems'[RunQ], current') = CursorAt(elems[RunQ], current) - 1
  BY <1>1, <1>2, <1>3, CursorStepsBackByOne
<1>5. Waiting(elems)' = [Waiting(elems) EXCEPT ![q] = Append(@, Running(curr_proc))]
  BY <1>1, <1>3 DEF Waiting, Running
<1> QED
  BY <1>1, <1>2, <1>3, <1>4, <1>5 DEF RR!Block, Waiting, Running

LEMMA ExitRefines ==
  ASSUME IInv, IInv', kexit_isr
  PROVE  RR!Exit
<1> USE QueueFacts
<1> DEFINE c == sched_remove_current(mem, curr_proc, curr_proc)
           w == Without(elems[RunQ], curr_proc)
           x == rr_next(mem', c)
           t == TurnAfter(w, CursorAt(w, c))
<1>1. /\ RR!OnCursor /\ current = curr_proc /\ curr_proc \in Procs
      /\ Holds(elems[RunQ], curr_proc)
      /\ CursorAt(elems[RunQ], current) = Position(elems[RunQ], curr_proc)
      /\ RR!RemoveAt(elems[RunQ], CursorAt(elems[RunQ], current)) = w
  BY OnCursorFacts DEF kexit_isr
<1>2. /\ elems' = [elems EXCEPT ![RunQ] = w]
      /\ current' = x /\ curr_proc' = IF x = NULL THEN Orig ELSE x
  BY <1>1 DEF kexit_isr, PROC_reschedule
<1>3. elems'[RunQ] = w /\ \A r \in WaitQueues : elems'[r] = elems[r]
  BY <1>2 DEF WaitQueues, Contents
<1>4. /\ mem' \in Memories /\ elems' \in Contents
      /\ Spells(mem', elems') /\ Disjoint(elems')
  BY DEF IInv, TypeOK, QueuesWellFormed, Contents
<1>5. c \in ProcsOrNull /\ (c # NULL => Holds(elems'[RunQ], c))
  BY <1>1, <1>3, CursorStepsBack
<1>6. CursorAt(w, c) = CursorAt(elems[RunQ], current) - 1
  BY <1>1, CursorStepsBackByOne
<1>7. /\ x \in ProcsOrNull
      /\ x = NULL <=> Len(w) = 0
      /\ x # NULL => t \in 1..Len(w) /\ x = w[t] /\ Position(w, x) = t
  BY <1>3, <1>4, <1>5, RrNextFacts
<1>8. RR!Turn(w, CursorAt(w, c)) = t
  BY DEF RR!Turn, TurnAfter
<1> HIDE DEF c, w, x, t
<1>9. CursorAt(w, current') = t /\ (x = NULL => t = 0) /\ (x # NULL => t # 0)
  BY <1>2, <1>7 DEF CursorAt, TurnAfter, t
<1>10. Running(curr_proc') = IF t = 0 THEN Orig ELSE w[t]
  BY <1>2, <1>7, <1>9 DEF Running, ProcsOrNull
<1> QED
  BY <1>1, <1>3, <1>6, <1>8, <1>9, <1>10 DEF RR!Exit, RR!PickFrom, Running

LEMMA WakeRefines ==
  ASSUME IInv, IInv', NEW q \in WaitQueues, mem.head[q] # NULL, Wakes(q),
         UNCHANGED <<current, curr_proc>>
  PROVE  RR!Wake(q)
<1> USE QueueFacts
<1>1. elems[q] # << >> /\ Head(elems[q]) \in Procs
  BY PopIsRemove DEF WaitQueues
<1>2. /\ elems'[RunQ] = Append(elems[RunQ], Head(elems[q]))
      /\ elems'[q] = Tail(elems[q])
      /\ \A r \in WaitQueues : r # q => elems'[r] = elems[r]
  BY DEF Wakes, WaitQueues, Contents
<1>3. elems' \in Contents /\ Disjoint(elems')
  BY DEF IInv, TypeOK, QueuesWellFormed, Contents
<1>4. CursorAt(elems'[RunQ], current) = CursorAt(elems[RunQ], current)
  BY <1>1, <1>2, <1>3, AppendKeepsCursor
<1>5. Waiting(elems)' = [Waiting(elems) EXCEPT ![q] = Tail(@)]
  BY <1>2 DEF Waiting
<1> QED
  BY <1>1, <1>2, <1>4, <1>5 DEF RR!Wake, Waiting

LEMMA StepRefines == IInv /\ IInv' /\ [Next]_vars => [RR!RRNext]_(RR!rrVars)
<1> SUFFICES ASSUME IInv, IInv', [Next]_vars
             PROVE  RR!RRNext \/ UNCHANGED RR!rrVars
  OBVIOUS
<1>1. ASSUME NEW t \in Procs, PROC_create_kthread(t) PROVE RR!RRNext
  BY <1>1, CreateRefines DEF RR!RRNext
<1>2. CASE PROC_run_idle
  BY <1>2 DEF PROC_run_idle, InKmain, RR!rrVars
<1>3. CASE PROC_run_yield
  BY <1>3, PickRefines DEF PROC_run_yield, RR!RRNext
<1>4. CASE yield_sys_call
  BY <1>4, PickRefines DEF yield_sys_call, RR!RRNext
<1>5. ASSUME NEW q \in WaitQueues, PROC_block_on(q) PROVE RR!RRNext
  BY <1>5, BlockRefines DEF RR!RRNext
<1>6. CASE kexit_isr
  BY <1>6, ExitRefines DEF RR!RRNext
<1>7. ASSUME NEW q \in WaitQueues, PROC_unblock_head(q) PROVE RR!RRNext
  BY <1>7, WakeRefines DEF PROC_unblock_head, RR!RRNext
<1>8. CASE OtherInterrupt
  BY <1>8 DEF OtherInterrupt, RR!rrVars
<1>9. ASSUME NEW q \in WaitQueues, PROC_unblock_all(q) PROVE UNCHANGED RR!rrVars
  BY <1>9 DEF PROC_unblock_all, RR!rrVars
<1>10. CASE unblock_all_turn
  <2>1. drain \in WaitQueues
    BY <1>10 DEF unblock_all_turn, IInv, TypeOK
  <2>2. CASE mem.head[drain] = NULL
    BY <1>10, <2>2 DEF unblock_all_turn, RR!rrVars
  <2>3. CASE mem.head[drain] # NULL
    BY <1>10, <2>1, <2>3, WakeRefines DEF unblock_all_turn, RR!RRNext
  <2> QED
    BY <2>2, <2>3
<1>11. CASE UNCHANGED vars
  BY <1>11 DEF vars, RR!rrVars
<1> QED
  BY <1>1, <1>2, <1>3, <1>4, <1>5, <1>6, <1>7, <1>8, <1>9, <1>10, <1>11 DEF Next

(* The linked lists with their cursor implement the round-robin ring: a    *)
(* thread that blocks or exits never changes whose turn is next.           *)
THEOREM Refinement == Spec => ImplementsRoundRobin
BY Inductive, InitRefines, StepRefines, PTL DEF Spec, ImplementsRoundRobin, RR!RRSpec
==============================================================================
