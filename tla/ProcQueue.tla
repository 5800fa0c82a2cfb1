------------------------------ MODULE ProcQueue ------------------------------
(***************************************************************************)
(* The doubly linked process queues of proc/proc_queue.c and the cursor    *)
(* of the round-robin scheduler in proc/scheduler.c.                       *)
(*                                                                         *)
(* A process_t has ONE next and ONE prev field, shared by the run queue    *)
(* and by every wait queue, so the links are functions of the process and  *)
(* only head and tail belong to a queue.  A memory is the record           *)
(*                                                                         *)
(*     [next, prev : process -> process or NULL,                           *)
(*      head, tail : queue   -> process or NULL]                           *)
(*                                                                         *)
(* and each C function is an operator from memories to memories.           *)
(***************************************************************************)
EXTENDS Integers, Sequences

CONSTANTS
    Procs,      \* addresses a process_t may have
    Queues,     \* proc_queue_t objects
    RunQ,       \* the scheduler's static queue
    NULL

ASSUME ProcQueueAssumption == NULL \notin Procs /\ RunQ \in Queues

ProcsOrNull == Procs \cup {NULL}

Memories == [next : [Procs -> ProcsOrNull], prev : [Procs -> ProcsOrNull],
             head : [Queues -> ProcsOrNull], tail : [Queues -> ProcsOrNull]]

(* PROC_init_queue on every queue, and no process allocated yet. *)
PROC_init_queue ==
    [next |-> [p \in Procs |-> NULL], prev |-> [p \in Procs |-> NULL],
     head |-> [q \in Queues |-> NULL], tail |-> [q \in Queues |-> NULL]]

(* kcalloc zeroes the block, so a new process has NULL links. *)
kcalloc(m, p) ==
    [next |-> [m.next EXCEPT ![p] = NULL], prev |-> [m.prev EXCEPT ![p] = NULL],
     head |-> m.head, tail |-> m.tail]

-----------------------------------------------------------------------------
(* Faulty variants, each one a slip the C code could contain.  They are    *)
(* substituted for the real operators to see that the properties notice.   *)

(* rr_next that only wraps when it has walked off the end of the list. *)
rr_next_walks_off(m, current) ==
    IF current = NULL THEN m.head[RunQ] ELSE m.next[current]

(* fifo_next of scheduler.c, the policy that runs a thread until it blocks *)
(* or exits; nothing calls it.                                             *)
fifo_next(m, current) == IF current = NULL THEN m.head[RunQ] ELSE current

(* sched_remove that rewinds the cursor to the head instead of to prev. *)
sched_remove_current_rewinds(m, current, thread) ==
    IF thread = current THEN NULL ELSE current

(* sched_remove that leaves the cursor on the removed thread. *)
sched_remove_current_stays(m, current, thread) == current

-----------------------------------------------------------------------------
(* remove_proc(proc, queue): prev and next are read into locals first, so  *)
(* the two final NULL stores win over the unlinking stores.                *)
remove_proc(m, p, q) ==
    LET prev == m.prev[p]
        next == m.next[p]
    IN [next |-> [x \in Procs |-> IF x = p THEN NULL
                                  ELSE IF x = prev THEN next ELSE m.next[x]],
        prev |-> [x \in Procs |-> IF x = p THEN NULL
                                  ELSE IF x = next THEN prev ELSE m.prev[x]],
        head |-> [m.head EXCEPT ![q] = IF @ = p THEN next ELSE @],
        tail |-> [m.tail EXCEPT ![q] = IF @ = p THEN prev ELSE @]]

(* append_proc(proc, queue): on an empty queue the process's own links are *)
(* not written; on any other queue proc->next is not written.  Both rely   *)
(* on the links of a process outside every queue being NULL.               *)
append_proc(m, p, q) ==
    IF m.head[q] = NULL
      THEN [next |-> m.next, prev |-> m.prev,
            head |-> [m.head EXCEPT ![q] = p], tail |-> [m.tail EXCEPT ![q] = p]]
      ELSE [next |-> [x \in Procs |-> IF x = m.tail[q] THEN p ELSE m.next[x]],
            prev |-> [m.prev EXCEPT ![p] = m.tail[q]],
            head |-> m.head,
            tail |-> [m.tail EXCEPT ![q] = p]]

(* pop_proc(queue) on a queue that is not empty: the memory it leaves; the *)
(* process it returns is m.head[q].  A single element resets head and      *)
(* tail, otherwise the second element becomes the head.                    *)
pop_proc(m, q) ==
    LET temp == m.head[q]
        last == m.head[q] = m.tail[q]
    IN [next |-> [m.next EXCEPT ![temp] = NULL],
        prev |-> [x \in Procs |-> IF x = temp \/ (~last /\ x = m.next[temp])
                                    THEN NULL ELSE m.prev[x]],
        head |-> [m.head EXCEPT ![q] = IF last THEN NULL ELSE m.next[temp]],
        tail |-> [m.tail EXCEPT ![q] = IF last THEN NULL ELSE @]]

(* sched_admit(thread). *)
sched_admit(m, thread) == append_proc(m, thread, RunQ)

(* sched_remove(thread): the cursor steps back to the predecessor, so that *)
(* the next rr_next lands on the successor; then the thread is unlinked.   *)
sched_remove_current(m, current, thread) ==
    IF thread = current THEN m.prev[thread] ELSE current

sched_remove(m, thread) == remove_proc(m, thread, RunQ)

(* rr_next(): the new cursor, which is also the thread returned. *)
rr_next(m, current) ==
    IF current = NULL \/ current = m.tail[RunQ]
      THEN m.head[RunQ]
      ELSE m.next[current]

(* are_procs_scheduled(). *)
are_procs_scheduled(m) == m.head[RunQ] # NULL

(* The body of PROC_unblock_head, and of one turn of PROC_unblock_all. *)
unblock_head(m, q) ==
    IF m.head[q] = NULL THEN m ELSE sched_admit(pop_proc(m, q), m.head[q])

-----------------------------------------------------------------------------
(* What a queue's links mean: the sequence s of processes it holds. *)
Represents(m, q, s) ==
    /\ m.head[q] = IF Len(s) = 0 THEN NULL ELSE s[1]
    /\ m.tail[q] = IF Len(s) = 0 THEN NULL ELSE s[Len(s)]
    /\ \A i \in 1..Len(s) :
         /\ m.next[s[i]] = IF i = Len(s) THEN NULL ELSE s[i + 1]
         /\ m.prev[s[i]] = IF i = 1 THEN NULL ELSE s[i - 1]

Holds(s, p) == \E i \in 1..Len(s) : s[i] = p

Position(s, p) == CHOOSE i \in 1..Len(s) : s[i] = p

Queued(e, p) == \E q \in Queues : Holds(e[q], p)

(* The memory m spells out the queues e, no process is linked twice        *)
(* although all queues share the link fields, and a process in no queue    *)
(* has the NULL links append_proc counts on.                               *)
Spells(m, e) == \A q \in Queues : Represents(m, q, e[q])

Disjoint(e) ==
    \A q1, q2 \in Queues : \A i \in 1..Len(e[q1]), j \in 1..Len(e[q2]) :
        e[q1][i] = e[q2][j] => q1 = q2 /\ i = j

Unlinked(m, e) ==
    \A p \in Procs : ~Queued(e, p) => m.next[p] = NULL /\ m.prev[p] = NULL

(* The cursor as a position in the run queue s, 0 when it is NULL. *)
CursorAt(s, c) == IF c = NULL THEN 0 ELSE Position(s, c)

DropAt(s, k) == [i \in 1..(Len(s) - 1) |-> IF i < k THEN s[i] ELSE s[i + 1]]

Without(s, p) == DropAt(s, Position(s, p))
==============================================================================
