------------------------------ MODULE RoundRobin ------------------------------
(***************************************************************************)
(* What the scheduler promises, without lists or pointers: runnable        *)
(* threads form a ring in order of admission, a cursor stands on the       *)
(* thread that was picked last, and the next pick is the thread after the  *)
(* cursor, cyclically.  A thread that leaves the ring does not disturb     *)
(* whose turn is next.                                                     *)
(***************************************************************************)
EXTENDS Integers, Sequences

CONSTANTS Threads, WaitQueues, Idle

VARIABLES
    ring,       \* runnable threads, oldest admission first
    at,         \* position of the last pick in ring; 0 before the first one
    running,    \* the thread on the CPU, or Idle
    waiting     \* wait queue -> blocked threads, longest wait first

rrVars == <<ring, at, running, waiting>>

RemoveAt(s, k) == [i \in 1..(Len(s) - 1) |-> IF i < k THEN s[i] ELSE s[i + 1]]

Occurs(s, t) == \E i \in 1..Len(s) : s[i] = t

(* Whose turn it is after the cursor stands on position k of ring r. *)
Turn(r, k) == IF Len(r) = 0 THEN 0 ELSE IF k = Len(r) THEN 1 ELSE k + 1

PickFrom(r, k) ==
    /\ at' = Turn(r, k)
    /\ running' = IF Turn(r, k) = 0 THEN Idle ELSE r[Turn(r, k)]

(* The running thread may act on itself: it stands under the cursor. *)
OnCursor == at \in 1..Len(ring) /\ running = ring[at]

RRInit ==
    /\ ring = << >>
    /\ at = 0
    /\ running = Idle
    /\ waiting = [q \in WaitQueues |-> << >>]

Admit(t) ==
    /\ ~Occurs(ring, t)
    /\ \A q \in WaitQueues : ~Occurs(waiting[q], t)
    /\ ring' = Append(ring, t)
    /\ UNCHANGED <<at, running, waiting>>

Pick ==
    /\ PickFrom(ring, at)
    /\ UNCHANGED <<ring, waiting>>

Block(q) ==
    /\ OnCursor
    /\ ring' = RemoveAt(ring, at)
    /\ at' = at - 1
    /\ waiting' = [waiting EXCEPT ![q] = Append(@, running)]
    /\ UNCHANGED running

Wake(q) ==
    /\ waiting[q] # << >>
    /\ ring' = Append(ring, Head(waiting[q]))
    /\ waiting' = [waiting EXCEPT ![q] = Tail(@)]
    /\ UNCHANGED <<at, running>>

Exit ==
    /\ OnCursor
    /\ ring' = RemoveAt(ring, at)
    /\ PickFrom(RemoveAt(ring, at), at - 1)
    /\ UNCHANGED waiting

RRNext ==
    \/ \E t \in Threads : Admit(t)
    \/ Pick
    \/ \E q \in WaitQueues : Block(q) \/ Wake(q)
    \/ Exit

RRSpec == RRInit /\ [][RRNext]_rrVars
==============================================================================
