------------------------------ MODULE Proc_proofs ------------------------------
(***************************************************************************)
(* The context switch, kmain's loop and getc for any number of threads and *)
(* any buffer, when no interrupt arrives inside CONTEXT_SWITCH             *)
(* (WindowOpen = FALSE; run proc_switch shows what happens when one does): *)
(* control reaches only eligible threads, kmain halts only when idle, no   *)
(* reader is left behind, and the machine implements Scheduler.            *)
(***************************************************************************)
EXTENDS Proc, ProcQueue_proofs, FiniteSetTheorems

USE ProcQueueAssumption, ProcAssumption

(* The links spell out the queues, exactly the allocated threads are       *)
(* queued, and the cursor names a scheduled one.                           *)
QueuesSound ==
    /\ elems \in Contents
    /\ Spells(mem, elems) /\ Disjoint(elems) /\ Unlinked(mem, elems)
    /\ \A p \in Procs : p \in live <=> Queued(elems, p)
    /\ current # NULL => Holds(elems[RunQ], current)

(* A thread outside CONTEXT_SWITCH is the one curr_proc and next_proc      *)
(* name; in its own code the cursor stands on it, so it is scheduled.      *)
OnThread ==
    cpu.pc \in {"code", "getc", "read", "yield"} =>
        /\ cpu.self = curr_proc /\ next_proc = curr_proc /\ curr_proc \in live
        /\ cpu.pc # "yield" => current = curr_proc
        /\ cpu.pc = "code" => cpu.ret = "code"
        /\ cpu.pc = "read" => kbd > 0

OnKmain ==
    cpu.pc \in {"kmain", "hlt"} =>
        /\ cpu.self = Orig /\ current = NULL
        /\ curr_proc = next_proc /\ curr_proc \in {NULL, Orig}
        /\ cpu.pc = "hlt" => curr_proc = Orig /\ mem.head[RunQ] = NULL

(* Inside it, the cursor and next_proc agree, and the registers hold what  *)
(* the two pointers held.                                                  *)
InSwitch ==
    cpu.pc \in Window =>
        /\ next_proc = IF current = NULL THEN Orig ELSE current
        /\ next_proc = Orig => mem.head[RunQ] = NULL
        /\ cpu.self \in live \cup {Orig}
        /\ cpu.ret \in IF cpu.self = Orig THEN {"hlt"} ELSE {"code", "getc"}
        /\ cpu.pc \in {"cmp", "save"} => cpu.self = curr_proc
        /\ cpu.pc = "save" => /\ cpu.rcx = curr_proc /\ cpu.rbx = next_proc
                              /\ cpu.rbx # cpu.rcx
        /\ cpu.pc = "load" => /\ curr_proc = next_proc /\ cpu.rbx = next_proc
                              /\ cpu.rbx # cpu.self
                              /\ ctx[cpu.self] = At(cpu.self, cpu.ret)

(* Whoever is not on the CPU has a context to return to. *)
Saved ==
    /\ \A p \in live : \/ curr_proc = p /\ cpu.pc # "load"
                       \/ ctx[p] \in {At(p, "code"), At(p, "getc")}
    /\ \/ curr_proc \notin Procs /\ cpu.pc # "load"
       \/ ctx[Orig] = At(Orig, "hlt")

(* Whoever waits for the keyboard will test the buffer again. *)
WaitersRead == \A p \in Procs : Holds(elems[KbdQ], p) => Reading(p)

Control == cpu.pc # "wild" /\ OnThread /\ OnKmain /\ InSwitch /\ Saved

IInv ==
    /\ TypeOK
    /\ QueuesSound
    /\ Control
    /\ WaitersRead /\ ReaderPerCharacter /\ NoUnderrun

-----------------------------------------------------------------------------
(* Counting the members of a queue that are in a set R of threads. *)

Distinct(s) == \A i, j \in 1..Len(s) : s[i] = s[j] => i = j
In(s, R) == {i \in 1..Len(s) : s[i] \in R}

LEMMA CountThreads ==
  ASSUME NEW s \in Seq(Procs), Distinct(s), NEW R
  PROVE  /\ IsFiniteSet({p \in Procs : Holds(s, p) /\ p \in R})
         /\ Cardinality({p \in Procs : Holds(s, p) /\ p \in R}) = Cardinality(In(s, R))
<1> DEFINE T == {p \in Procs : Holds(s, p) /\ p \in R}
           f == [i \in In(s, R) |-> s[i]]
<1>1. IsFiniteSet(In(s, R))
  <2>1. IsFiniteSet(1..Len(s))
    BY FS_Interval, LenProperties
  <2> QED
    BY <2>1, FS_Subset DEF In
<1>2. f \in Bijection(In(s, R), T)
  <2>1. f \in [In(s, R) -> T]
    BY DEF In, Holds
  <2>2. \A i, j \in In(s, R) : f[i] = f[j] => i = j
    BY DEF In, Distinct
  <2>3. \A p \in T : \E i \in In(s, R) : f[i] = p
    BY DEF In, Holds
  <2> HIDE DEF f, T
  <2> QED
    BY <2>1, <2>2, <2>3 DEF Bijection, Injection, Surjection, IsInjective
<1>3. ExistsBijection(In(s, R), T)
  BY <1>2 DEF ExistsBijection
<1> QED
  BY <1>1, <1>3, FS_Bijection

(* What the steps below do to the count: nobody leaves it, one joins, or   *)
(* one may leave.                                                          *)
LEMMA CountFacts ==
  ASSUME NEW s \in Seq(Procs), Distinct(s), NEW R, NEW t \in Seq(Procs), Distinct(t), NEW T,
         NEW x \in Procs
  PROVE  LET goes(p) == Holds(s, p) /\ p \in R => Holds(t, p) /\ p \in T
         IN /\ Cardinality(In(s, R)) \in Nat /\ Cardinality(In(t, T)) \in Nat
            /\ (\A p \in Procs : goes(p)) => Cardinality(In(s, R)) <= Cardinality(In(t, T))
            /\ (\A p \in Procs : goes(p)) /\ ~Holds(s, x) /\ Holds(t, x) /\ x \in T =>
                  Cardinality(In(s, R)) + 1 <= Cardinality(In(t, T))
            /\ (\A p \in Procs : p # x => goes(p)) =>
                  Cardinality(In(s, R)) - 1 <= Cardinality(In(t, T))
<1> DEFINE goes(p) == Holds(s, p) /\ p \in R => Holds(t, p) /\ p \in T
           A == {p \in Procs : Holds(s, p) /\ p \in R}
           B == {p \in Procs : Holds(t, p) /\ p \in T}
<1>1. /\ IsFiniteSet(A) /\ Cardinality(A) = Cardinality(In(s, R))
      /\ IsFiniteSet(B) /\ Cardinality(B) = Cardinality(In(t, T))
  BY CountThreads
<1>2. Cardinality(A) \in Nat /\ Cardinality(B) \in Nat
  BY <1>1, FS_CardinalityType
<1>3. ASSUME \A p \in Procs : goes(p) PROVE Cardinality(A) <= Cardinality(B)
  <2>1. A \in SUBSET B
    BY <1>3
  <2> HIDE DEF A, B
  <2> QED
    BY <1>1, <2>1, FS_Subset
<1>4. ASSUME \A p \in Procs : goes(p), ~Holds(s, x), Holds(t, x), x \in T
      PROVE  Cardinality(A) + 1 <= Cardinality(B)
  <2>1. A \cup {x} \in SUBSET B /\ x \notin A
    BY <1>4
  <2> HIDE DEF A, B
  <2>2. Cardinality(A \cup {x}) = Cardinality(A) + 1
    BY <1>1, <2>1, FS_AddElement
  <2>3. Cardinality(A \cup {x}) <= Cardinality(B)
    BY <1>1, <2>1, FS_Subset
  <2> QED
    BY <2>2, <2>3
<1>5. ASSUME \A p \in Procs : p # x => goes(p)
      PROVE  Cardinality(A) - 1 <= Cardinality(B)
  <2>1. A \ {x} \in SUBSET B
    BY <1>5
  <2> HIDE DEF A, B
  <2>2. Cardinality(A \ {x}) = IF x \in A THEN Cardinality(A) - 1 ELSE Cardinality(A)
    BY <1>1, FS_RemoveElement
  <2>3. Cardinality(A \ {x}) <= Cardinality(B)
    BY <1>1, <2>1, FS_Subset
  <2> QED
    BY <1>2, <2>2, <2>3
<1> HIDE DEF A, B
<1> QED
  BY <1>1, <1>2, <1>3, <1>4, <1>5

Readers == {p \in Procs : Reading(p)}

LEMMA RunQueueFacts ==
  ASSUME NEW e \in Contents, Disjoint(e)
  PROVE  \A q \in Queues : e[q] \in Seq(Procs) /\ Distinct(e[q])
BY DEF Contents, Disjoint, Distinct

-----------------------------------------------------------------------------
(* Registers. *)

LEMMA AtFacts ==
  ASSUME NEW p \in Contexts, NEW a \in Points
  PROVE  /\ At(p, a) \in Registers
         /\ At(p, a).self = p /\ At(p, a).pc = a /\ At(p, a).ret = a
BY DEF At, Registers

LEMMA PointNames ==
  /\ {"kmain", "hlt", "code", "getc", "yield", "read", "wild", "cmp", "save", "load"} \subseteq Points
  /\ Window = {"cmp", "save", "load"}
  /\ \A a \in Points \ {"wild"} : a \in {"kmain", "hlt"} \/ a \in {"code", "getc", "read", "yield"}
                                 \/ a \in Window
BY DEF Points, Window

(* What the invariant gives the lemmas of ProcQueue_proofs. *)
LEMMA QueueFacts ==
  ASSUME IInv
  PROVE  /\ mem \in Memories /\ elems \in Contents
         /\ Spells(mem, elems) /\ Disjoint(elems) /\ Unlinked(mem, elems)
         /\ current \in ProcsOrNull
         /\ current # NULL => Holds(elems[RunQ], current)
         /\ live \in SUBSET Procs
         /\ \A p \in Procs : p \in live <=> Queued(elems, p)
         /\ KbdQ \in Queues /\ KbdQ # RunQ
         /\ NULL \notin Procs /\ Orig \notin Procs /\ Orig # NULL
BY DEF IInv, TypeOK, QueuesSound

(* rr_next finds a scheduled thread, or there is none. *)
LEMMA PickFacts ==
  ASSUME NEW m \in Memories, NEW e \in Contents, NEW c \in ProcsOrNull,
         Spells(m, e), Disjoint(e), c # NULL => Holds(e[RunQ], c)
  PROVE  LET x == rr_next(m, c)
             y == IF x = NULL THEN Orig ELSE x
         IN /\ x \in ProcsOrNull /\ y \in Contexts
            /\ x # NULL => x \in Procs /\ Holds(e[RunQ], x) /\ Queued(e, x)
            /\ x = NULL <=> m.head[RunQ] = NULL
            /\ y = Orig <=> x = NULL
            /\ y = IF x = NULL THEN Orig ELSE x
            /\ y = Orig => m.head[RunQ] = NULL
<1> DEFINE x == rr_next(m, c)
<1>1. /\ x \in ProcsOrNull
      /\ x = NULL <=> m.head[RunQ] = NULL
      /\ x # NULL => Holds(e[RunQ], x)
  BY RrNextFacts
<1>2. x # NULL => Queued(e, x)
  BY <1>1 DEF Queued
<1> HIDE DEF x
<1> QED
  BY <1>1, <1>2 DEF ProcsOrNull, Contexts, x

(* A step that wakes nobody and lets no reader go keeps the count. *)
LEMMA CountKept ==
  ASSUME IInv, QueuesSound', kbd' \in Nat, kbd' <= kbd,
         \A p \in Procs : Holds(elems[RunQ], p) /\ Reading(p) =>
                             Holds(elems'[RunQ], p) /\ Reading(p)',
         elems[KbdQ] = << >> => elems'[KbdQ] = << >>
  PROVE  ReaderPerCharacter'
<1> DEFINE s == elems[RunQ]
           t == elems'[RunQ]
<1>1. /\ s \in Seq(Procs) /\ Distinct(s) /\ t \in Seq(Procs) /\ Distinct(t)
  BY RunQueueFacts DEF IInv, QueuesSound
<1>2. \A p \in Procs : Holds(s, p) /\ p \in Readers => Holds(t, p) /\ p \in Readers'
  BY DEF Readers
<1>3. /\ Woken = In(s, Readers) /\ Woken' = In(t, Readers')
  <2>1. (\A k \in 1..Len(s) : s[k] \in Procs) /\ (\A k \in 1..Len(t) : t[k] \in Procs)
    BY <1>1
  <2> QED
    BY <2>1 DEF Woken, In, Readers
<1> HIDE DEF s, t
<1>4. CASE Procs = {}
  <2>1. elems[KbdQ] \in Seq(Procs)
    BY RunQueueFacts DEF IInv, QueuesSound
  <2>2. elems[KbdQ] = << >>
    <3>1. Len(elems[KbdQ]) = 0
      <4>1. \A k \in 1..Len(elems[KbdQ]) : elems[KbdQ][k] \in Procs
        BY <2>1
      <4> QED
        BY <1>4, <2>1, <4>1, LenProperties
    <3> QED
      BY <2>1, <3>1, EmptySeq
  <2> QED
    BY <2>2 DEF ReaderPerCharacter
<1>5. CASE Procs # {}
  <2>1. PICK x \in Procs : TRUE
    BY <1>5
  <2>2. /\ Cardinality(In(s, Readers)) \in Nat /\ Cardinality(In(t, Readers')) \in Nat
        /\ Cardinality(In(s, Readers)) <= Cardinality(In(t, Readers'))
    BY <1>1, <1>2, CountFacts
  <2>3. elems'[KbdQ] # << >> => kbd <= Cardinality(In(s, Readers))
    BY <1>3 DEF IInv, ReaderPerCharacter
  <2>4. kbd \in Nat
    BY DEF IInv, TypeOK
  <2> QED
    BY <1>3, <2>2, <2>3, <2>4 DEF ReaderPerCharacter
<1> QED
  BY <1>4, <1>5

(* A step of the CPU that leaves the queues alone. *)
LEMMA QuietStep ==
  ASSUME IInv, TypeOK', Control', NoUnderrun', kbd' \in Nat, kbd' <= kbd,
         UNCHANGED <<mem, live, elems>>, current' = current \/ current' = rr_next(mem, current),
         \A p \in Procs : Reading(p) => Reading(p)'
  PROVE  IInv'
<1> USE QueueFacts
<1>1. current' # NULL => Holds(elems[RunQ], current')
  BY PickFacts
<1>2. QueuesSound'
  BY <1>1 DEF IInv, QueuesSound
<1>3. WaitersRead'
  BY DEF IInv, WaitersRead
<1>4. ReaderPerCharacter'
  BY <1>2, CountKept
<1> QED
  BY <1>2, <1>3, <1>4 DEF IInv

-----------------------------------------------------------------------------
(* One lemma per action. *)

LEMMA InitIInv == Init => IInv
<1> SUFFICES ASSUME Init PROVE IInv
  OBVIOUS
<1> USE PointNames
<1>1. \A q \in Queues : elems[q] = << >> /\ Len(elems[q]) = 0
  BY DEF Init
<1>2. \A p \in Procs : ~Queued(elems, p)
  BY <1>1 DEF Queued, Holds
<1>3. QueuesSound
  <2>1. elems \in Contents
    BY DEF Init, Contents
  <2> QED
    BY <1>1, <1>2, <2>1 DEF Init, QueuesSound, Spells, Represents, Disjoint, Unlinked,
                            PROC_init_queue
<1>4. TypeOK
  <2>1. mem \in Memories
    BY DEF Init, PROC_init_queue, Memories, ProcsOrNull
  <2>2. cpu \in Registers /\ ctx \in [Contexts -> Registers]
    BY AtFacts DEF Init, Contexts
  <2>3. kbd \in 0..BufCap
    BY DEF Init
  <2> QED
    BY <2>1, <2>2, <2>3 DEF Init, TypeOK, ProcsOrNull
<1>5. cpu.pc = "kmain" /\ cpu.self = Orig
  BY AtFacts DEF Init, Contexts
<1>6. Control
  BY <1>5 DEF Init, Control, OnThread, OnKmain, InSwitch, Saved
<1>7. WaitersRead /\ ReaderPerCharacter /\ NoUnderrun
  BY <1>1 DEF Init, WaitersRead, Holds, ReaderPerCharacter, NoUnderrun
<1> QED
  BY <1>3, <1>4, <1>6, <1>7 DEF IInv

(* Reschedule, from kmain or from a thread. *)
LEMMA RescheduleStep ==
  ASSUME IInv, NEW r \in {"hlt", "code", "getc"}, Reschedule(r),
         UNCHANGED <<mem, live, elems, ctx, kbd, underrun>>,
         cpu.self \in live \cup {Orig}, curr_proc' = cpu.self,
         curr_proc = curr_proc' \/ (curr_proc \notin Procs /\ curr_proc' = Orig),
         cpu.pc \notin Window, cpu.self = Orig <=> r = "hlt",
         cpu.self \in Procs => (Reading(cpu.self) => r = "getc")
  PROVE  IInv'
<1> USE QueueFacts, PointNames
<1> DEFINE x == rr_next(mem, current)
           y == IF x = NULL THEN Orig ELSE x
<1>1. current' = x /\ next_proc' = y /\ cpu' = [cpu EXCEPT !.pc = "cmp", !.ret = r]
  BY DEF Reschedule
<1>2. /\ x \in ProcsOrNull /\ y \in Contexts
      /\ y = IF x = NULL THEN Orig ELSE x
      /\ y = Orig => mem.head[RunQ] = NULL
  BY PickFacts
<1> HIDE DEF x, y
<1>3. /\ cpu' \in Registers /\ cpu'.pc = "cmp" /\ cpu'.ret = r /\ cpu'.self = cpu.self
  <2>1. cpu \in Registers /\ "cmp" \in Points /\ r \in Points
    BY DEF IInv, TypeOK
  <2> QED
    BY <1>1, <2>1 DEF Registers
<1>4. TypeOK'
  BY <1>1, <1>2, <1>3 DEF IInv, TypeOK, Contexts
<1>5. Control'
  <2>1. InSwitch'
    BY <1>1, <1>2, <1>3 DEF InSwitch
  <2>2. Saved'
    BY <1>3 DEF IInv, Control, Saved
  <2> QED
    BY <1>3, <2>1, <2>2 DEF Control, OnThread, OnKmain
<1>6. \A p \in Procs : Reading(p) => Reading(p)'
  <2>1. \A p \in Procs : p # cpu.self => Point(p)' = Point(p)
    BY <1>3 DEF Point
  <2>2. \A p \in Procs : p = cpu.self => Point(p)'.ret = r
    BY <1>3 DEF Point
  <2> QED
    BY <2>1, <2>2 DEF Reading
<1>7. kbd' \in Nat /\ kbd' <= kbd /\ NoUnderrun'
  BY DEF IInv, TypeOK, NoUnderrun
<1> QED
  BY <1>1, <1>4, <1>5, <1>6, <1>7, QuietStep DEF x

LEMMA RunStep ==
  ASSUME IInv, PROC_run
  PROVE  IInv'
<1> USE QueueFacts, PointNames
<1>1. /\ cpu.pc = "kmain" /\ cpu.self = Orig /\ current = NULL
      /\ curr_proc \in {NULL, Orig} /\ curr_proc' = Orig
      /\ UNCHANGED <<mem, live, elems, ctx, kbd, underrun>>
  BY DEF PROC_run, IInv, Control, OnKmain
<1>2. CASE are_procs_scheduled(mem)
  <2>1. Reschedule("hlt")
    BY <1>2 DEF PROC_run
  <2> QED
    BY <1>1, <2>1, RescheduleStep
<1>3. CASE ~are_procs_scheduled(mem)
  <2>1. cpu' = At(Orig, "hlt") /\ next_proc' = Orig /\ current' = current
    BY <1>3 DEF PROC_run
  <2>2. mem.head[RunQ] = NULL
    BY <1>3 DEF are_procs_scheduled
  <2>3. cpu' \in Registers /\ cpu'.self = Orig /\ cpu'.pc = "hlt"
    BY <2>1, AtFacts DEF Contexts
  <2>4. TypeOK'
    BY <1>1, <2>1, <2>3 DEF IInv, TypeOK, Contexts
  <2>5. Control'
    BY <1>1, <2>1, <2>2, <2>3 DEF IInv, Control, OnThread, OnKmain, InSwitch, Saved
  <2>6. \A p \in Procs : Reading(p) => Reading(p)'
    BY <1>1, <2>3 DEF Reading, Point
  <2>7. kbd' \in Nat /\ kbd' <= kbd /\ NoUnderrun'
    BY <1>1 DEF IInv, TypeOK, NoUnderrun
  <2> QED
    BY <1>1, <2>1, <2>4, <2>5, <2>6, <2>7, QuietStep
<1> QED
  BY <1>2, <1>3

LEMMA YieldStep ==
  ASSUME IInv, yield_sys_call
  PROVE  IInv'
<1> USE QueueFacts, PointNames
<1>1. /\ cpu.pc \in {"code", "yield"} /\ cpu.self = curr_proc /\ curr_proc \in live
      /\ cpu.pc = "code" => cpu.ret = "code"
      /\ UNCHANGED <<mem, curr_proc, live, elems, ctx, kbd, underrun>>
  BY DEF yield_sys_call, IInv, Control, OnThread
<1>2. CASE cpu.pc = "code"
  <2>1. Reschedule("code")
    BY <1>2 DEF yield_sys_call
  <2>2. ~Reading(cpu.self)
    BY <1>1, <1>2 DEF Reading, Point
  <2> QED
    BY <1>1, <1>2, <2>1, <2>2, RescheduleStep
<1>3. CASE cpu.pc = "yield"
  <2>1. Reschedule("getc")
    BY <1>3 DEF yield_sys_call
  <2> QED
    BY <1>1, <1>3, <2>1, RescheduleStep
<1> QED
  BY <1>1, <1>2, <1>3

LEMMA CompareStep ==
  ASSUME IInv, switch_compare
  PROVE  IInv'
<1> USE QueueFacts, PointNames
<1>1. /\ cpu.pc = "cmp" /\ cpu.self = curr_proc /\ cpu.self \in live \cup {Orig}
      /\ cpu.ret \in IF cpu.self = Orig THEN {"hlt"} ELSE {"code", "getc"}
      /\ next_proc = IF current = NULL THEN Orig ELSE current
      /\ next_proc = Orig => mem.head[RunQ] = NULL
      /\ UNCHANGED <<mem, current, curr_proc, next_proc, live, elems, ctx, kbd, underrun>>
  BY DEF switch_compare, IInv, Control, InSwitch
<1>2. kbd' \in Nat /\ kbd' <= kbd /\ NoUnderrun'
  BY <1>1 DEF IInv, TypeOK, NoUnderrun
<1>3. CASE curr_proc = next_proc
  <2>1. cpu' = At(cpu.self, cpu.ret) /\ cpu.self \in Contexts /\ cpu.ret \in Points
    BY <1>1, <1>3 DEF switch_compare, Contexts
  <2>2. cpu' \in Registers /\ cpu'.self = cpu.self /\ cpu'.pc = cpu.ret /\ cpu'.ret = cpu.ret
    BY <2>1, AtFacts
  <2>3. TypeOK'
    BY <1>1, <2>2 DEF IInv, TypeOK
  <2>4. Control'
    <3>1. CASE cpu.self = Orig
      <4>1. cpu'.pc = "hlt" /\ current = NULL /\ mem.head[RunQ] = NULL
        BY <1>1, <1>3, <2>2, <3>1 DEF ProcsOrNull
      <4>2. Saved'
        BY <1>1, <2>2, <4>1 DEF IInv, Control, Saved
      <4> QED
        BY <1>1, <1>3, <2>2, <3>1, <4>1, <4>2 DEF Control, OnThread, OnKmain, InSwitch
    <3>2. CASE cpu.self # Orig
      <4>1. cpu'.pc \in {"code", "getc"} /\ cpu'.ret = cpu'.pc /\ current = curr_proc
        BY <1>1, <1>3, <2>2, <3>2
      <4>2. Saved'
        BY <1>1, <2>2, <4>1 DEF IInv, Control, Saved
      <4> QED
        BY <1>1, <1>3, <2>2, <3>2, <4>1, <4>2 DEF Control, OnThread, OnKmain, InSwitch
    <3> QED
      BY <3>1, <3>2
  <2>5. \A p \in Procs : Reading(p) => Reading(p)'
    BY <1>1, <2>2 DEF Reading, Point
  <2> QED
    BY <1>1, <1>2, <2>3, <2>4, <2>5, QuietStep
<1>4. CASE curr_proc # next_proc
  <2>1. cpu' = [cpu EXCEPT !.pc = "save", !.rcx = curr_proc, !.rbx = next_proc]
    BY <1>4 DEF switch_compare
  <2>2. /\ cpu' \in Registers /\ cpu'.self = cpu.self /\ cpu'.pc = "save"
        /\ cpu'.ret = cpu.ret /\ cpu'.rcx = curr_proc /\ cpu'.rbx = next_proc
    <3>1. /\ cpu \in Registers /\ curr_proc \in Contexts \cup {NULL}
          /\ next_proc \in Contexts \cup {NULL} /\ "save" \in Points
      BY DEF IInv, TypeOK
    <3> QED
      BY <2>1, <3>1 DEF Registers
  <2>3. TypeOK'
    BY <1>1, <2>2 DEF IInv, TypeOK
  <2>4. Control'
    BY <1>1, <1>4, <2>2 DEF IInv, Control, OnThread, OnKmain, InSwitch, Saved
  <2>5. \A p \in Procs : Reading(p) => Reading(p)'
    BY <1>1, <2>2 DEF Reading, Point
  <2> QED
    BY <1>1, <1>2, <2>3, <2>4, <2>5, QuietStep
<1> QED
  BY <1>3, <1>4

LEMMA SaveStep ==
  ASSUME IInv, switch_save
  PROVE  IInv'
<1> USE QueueFacts, PointNames
<1>1. /\ cpu.pc = "save" /\ cpu.self = curr_proc /\ cpu.self \in live \cup {Orig}
      /\ cpu.ret \in IF cpu.self = Orig THEN {"hlt"} ELSE {"code", "getc"}
      /\ next_proc = IF current = NULL THEN Orig ELSE current
      /\ next_proc = Orig => mem.head[RunQ] = NULL
      /\ cpu.rcx = curr_proc /\ cpu.rbx = next_proc /\ cpu.rbx # cpu.rcx
  BY DEF switch_save, IInv, Control, InSwitch
<1>2. /\ ctx' = [ctx EXCEPT ![cpu.self] = At(cpu.self, cpu.ret)]
      /\ curr_proc' = next_proc /\ cpu' = [cpu EXCEPT !.pc = "load"]
      /\ UNCHANGED <<mem, current, next_proc, live, elems, kbd, underrun>>
  BY <1>1 DEF switch_save
<1>3. /\ cpu' \in Registers /\ cpu'.self = cpu.self /\ cpu'.pc = "load"
      /\ cpu'.ret = cpu.ret /\ cpu'.rbx = next_proc
  <2>1. cpu \in Registers /\ "load" \in Points
    BY DEF IInv, TypeOK
  <2> QED
    BY <1>1, <1>2, <2>1 DEF Registers
<1>4. cpu.self \in Contexts /\ cpu.ret \in Points /\ At(cpu.self, cpu.ret) \in Registers
  BY <1>1, AtFacts DEF Contexts
<1>5. /\ ctx' \in [Contexts -> Registers] /\ ctx'[cpu.self] = At(cpu.self, cpu.ret)
      /\ \A p \in Contexts : p # cpu.self => ctx'[p] = ctx[p]
  BY <1>2, <1>4 DEF IInv, TypeOK
<1>6. TypeOK'
  BY <1>2, <1>3, <1>5 DEF IInv, TypeOK
<1>7. Control'
  <2>1. InSwitch'
    BY <1>1, <1>2, <1>3, <1>5 DEF InSwitch
  <2>2. \A p \in live : ctx'[p] \in {At(p, "code"), At(p, "getc")}
    <3>1. \A p \in live : p \in Contexts /\ p # Orig
      BY DEF Contexts
    <3>2. \A p \in live : p # cpu.self => ctx[p] \in {At(p, "code"), At(p, "getc")}
      BY <1>1 DEF IInv, Control, Saved
    <3> QED
      BY <1>1, <1>5, <3>1, <3>2
  <2>3. ctx'[Orig] = At(Orig, "hlt")
    <3>1. CASE cpu.self = Orig
      BY <1>1, <1>5, <3>1
    <3>2. CASE cpu.self # Orig
      <4>1. curr_proc \in Procs
        BY <1>1, <3>2
      <4> QED
        BY <1>5, <3>2, <4>1 DEF IInv, Control, Saved, Contexts
    <3> QED
      BY <3>1, <3>2
  <2> QED
    BY <1>2, <1>3, <2>1, <2>2, <2>3 DEF Control, OnThread, OnKmain, Saved
<1>8. \A p \in Procs : Reading(p) => Reading(p)'
  <2>1. \A p \in Procs : p # cpu.self => Point(p)' = Point(p)
    BY <1>3, <1>5 DEF Point, Contexts
  <2>2. \A p \in Procs : p = cpu.self => Point(p)'.ret = cpu.ret /\ Point(p) = cpu
    BY <1>3 DEF Point
  <2> QED
    BY <1>1, <2>1, <2>2 DEF Reading
<1>9. kbd' \in Nat /\ kbd' <= kbd /\ NoUnderrun'
  BY <1>2 DEF IInv, TypeOK, NoUnderrun
<1> QED
  BY <1>2, <1>6, <1>7, <1>8, <1>9, QuietStep

(* The registers of a context, once saved, are those of its owner: a       *)
(* thread in its own code, which the cursor names, or kmain halted.        *)
LEMMA LoadedFacts ==
  ASSUME IInv, NEW p \in live \cup {Orig},
         p \in live => ctx[p] \in {At(p, "code"), At(p, "getc")},
         p = Orig => ctx[p] = At(p, "hlt")
  PROVE  /\ Loaded(ctx, p) = ctx[p] /\ ctx[p] \in Registers
         /\ ctx[p].self = p /\ ctx[p].ret = ctx[p].pc
         /\ p = Orig => ctx[p].pc = "hlt"
         /\ p # Orig => ctx[p].pc \in {"code", "getc"}
<1> USE QueueFacts, PointNames
<1>1. Loaded(ctx, p) = ctx[p] /\ p \in Contexts
  BY DEF Loaded, Contexts
<1> QED
  BY <1>1, AtFacts

LEMMA LoadStep ==
  ASSUME IInv, switch_load
  PROVE  IInv'
<1> USE QueueFacts, PointNames
<1>1. /\ cpu.pc = "load" /\ cpu.self \in live \cup {Orig}
      /\ cpu.ret \in IF cpu.self = Orig THEN {"hlt"} ELSE {"code", "getc"}
      /\ next_proc = IF current = NULL THEN Orig ELSE current
      /\ next_proc = Orig => mem.head[RunQ] = NULL
      /\ curr_proc = next_proc /\ cpu.rbx = next_proc /\ next_proc # cpu.self
      /\ ctx[cpu.self] = At(cpu.self, cpu.ret)
      /\ cpu' = Loaded(ctx, next_proc)
      /\ UNCHANGED <<mem, current, curr_proc, next_proc, live, elems, ctx, kbd, underrun>>
  BY DEF switch_load, IInv, Control, InSwitch
<1>2. current # NULL => current \in live /\ current \in Procs
  BY DEF Queued, ProcsOrNull
<1>3. next_proc \in live \cup {Orig}
  BY <1>1, <1>2
<1>4. /\ \A p \in live : ctx[p] \in {At(p, "code"), At(p, "getc")}
      /\ ctx[Orig] = At(Orig, "hlt")
  BY <1>1 DEF IInv, Control, Saved
<1>5. /\ cpu' = ctx[next_proc] /\ cpu' \in Registers
      /\ cpu'.self = next_proc /\ cpu'.ret = cpu'.pc
      /\ next_proc = Orig => cpu'.pc = "hlt"
      /\ next_proc # Orig => cpu'.pc \in {"code", "getc"}
  BY <1>1, <1>3, <1>4, LoadedFacts
<1>6. TypeOK'
  BY <1>1, <1>5 DEF IInv, TypeOK
<1>7. Control'
  <2>1. Saved'
    BY <1>1, <1>4 DEF Saved
  <2>2. CASE next_proc = Orig
    BY <1>1, <1>2, <1>5, <2>1, <2>2 DEF Control, OnThread, OnKmain, InSwitch
  <2>3. CASE next_proc # Orig
    <3>1. current = next_proc /\ next_proc \in live
      BY <1>1, <1>2, <2>3
    <3> QED
      BY <1>1, <1>5, <2>1, <2>3, <3>1 DEF Control, OnThread, OnKmain, InSwitch
  <2> QED
    BY <2>2, <2>3
<1>8. \A p \in Procs : Reading(p) => Reading(p)'
  <2>1. \A p \in Procs : p # cpu.self => Point(p)' = Point(p)
    BY <1>1, <1>5 DEF Point
  <2>2. \A p \in Procs : p = cpu.self => Point(p)' = At(p, cpu.ret) /\ Point(p) = cpu
    BY <1>1, <1>5 DEF Point
  <2>3. \A p \in Procs : At(p, cpu.ret).ret = cpu.ret
    BY DEF At
  <2> QED
    BY <1>1, <2>1, <2>2, <2>3 DEF Reading
<1>9. kbd' \in Nat /\ kbd' <= kbd /\ NoUnderrun'
  BY <1>1 DEF IInv, TypeOK, NoUnderrun
<1> QED
  BY <1>1, <1>6, <1>7, <1>8, <1>9, QuietStep

(* consumer_read takes one character and its reader is one reader less. *)
LEMMA ReadStep ==
  ASSUME IInv, getc_sys_call
  PROVE  IInv'
<1> USE QueueFacts, PointNames
<1>1. /\ cpu.pc = "read" /\ cpu.self = curr_proc /\ next_proc = curr_proc
      /\ curr_proc \in live /\ current = curr_proc /\ kbd > 0 /\ kbd \in 0..BufCap
  BY DEF getc_sys_call, IInv, Control, OnThread, TypeOK
<1>2. /\ kbd' = kbd - 1 /\ underrun' = underrun
      /\ cpu' = [cpu EXCEPT !.pc = "cmp", !.ret = "code"]
      /\ UNCHANGED <<mem, current, curr_proc, next_proc, live, elems, ctx>>
  BY <1>1 DEF getc_sys_call, IInv, TypeOK
<1>3. cpu' \in Registers /\ cpu'.self = cpu.self /\ cpu'.pc = "cmp" /\ cpu'.ret = "code"
  <2>1. cpu \in Registers /\ "cmp" \in Points /\ "code" \in Points
    BY DEF IInv, TypeOK
  <2> QED
    BY <1>2, <2>1 DEF Registers
<1>4. TypeOK'
  BY <1>1, <1>2, <1>3 DEF IInv, TypeOK
<1>5. Control'
  BY <1>1, <1>2, <1>3 DEF IInv, Control, OnThread, OnKmain, InSwitch, Saved
<1>6. QueuesSound'
  BY <1>2 DEF IInv, QueuesSound
<1>7. \A p \in Procs : p # curr_proc /\ Reading(p) => Reading(p)'
  BY <1>1, <1>2, <1>3 DEF Reading, Point
<1>8. WaitersRead'
  <2>1. ~Holds(elems[KbdQ], curr_proc)
    BY <1>1 DEF Disjoint, Holds
  <2> QED
    BY <1>2, <1>7, <2>1 DEF IInv, WaitersRead
<1>9. ReaderPerCharacter'
  <2> DEFINE s == elems[RunQ]
  <2>1. s \in Seq(Procs) /\ Distinct(s)
    BY RunQueueFacts
  <2>2. Woken = In(s, Readers) /\ Woken' = In(s, Readers')
    <3>1. \A k \in 1..Len(s) : s[k] \in Procs
      BY <2>1
    <3> QED
      BY <1>2, <3>1 DEF Woken, In, Readers
  <2>3. \A p \in Procs : p # curr_proc =>
          (Holds(s, p) /\ p \in Readers => Holds(s, p) /\ p \in Readers')
    BY <1>7 DEF Readers
  <2> HIDE DEF s
  <2>4. /\ Cardinality(In(s, Readers)) \in Nat /\ Cardinality(In(s, Readers')) \in Nat
        /\ Cardinality(In(s, Readers)) - 1 <= Cardinality(In(s, Readers'))
    BY <1>1, <2>1, <2>3, CountFacts
  <2> QED
    BY <1>1, <1>2, <2>2, <2>4 DEF IInv, ReaderPerCharacter
<1>10. NoUnderrun'
  BY <1>2 DEF IInv, NoUnderrun
<1> QED
  BY <1>4, <1>5, <1>6, <1>8, <1>9, <1>10 DEF IInv

(* Membership after the queue operations. *)
LEMMA HoldsAppend ==
  ASSUME NEW s \in Seq(Procs), NEW p \in Procs
  PROVE  \A x : Holds(Append(s, p), x) <=> Holds(s, x) \/ x = p
<1>1. /\ Len(Append(s, p)) = Len(s) + 1 /\ Len(s) \in Nat
      /\ Append(s, p)[Len(s) + 1] = p
      /\ \A k \in 1..Len(s) : Append(s, p)[k] = s[k]
  BY AppendProperties, LenProperties
<1> QED
  BY <1>1 DEF Holds

LEMMA HoldsTail ==
  ASSUME NEW s \in Seq(Procs), s # << >>
  PROVE  \A x : Holds(s, x) <=> Holds(Tail(s), x) \/ x = Head(s)
<1>1. /\ Len(Tail(s)) = Len(s) - 1 /\ Len(s) \in Nat /\ Len(s) > 0 /\ Head(s) = s[1]
      /\ \A k \in 1..Len(Tail(s)) : Tail(s)[k] = s[k + 1]
  BY HeadTailProperties, EmptySeq, LenProperties
<1>2. ASSUME NEW x, Holds(s, x) PROVE Holds(Tail(s), x) \/ x = Head(s)
  <2>1. PICK k \in 1..Len(s) : s[k] = x
    BY <1>2 DEF Holds
  <2>2. CASE k = 1
    BY <1>1, <2>1, <2>2
  <2>3. CASE k # 1
    <3>1. k - 1 \in 1..Len(Tail(s)) /\ (k - 1) + 1 = k
      BY <1>1, <2>1, <2>3
    <3>2. Tail(s)[k - 1] = x
      BY <1>1, <2>1, <3>1
    <3> QED
      BY <3>1, <3>2 DEF Holds
  <2> QED
    BY <2>2, <2>3
<1>3. ASSUME NEW x, Holds(Tail(s), x) PROVE Holds(s, x)
  <2>1. PICK k \in 1..Len(Tail(s)) : Tail(s)[k] = x
    BY <1>3 DEF Holds
  <2>2. k + 1 \in 1..Len(s) /\ s[k + 1] = x
    BY <1>1, <2>1
  <2> QED
    BY <2>2 DEF Holds
<1>4. Holds(s, Head(s))
  BY <1>1 DEF Holds
<1> QED
  BY <1>2, <1>3, <1>4

LEMMA HoldsWithout ==
  ASSUME NEW s \in Seq(Procs), NEW p, Holds(s, p)
  PROVE  \A x : Holds(s, x) /\ x # p => Holds(Without(s, p), x)
<1> DEFINE k == Position(s, p)
<1>1. k \in 1..Len(s) /\ s[k] = p
  BY PositionFacts
<1> HIDE DEF k
<1>2. /\ Len(DropAt(s, k)) = Len(s) - 1 /\ Len(s) \in Nat
      /\ \A j \in 1..(Len(s) - 1) : DropAt(s, k)[j] = IF j < k THEN s[j] ELSE s[j + 1]
  BY <1>1, DropAtFacts, LenProperties
<1>3. ASSUME NEW x, Holds(s, x), x # p PROVE Holds(DropAt(s, k), x)
  <2>1. PICK j \in 1..Len(s) : s[j] = x
    BY <1>3 DEF Holds
  <2>2. CASE j < k
    <3>1. j \in 1..(Len(s) - 1) /\ DropAt(s, k)[j] = x
      BY <1>1, <1>2, <2>1, <2>2
    <3> QED
      BY <1>2, <3>1 DEF Holds
  <2>3. CASE j > k
    <3>1. j - 1 \in 1..(Len(s) - 1) /\ ~(j - 1 < k) /\ (j - 1) + 1 = j
      BY <1>1, <1>2, <2>1, <2>3
    <3>2. DropAt(s, k)[j - 1] = x
      BY <1>2, <2>1, <3>1
    <3> QED
      BY <1>2, <3>1, <3>2 DEF Holds
  <2>4. j # k
    BY <1>1, <1>3, <2>1
  <2> QED
    BY <1>1, <1>2, <2>1, <2>2, <2>3, <2>4
<1> QED
  BY <1>3 DEF Without, k

LEMMA WaitStep ==
  ASSUME IInv, wait_event_interruptable
  PROVE  IInv'
<1> USE QueueFacts, PointNames
<1>1. /\ cpu.pc \in {"code", "getc"} /\ cpu.self = curr_proc /\ next_proc = curr_proc
      /\ curr_proc \in live /\ current = curr_proc /\ kbd \in 0..BufCap
      /\ cpu \in Registers /\ Holds(elems[RunQ], curr_proc) /\ curr_proc \in Procs
      /\ UNCHANGED <<curr_proc, next_proc, live, ctx, kbd, underrun>>
  BY DEF wait_event_interruptable, IInv, Control, OnThread, TypeOK
<1>2. CASE kbd > 0
  <2>1. cpu' = [cpu EXCEPT !.pc = "read"] /\ UNCHANGED <<mem, current, elems>>
    BY <1>2 DEF wait_event_interruptable
  <2>2. cpu' \in Registers /\ cpu'.self = cpu.self /\ cpu'.pc = "read"
    BY <1>1, <2>1 DEF Registers
  <2>3. TypeOK'
    BY <1>1, <2>1, <2>2 DEF IInv, TypeOK
  <2>4. Control'
    BY <1>1, <1>2, <2>1, <2>2 DEF IInv, Control, OnThread, OnKmain, InSwitch, Saved
  <2>5. \A p \in Procs : Reading(p) => Reading(p)'
    BY <1>1, <2>2 DEF Reading, Point
  <2>6. kbd' \in Nat /\ kbd' <= kbd /\ NoUnderrun'
    BY <1>1 DEF IInv, NoUnderrun
  <2> QED
    BY <1>1, <2>1, <2>3, <2>4, <2>5, <2>6, QuietStep
<1>3. CASE ~(kbd > 0)
  <2>1. /\ mem' = append_proc(sched_remove(mem, curr_proc), curr_proc, KbdQ)
        /\ current' = sched_remove_current(mem, curr_proc, curr_proc)
        /\ elems' = Join(Leave(elems, curr_proc), curr_proc, KbdQ)
        /\ cpu' = [cpu EXCEPT !.pc = "yield"]
    BY <1>1, <1>3 DEF wait_event_interruptable
  <2>2. elems' = [elems EXCEPT ![RunQ] = Without(@, curr_proc),
                               ![KbdQ] = Append(@, curr_proc)]
    <3>1. Leave(elems, curr_proc) = [elems EXCEPT ![RunQ] = Without(@, curr_proc)]
      BY <1>1 DEF Leave
    <3> QED
      BY <2>1, <3>1 DEF Join
  <2>3. /\ elems'[RunQ] = Without(elems[RunQ], curr_proc)
        /\ elems'[KbdQ] = Append(elems[KbdQ], curr_proc)
    BY <2>2 DEF Contents
  <2>4. /\ mem' \in Memories /\ elems' \in Contents
        /\ Spells(mem', elems') /\ Disjoint(elems') /\ Unlinked(mem', elems')
        /\ \A x \in Procs : Queued(elems', x) <=> Queued(elems, x)
    <3> HIDE PointNames
    <3>1. Holds(elems[RunQ], curr_proc) /\ curr_proc \in Procs
      BY <1>1
    <3> DEFINE n == append_proc(sched_remove(mem, curr_proc), curr_proc, KbdQ)
               f == [elems EXCEPT ![RunQ] = Without(@, curr_proc),
                                  ![KbdQ] = Append(@, curr_proc)]
    <3>2. /\ n \in Memories /\ f \in Contents
          /\ Spells(n, f) /\ Disjoint(f) /\ Unlinked(n, f)
          /\ \A x \in Procs : Queued(f, x) <=> Queued(elems, x)
      BY <3>1, BlockOn
    <3>3. mem' = n /\ elems' = f
      BY <2>1, <2>2
    <3> HIDE DEF n, f
    <3> QED
      BY <3>2, <3>3
  <2>5. current' \in ProcsOrNull /\ (current' # NULL => Holds(elems'[RunQ], current'))
    BY <1>1, <2>1, <2>3, CursorStepsBack
  <2>6. cpu' \in Registers /\ cpu'.self = cpu.self /\ cpu'.pc = "yield"
    BY <1>1, <2>1 DEF Registers
  <2>7. TypeOK'
    BY <1>1, <2>4, <2>5, <2>6 DEF IInv, TypeOK
  <2>8. QueuesSound'
    BY <1>1, <2>4, <2>5 DEF QueuesSound
  <2>9. Control'
    BY <1>1, <2>6 DEF IInv, Control, OnThread, OnKmain, InSwitch, Saved
  <2>10. WaitersRead'
    <3>1. \A x \in Procs : Holds(elems'[KbdQ], x) => Holds(elems[KbdQ], x) \/ x = curr_proc
      BY <1>1, <2>3, HoldsAppend DEF Contents
    <3>2. \A x \in Procs : Reading(x) \/ x = curr_proc => Reading(x)'
      BY <1>1, <2>6 DEF Reading, Point
    <3> QED
      BY <3>1, <3>2 DEF IInv, WaitersRead
  <2>11. ReaderPerCharacter'
    <3> DEFINE t == elems'[RunQ]
    <3>1. t \in Seq(Procs) /\ Distinct(t)
      BY <2>4, RunQueueFacts
    <3>2. Woken' = In(t, Readers')
      <4>1. \A k \in 1..Len(t) : t[k] \in Procs
        BY <3>1
      <4> QED
        BY <4>1 DEF Woken, In, Readers
    <3> HIDE DEF t
    <3>3. Cardinality(In(t, Readers')) \in Nat
      BY <1>1, <3>1, CountFacts
    <3>4. kbd' = 0
      BY <1>1, <1>3
    <3> QED
      BY <3>2, <3>3, <3>4 DEF ReaderPerCharacter
  <2>12. NoUnderrun'
    BY <1>1 DEF IInv, NoUnderrun
  <2> QED
    BY <2>7, <2>8, <2>9, <2>10, <2>11, <2>12 DEF IInv
<1> QED
  BY <1>2, <1>3

LEMMA CreateStep ==
  ASSUME IInv, NEW t \in Procs, PROC_create_kthread(t)
  PROVE  IInv'
<1> USE QueueFacts, PointNames
<1>1. /\ cpu.pc = "kmain" /\ cpu.self = Orig /\ curr_proc = NULL /\ t \notin live
      /\ live' = live \cup {t} /\ ctx' = [ctx EXCEPT ![t] = At(t, "code")]
      /\ UNCHANGED <<current, curr_proc, next_proc, cpu, kbd, underrun>>
  BY DEF PROC_create_kthread, IInv, Control, OnKmain
<1>2. ~Queued(elems, t)
  BY <1>1
<1>3. mem' = append_proc(mem, t, RunQ) /\ elems' = [elems EXCEPT ![RunQ] = Append(@, t)]
  BY <1>2, KcallocFacts DEF PROC_create_kthread, sched_admit, Join
<1>4. /\ mem' \in Memories /\ elems' \in Contents
      /\ Spells(mem', elems') /\ Disjoint(elems') /\ Unlinked(mem', elems')
      /\ \A x \in Procs : Queued(elems', x) <=> Queued(elems, x) \/ x = t
      /\ \A x \in Procs : Holds(elems[RunQ], x) => Holds(elems'[RunQ], x)
  BY <1>2, <1>3, AppendProc
<1>5. /\ ctx' \in [Contexts -> Registers] /\ ctx'[t] = At(t, "code")
      /\ \A p \in Contexts : p # t => ctx'[p] = ctx[p]
  BY <1>1, AtFacts DEF IInv, TypeOK, Contexts
<1>6. TypeOK'
  BY <1>1, <1>4, <1>5 DEF IInv, TypeOK
<1>7. QueuesSound'
  BY <1>1, <1>4 DEF QueuesSound, ProcsOrNull
<1>8. Control'
  <2>1. Saved'
    BY <1>1, <1>5 DEF IInv, Control, Saved, Contexts
  <2>2. OnKmain'
    BY <1>1 DEF IInv, Control, OnKmain
  <2> QED
    BY <1>1, <2>1, <2>2 DEF Control, OnThread, InSwitch
<1>9. \A p \in Procs : p # t /\ Reading(p) => Reading(p)'
  BY <1>1, <1>5 DEF Reading, Point, Contexts
<1>10. elems'[KbdQ] = elems[KbdQ] /\ \A q \in Queues : ~Holds(elems[q], t)
  BY <1>2, <1>3 DEF Contents, Queued
<1>11. WaitersRead'
  BY <1>9, <1>10 DEF IInv, WaitersRead
<1>12. ReaderPerCharacter'
  <2>1. kbd' \in Nat /\ kbd' <= kbd
    BY <1>1 DEF IInv, TypeOK
  <2> QED
    BY <1>4, <1>7, <1>9, <1>10, <2>1, CountKept
<1>13. NoUnderrun'
  BY <1>1 DEF IInv, NoUnderrun
<1> QED
  BY <1>6, <1>7, <1>8, <1>11, <1>12, <1>13 DEF IInv

LEMMA ExitStep ==
  ASSUME IInv, kexit_isr
  PROVE  IInv'
<1> USE QueueFacts, PointNames
<1> DEFINE c == sched_remove_current(mem, curr_proc, curr_proc)
           m == remove_proc(mem, curr_proc, RunQ)
           f == [elems EXCEPT ![RunQ] = Without(@, curr_proc)]
           x == rr_next(m, c)
           y == IF x = NULL THEN Orig ELSE x
<1>1. /\ cpu.pc = "code" /\ cpu.self = curr_proc /\ next_proc = curr_proc
      /\ curr_proc \in live /\ current = curr_proc /\ cpu.ret = "code"
      /\ Holds(elems[RunQ], curr_proc) /\ curr_proc \in Procs
  BY DEF kexit_isr, IInv, Control, OnThread
<1>2. /\ mem' = m /\ elems' = f /\ current' = x /\ next_proc' = y /\ curr_proc' = y
      /\ cpu' = IF y = curr_proc THEN cpu ELSE Loaded(ctx, y)
      /\ live' = live \ {curr_proc} /\ UNCHANGED <<ctx, kbd, underrun>>
  BY <1>1 DEF kexit_isr, sched_remove, Leave
<1>3. /\ m \in Memories /\ f \in Contents
      /\ Spells(m, f) /\ Disjoint(f) /\ Unlinked(m, f)
      /\ \A z \in Procs : Queued(f, z) <=> Queued(elems, z) /\ z # curr_proc
  BY <1>1, RemoveProc
<1>4. f[RunQ] = Without(elems[RunQ], curr_proc) /\ f[KbdQ] = elems[KbdQ]
  BY DEF Contents
<1>5. c \in ProcsOrNull /\ (c # NULL => Holds(f[RunQ], c))
  BY <1>1, <1>4, CursorStepsBack
<1>6. \A z \in Procs : Holds(elems[RunQ], z) /\ z # curr_proc => Holds(f[RunQ], z)
  BY <1>1, <1>4, HoldsWithout DEF Contents
<1> HIDE DEF c, m, f
<1>7. /\ x \in ProcsOrNull /\ y \in Contexts
      /\ x # NULL => x \in Procs /\ Holds(f[RunQ], x) /\ Queued(f, x)
      /\ y = IF x = NULL THEN Orig ELSE x
      /\ y = Orig <=> x = NULL
      /\ y = Orig => m.head[RunQ] = NULL
  BY <1>3, <1>5, PickFacts
<1> HIDE DEF x, y
<1>8. y # curr_proc /\ y \in live \cup {Orig} /\ (y # Orig => y \in live')
  BY <1>1, <1>2, <1>3, <1>7
<1>9. /\ \A p \in live : p # curr_proc => ctx[p] \in {At(p, "code"), At(p, "getc")}
      /\ ctx[Orig] = At(Orig, "hlt")
  BY <1>1 DEF IInv, Control, Saved
<1>10. /\ cpu' = ctx[y] /\ cpu' \in Registers /\ cpu'.self = y /\ cpu'.ret = cpu'.pc
       /\ y = Orig => cpu'.pc = "hlt"
       /\ y # Orig => cpu'.pc \in {"code", "getc"}
  BY <1>2, <1>8, <1>9, LoadedFacts
<1>11. TypeOK'
  BY <1>2, <1>3, <1>7, <1>10 DEF IInv, TypeOK
<1>12. QueuesSound'
  BY <1>2, <1>3, <1>7 DEF QueuesSound
<1>13. Control'
  <2>1. Saved'
    BY <1>2, <1>9 DEF Saved
  <2>2. CASE y = Orig
    BY <1>2, <1>7, <1>10, <2>1, <2>2 DEF Control, OnThread, OnKmain, InSwitch
  <2>3. CASE y # Orig
    BY <1>2, <1>7, <1>8, <1>10, <2>1, <2>3 DEF Control, OnThread, OnKmain, InSwitch
  <2> QED
    BY <2>2, <2>3
<1>14. \A p \in Procs : Reading(p) => p # curr_proc /\ Reading(p)'
  <2>1. ~Reading(curr_proc)
    BY <1>1 DEF Reading, Point
  <2>2. \A p \in Procs : p # curr_proc => Point(p)' = Point(p)
    BY <1>1, <1>2, <1>10 DEF Point
  <2> QED
    BY <2>1, <2>2 DEF Reading
<1>15. WaitersRead'
  BY <1>2, <1>4, <1>14 DEF IInv, WaitersRead
<1>16. ReaderPerCharacter'
  <2>1. kbd' \in Nat /\ kbd' <= kbd
    BY <1>2 DEF IInv, TypeOK
  <2> QED
    BY <1>2, <1>4, <1>6, <1>12, <1>14, <2>1, CountKept
<1>17. NoUnderrun'
  BY <1>2 DEF IInv, NoUnderrun
<1> QED
  BY <1>11, <1>12, <1>13, <1>15, <1>16, <1>17 DEF IInv

(* An interrupt outside CONTEXT_SWITCH finds curr_proc = next_proc, and    *)
(* returns to where it came from, or ends the hlt.                         *)
LEMMA ReturnFacts ==
  ASSUME IInv, ~WindowOpen, Interruptible, InterruptReturn
  PROVE  /\ UNCHANGED <<ctx, curr_proc>> /\ cpu' \in Registers /\ cpu.pc \notin Window
         /\ cpu'.self = cpu.self
         /\ \/ cpu.pc = "hlt" /\ cpu'.pc = "kmain"
            \/ cpu.pc # "hlt" /\ cpu' = cpu
         /\ \A p \in Procs : Reading(p)' <=> Reading(p)
<1> USE QueueFacts, PointNames
<1>1. cpu.pc \notin Window /\ cpu.pc # "wild" /\ cpu \in Registers /\ cpu.pc \in Points
  BY DEF Interruptible, IInv, TypeOK, Registers
<1>2. curr_proc = next_proc /\ (cpu.pc = "hlt" => cpu.self = Orig)
  BY <1>1 DEF IInv, Control, OnThread, OnKmain
<1>3. /\ UNCHANGED <<ctx, curr_proc>>
      /\ cpu' = IF cpu.pc = "hlt" THEN At(Orig, "kmain") ELSE cpu
  BY <1>2 DEF InterruptReturn
<1>4. At(Orig, "kmain") \in Registers /\ At(Orig, "kmain").self = Orig
      /\ At(Orig, "kmain").pc = "kmain"
  BY AtFacts DEF Contexts
<1>5. /\ cpu' \in Registers /\ cpu'.self = cpu.self
      /\ \/ cpu.pc = "hlt" /\ cpu'.pc = "kmain"
         \/ cpu.pc # "hlt" /\ cpu' = cpu
  BY <1>1, <1>2, <1>3, <1>4
<1>6. \A p \in Procs : Point(p)' = Point(p)
  BY <1>2, <1>3, <1>5 DEF Point
<1> QED
  BY <1>1, <1>3, <1>5, <1>6 DEF Reading

LEMMA OtherStep ==
  ASSUME IInv, ~WindowOpen, other_handler
  PROVE  IInv'
<1> USE QueueFacts, PointNames
<1>1. /\ UNCHANGED <<mem, current, curr_proc, next_proc, live, elems, ctx, kbd, underrun>>
      /\ cpu' \in Registers /\ cpu.pc \notin Window /\ cpu'.self = cpu.self
      /\ \/ cpu.pc = "hlt" /\ cpu'.pc = "kmain"
         \/ cpu.pc # "hlt" /\ cpu' = cpu
      /\ \A p \in Procs : Reading(p)' <=> Reading(p)
  BY ReturnFacts DEF other_handler
<1>2. TypeOK'
  BY <1>1 DEF IInv, TypeOK
<1>3. Control'
  BY <1>1 DEF IInv, Control, OnThread, OnKmain, InSwitch, Saved
<1>4. kbd' \in Nat /\ kbd' <= kbd /\ NoUnderrun'
  BY <1>1 DEF IInv, TypeOK, NoUnderrun
<1> QED
  BY <1>1, <1>2, <1>3, <1>4, QuietStep

(* keyboard_handler: one more character at most, and one more woken reader *)
(* for it if anybody waits.                                                *)
LEMMA KeyStep ==
  ASSUME IInv, ~WindowOpen, keyboard_handler
  PROVE  IInv'
<1> USE QueueFacts, PointNames
<1>1. /\ UNCHANGED <<current, curr_proc, next_proc, live, ctx, underrun>>
      /\ cpu' \in Registers /\ cpu.pc \notin Window /\ cpu'.self = cpu.self
      /\ \/ cpu.pc = "hlt" /\ cpu'.pc = "kmain"
         \/ cpu.pc # "hlt" /\ cpu' = cpu
      /\ \A p \in Procs : Reading(p)' <=> Reading(p)
  BY ReturnFacts DEF keyboard_handler
<1>2. /\ kbd' = IF kbd < BufCap THEN kbd + 1 ELSE kbd
      /\ mem' = unblock_head(mem, KbdQ)
      /\ elems' = IF elems[KbdQ] = << >> THEN elems
                    ELSE [elems EXCEPT ![RunQ] = Append(@, Head(elems[KbdQ])),
                                       ![KbdQ] = Tail(@)]
  BY DEF keyboard_handler
<1>3. /\ kbd \in Nat /\ kbd' \in 0..BufCap /\ kbd' <= kbd + 1 /\ kbd' >= kbd
  BY <1>2 DEF IInv, TypeOK
<1>4. elems[KbdQ] \in Seq(Procs) /\ elems[RunQ] \in Seq(Procs)
      /\ (mem.head[KbdQ] = NULL <=> elems[KbdQ] = << >>)
  <2>1. elems[KbdQ] \in Seq(Procs) /\ elems[RunQ] \in Seq(Procs)
    BY DEF Contents
  <2>2. mem.head[KbdQ] = IF Len(elems[KbdQ]) = 0 THEN NULL ELSE elems[KbdQ][1]
    BY DEF Spells, Represents
  <2>3. Len(elems[KbdQ]) = 0 <=> elems[KbdQ] = << >>
    BY <2>1, EmptySeq
  <2>4. elems[KbdQ] # << >> => elems[KbdQ][1] \in Procs
    BY <2>1, HeadTailProperties
  <2> QED
    BY <2>1, <2>2, <2>3, <2>4
<1>5. NoUnderrun'
  BY <1>1 DEF IInv, NoUnderrun
<1>6. CASE elems[KbdQ] = << >>
  <2>1. mem' = mem /\ elems' = elems
    BY <1>2, <1>4, <1>6 DEF unblock_head
  <2>2. TypeOK'
    BY <1>1, <1>3, <2>1 DEF IInv, TypeOK
  <2>3. Control'
    BY <1>1, <1>3, <2>1 DEF IInv, Control, OnThread, OnKmain, InSwitch, Saved
  <2>4. QueuesSound' /\ WaitersRead'
    BY <1>1, <2>1 DEF IInv, QueuesSound, WaitersRead
  <2>5. ReaderPerCharacter'
    BY <1>6, <2>1 DEF ReaderPerCharacter
  <2> QED
    BY <1>5, <2>2, <2>3, <2>4, <2>5 DEF IInv
<1>7. CASE elems[KbdQ] # << >>
  <2> DEFINE h == Head(elems[KbdQ])
             n == unblock_head(mem, KbdQ)
             f == [elems EXCEPT ![RunQ] = Append(@, Head(elems[KbdQ])), ![KbdQ] = Tail(@)]
  <2>1. /\ n \in Memories /\ f \in Contents
        /\ Spells(n, f) /\ Disjoint(f) /\ Unlinked(n, f)
        /\ \A z \in Procs : Queued(f, z) <=> Queued(elems, z)
        /\ \A z \in Procs : Holds(elems[RunQ], z) => Holds(f[RunQ], z)
    BY <1>4, <1>7, UnblockHead
  <2>2. mem' = n /\ elems' = f
    BY <1>2, <1>7
  <2>3. h \in Procs
    BY <1>4, <1>7, HeadTailProperties
  <2>4. elems'[RunQ] = Append(elems[RunQ], h) /\ elems'[KbdQ] = Tail(elems[KbdQ])
    BY <2>2 DEF Contents
  <2>5. /\ mem' \in Memories /\ elems' \in Contents
        /\ Spells(mem', elems') /\ Disjoint(elems') /\ Unlinked(mem', elems')
        /\ \A z \in Procs : Queued(elems', z) <=> Queued(elems, z)
        /\ \A z \in Procs : Holds(elems[RunQ], z) => Holds(elems'[RunQ], z)
    <3> HIDE DEF n, f
    <3> QED
      BY <2>1, <2>2
  <2>6. /\ Holds(elems[KbdQ], h) /\ Holds(elems'[RunQ], h)
        /\ \A z : Holds(elems'[KbdQ], z) => Holds(elems[KbdQ], z)
    BY <1>4, <1>7, <2>3, <2>4, HoldsTail, HoldsAppend
  <2> HIDE DEF h, n, f
  <2>7. TypeOK'
    BY <1>1, <1>3, <2>5 DEF IInv, TypeOK
  <2>8. QueuesSound'
    BY <1>1, <2>5 DEF IInv, QueuesSound, ProcsOrNull
  <2>9. Control'
    BY <1>1, <1>3 DEF IInv, Control, OnThread, OnKmain, InSwitch, Saved
  <2>10. WaitersRead'
    BY <1>1, <2>6 DEF IInv, WaitersRead
  <2>11. ReaderPerCharacter'
    <3> DEFINE s == elems[RunQ]
               t == elems'[RunQ]
    <3>1. s \in Seq(Procs) /\ Distinct(s) /\ t \in Seq(Procs) /\ Distinct(t)
      BY <2>5, RunQueueFacts
    <3>2. Woken = In(s, Readers) /\ Woken' = In(t, Readers')
      <4>1. (\A k \in 1..Len(s) : s[k] \in Procs) /\ (\A k \in 1..Len(t) : t[k] \in Procs)
        BY <3>1
      <4> QED
        BY <4>1 DEF Woken, In, Readers
    <3>3. \A p \in Procs : Holds(s, p) /\ p \in Readers => Holds(t, p) /\ p \in Readers'
      BY <1>1, <2>5 DEF Readers
    <3>4. ~Holds(s, h)
      BY <2>6 DEF Disjoint, Holds
    <3>5. Holds(t, h) /\ h \in Readers'
      BY <1>1, <2>3, <2>6 DEF Readers, IInv, WaitersRead
    <3> HIDE DEF s, t
    <3>6. /\ Cardinality(In(s, Readers)) \in Nat /\ Cardinality(In(t, Readers')) \in Nat
          /\ Cardinality(In(s, Readers)) + 1 <= Cardinality(In(t, Readers'))
      BY <2>3, <3>1, <3>3, <3>4, <3>5, CountFacts
    <3>7. kbd <= Cardinality(In(s, Readers))
      BY <1>7, <3>2 DEF IInv, ReaderPerCharacter
    <3>8. kbd' <= Cardinality(In(t, Readers'))
      BY <1>3, <3>6, <3>7
    <3> QED
      BY <3>2, <3>8 DEF ReaderPerCharacter
  <2> QED
    BY <1>5, <2>7, <2>8, <2>9, <2>10, <2>11 DEF IInv
<1> QED
  BY <1>6, <1>7

LEMMA NextIInv ==
  ASSUME ~WindowOpen
  PROVE  IInv /\ [Next]_vars => IInv'
<1> SUFFICES ASSUME IInv, [Next]_vars PROVE IInv'
  OBVIOUS
<1>1. CASE Next
  BY <1>1, CreateStep, RunStep, YieldStep, WaitStep, ReadStep, ExitStep, CompareStep,
     SaveStep, LoadStep, KeyStep, OtherStep DEF Next
<1>2. CASE UNCHANGED vars
  BY <1>2 DEF vars, IInv, TypeOK, QueuesSound, Control, OnThread, OnKmain, InSwitch, Saved,
     WaitersRead, Reading, Point, ReaderPerCharacter, Woken, NoUnderrun
<1> QED
  BY <1>1, <1>2

LEMMA Inductive ==
  ASSUME ~WindowOpen
  PROVE  Spec => []IInv
BY InitIInv, NextIInv, PTL DEF Spec

(* Links, cursor, pointers and saved registers keep their types, and the   *)
(* keyboard buffer its bound, for any number of threads.                   *)
THEOREM TypeCorrect ==
  ASSUME ~WindowOpen
  PROVE  Spec => []TypeOK
<1>1. IInv => TypeOK
  BY DEF IInv
<1> QED
  BY Inductive, <1>1, PTL

(* yield_sys_call, kexit and the switch hand the CPU only to a live thread *)
(* on the run queue, the one curr_proc names, and never to the context of  *)
(* a freed one.                                                            *)
THEOREM ControlIsEligible ==
  ASSUME ~WindowOpen
  PROVE  Spec => []ControlReachesEligible
<1>1. IInv => ControlReachesEligible
  <2> SUFFICES ASSUME IInv PROVE ControlReachesEligible
    OBVIOUS
  <2> USE QueueFacts
  <2>1. cpu.pc # "wild"
    BY DEF IInv, Control
  <2>2. InOwnCode => /\ cpu.self = curr_proc /\ curr_proc \in live /\ current = curr_proc
    BY DEF InOwnCode, IInv, Control, OnThread
  <2> QED
    BY <2>1, <2>2 DEF ControlReachesEligible
<1> QED
  BY Inductive, <1>1, PTL

(* kmain reaches hlt only with an empty run queue: a thread that was made  *)
(* runnable while the last one gave up the CPU is never slept on.          *)
THEOREM HaltsOnlyWhenIdle ==
  ASSUME ~WindowOpen
  PROVE  Spec => []HaltOnlyWhenIdle
<1>1. IInv => HaltOnlyWhenIdle
  BY DEF IInv, Control, OnKmain, HaltOnlyWhenIdle
<1> QED
  BY Inductive, <1>1, PTL

(* getc never reads an empty buffer, however many readers compete.         *)
THEOREM NeverUnderruns ==
  ASSUME ~WindowOpen
  PROVE  Spec => []NoUnderrun
<1>1. IInv => NoUnderrun
  BY DEF IInv
<1> QED
  BY Inductive, <1>1, PTL

(* While anybody waits for the keyboard, every buffered character has a    *)
(* woken reader of its own on the run queue: one PROC_unblock_head for     *)
(* each character is enough.                                               *)
THEOREM EveryCharacterHasReader ==
  ASSUME ~WindowOpen
  PROVE  Spec => []ReaderPerCharacter
<1>1. IInv => ReaderPerCharacter
  BY DEF IInv
<1> QED
  BY Inductive, <1>1, PTL

-----------------------------------------------------------------------------
(* The machine implements Scheduler. *)

(* The instance's copies of the queue operators are the operators. *)
LEMMA SameOperators ==
  /\ \A m, p : Sched!kcalloc(m, p) = kcalloc(m, p)
  /\ \A m, p : Sched!sched_admit(m, p) = sched_admit(m, p)
  /\ \A m, p, q : Sched!append_proc(m, p, q) = append_proc(m, p, q)
  /\ \A m, p : Sched!sched_remove(m, p) = sched_remove(m, p)
  /\ \A m, c, p : Sched!sched_remove_current(m, c, p) = sched_remove_current(m, c, p)
  /\ \A m, c : Sched!rr_next(m, c) = rr_next(m, c)
  /\ \A m : Sched!are_procs_scheduled(m) = are_procs_scheduled(m)
  /\ \A m, q : Sched!unblock_head(m, q) = unblock_head(m, q)
  /\ \A s, p : Sched!Without(s, p) = Without(s, p)
  /\ Sched!PROC_init_queue = PROC_init_queue
BY DEF Sched!kcalloc, kcalloc, Sched!sched_admit, sched_admit, Sched!append_proc, append_proc,
       Sched!sched_remove, sched_remove, Sched!remove_proc, remove_proc,
       Sched!sched_remove_current, sched_remove_current, Sched!rr_next, rr_next,
       Sched!are_procs_scheduled, are_procs_scheduled, Sched!unblock_head, unblock_head,
       Sched!pop_proc, pop_proc, Sched!Without, Without, Sched!DropAt, DropAt,
       Sched!Position, Position, Sched!PROC_init_queue, PROC_init_queue

LEMMA InitRefines == Init => Sched!Init
<1> SUFFICES ASSUME Init PROVE Sched!Init
  OBVIOUS
<1>1. cpu.pc = "kmain"
  BY DEF Init, At
<1> QED
  BY <1>1, SameOperators DEF Init, Sched!Init, SchedulerPhase, Window

(* SchedulerPhase, point by point. *)
LEMMA PhaseFacts ==
  /\ cpu.pc \in {"kmain", "code", "getc", "read"} => SchedulerPhase = "run"
  /\ cpu.pc = "hlt" => SchedulerPhase = "hlt"
  /\ cpu.pc = "yield" => SchedulerPhase = "yield"
  /\ cpu.pc \in Window => SchedulerPhase = IF next_proc = Orig THEN "hlt" ELSE "run"
BY DEF SchedulerPhase, Window

LEMMA PhaseFactsNext ==
  /\ cpu'.pc \in {"kmain", "code", "getc", "read"} => SchedulerPhase' = "run"
  /\ cpu'.pc = "hlt" => SchedulerPhase' = "hlt"
  /\ cpu'.pc = "yield" => SchedulerPhase' = "yield"
  /\ cpu'.pc \in Window => SchedulerPhase' = IF next_proc' = Orig THEN "hlt" ELSE "run"
BY DEF SchedulerPhase, Window

(* Stepping inside CONTEXT_SWITCH, testing the buffer and reading from it  *)
(* are no steps of the scheduler.                                          *)
LEMMA StutterRefines ==
  ASSUME UNCHANGED <<mem, current, next_proc, live, elems>>, SchedulerPhase' = SchedulerPhase
  PROVE  UNCHANGED Sched!vars
BY DEF Sched!vars

LEMMA CreateRefines ==
  ASSUME IInv, NEW t \in Procs, PROC_create_kthread(t)
  PROVE  Sched!Next
<1> USE QueueFacts, PhaseFacts, PhaseFactsNext
<1>1. next_proc \notin Procs /\ SchedulerPhase = "run" /\ SchedulerPhase' = "run"
  BY DEF PROC_create_kthread, IInv, Control, OnKmain
<1>2. Sched!PROC_create_kthread(t)
  BY <1>1, SameOperators DEF PROC_create_kthread, Sched!PROC_create_kthread, Sched!InKmain, Join
<1> QED
  BY <1>2 DEF Sched!Next

LEMMA RunRefines ==
  ASSUME IInv, PROC_run
  PROVE  Sched!Next
<1> USE QueueFacts, PhaseFacts, PhaseFactsNext
<1>1. next_proc \notin Procs /\ SchedulerPhase = "run"
  BY DEF PROC_run, IInv, Control, OnKmain
<1>2. CASE are_procs_scheduled(mem)
  <2>1. Reschedule("hlt") /\ UNCHANGED <<mem, live, elems>>
    BY <1>2 DEF PROC_run
  <2>2. cpu'.pc = "cmp"
    BY <2>1 DEF Reschedule, IInv, TypeOK, Registers
  <2>3. Sched!PROC_reschedule(mem, current)
    BY <2>1, <2>2, SameOperators DEF Reschedule, Sched!PROC_reschedule, Window
  <2>4. Sched!PROC_run_yield
    BY <1>1, <1>2, <2>1, <2>3, SameOperators DEF Sched!PROC_run_yield, Sched!InKmain
  <2> QED
    BY <2>4 DEF Sched!Next
<1>3. CASE ~are_procs_scheduled(mem)
  <2>1. /\ cpu' = At(Orig, "hlt") /\ next_proc' = Orig
        /\ UNCHANGED <<current, mem, live, elems>>
    BY <1>3 DEF PROC_run
  <2>2. cpu'.pc = "hlt"
    BY <2>1 DEF At
  <2>3. Sched!PROC_run_idle
    BY <1>1, <1>3, <2>1, <2>2, SameOperators DEF Sched!PROC_run_idle, Sched!InKmain
  <2> QED
    BY <2>3 DEF Sched!Next
<1> QED
  BY <1>2, <1>3

LEMMA YieldRefines ==
  ASSUME IInv, yield_sys_call
  PROVE  Sched!Next
<1> USE QueueFacts, PhaseFacts, PhaseFactsNext
<1>1. /\ next_proc \in Procs /\ SchedulerPhase \in {"run", "yield"}
      /\ UNCHANGED <<mem, live, elems>>
  BY DEF yield_sys_call, IInv, Control, OnThread
<1>2. PICK r \in {"getc", "code"} : Reschedule(r)
  BY DEF yield_sys_call
<1>3. cpu'.pc = "cmp"
  BY <1>2 DEF Reschedule, IInv, TypeOK, Registers
<1>4. Sched!PROC_reschedule(mem, current)
  BY <1>2, <1>3, SameOperators DEF Reschedule, Sched!PROC_reschedule, Window
<1>5. Sched!yield_sys_call
  BY <1>1, <1>4, SameOperators DEF Sched!yield_sys_call, Sched!InThread
<1> QED
  BY <1>5 DEF Sched!Next

LEMMA WaitRefines ==
  ASSUME IInv, wait_event_interruptable
  PROVE  Sched!Next \/ UNCHANGED Sched!vars
<1> USE QueueFacts, PhaseFacts, PhaseFactsNext
<1>1. /\ cpu.pc \in {"code", "getc"} /\ next_proc = curr_proc /\ curr_proc \in Procs
      /\ current = curr_proc /\ Holds(elems[RunQ], curr_proc) /\ cpu \in Registers
      /\ UNCHANGED <<curr_proc, next_proc, live>>
  BY DEF wait_event_interruptable, IInv, TypeOK, Control, OnThread
<1>2. CASE kbd > 0
  <2>1. cpu' = [cpu EXCEPT !.pc = "read"] /\ UNCHANGED <<mem, current, elems>>
    BY <1>2 DEF wait_event_interruptable
  <2>2. cpu'.pc = "read"
    BY <1>1, <2>1 DEF Registers
  <2> QED
    BY <1>1, <2>1, <2>2, StutterRefines
<1>3. CASE ~(kbd > 0)
  <2>1. /\ mem' = append_proc(sched_remove(mem, curr_proc), curr_proc, KbdQ)
        /\ current' = sched_remove_current(mem, current, curr_proc)
        /\ elems' = Join(Leave(elems, curr_proc), curr_proc, KbdQ)
        /\ cpu' = [cpu EXCEPT !.pc = "yield"]
    BY <1>3 DEF wait_event_interruptable
  <2>2. elems' = [elems EXCEPT ![RunQ] = Without(@, curr_proc),
                               ![KbdQ] = Append(@, curr_proc)]
    <3>1. Leave(elems, curr_proc) = [elems EXCEPT ![RunQ] = Without(@, curr_proc)]
      BY <1>1 DEF Leave
    <3> QED
      BY <2>1, <3>1 DEF Join
  <2>3. cpu'.pc = "yield"
    BY <1>1, <2>1 DEF Registers
  <2>4. Sched!PROC_block_on(KbdQ)
    BY <1>1, <2>1, <2>2, <2>3, SameOperators DEF Sched!PROC_block_on, Sched!InThread
  <2> QED
    BY <2>4 DEF Sched!Next, Sched!WaitQueues
<1> QED
  BY <1>2, <1>3

LEMMA ExitRefines ==
  ASSUME IInv, IInv', kexit_isr
  PROVE  Sched!Next
<1> USE QueueFacts, PhaseFacts, PhaseFactsNext
<1>1. /\ cpu.pc = "code" /\ next_proc = curr_proc /\ curr_proc \in Procs
      /\ current = curr_proc /\ Holds(elems[RunQ], curr_proc)
  BY DEF kexit_isr, IInv, TypeOK, Control, OnThread
<1> DEFINE m == sched_remove(mem, curr_proc)
           x == rr_next(m, sched_remove_current(mem, current, curr_proc))
           y == IF x = NULL THEN Orig ELSE x
<1>2. /\ mem' = m /\ elems' = [elems EXCEPT ![RunQ] = Without(@, curr_proc)]
      /\ current' = x /\ next_proc' = y /\ curr_proc' = y
      /\ cpu' = IF y = curr_proc THEN cpu ELSE Loaded(ctx, y)
      /\ live' = live \ {curr_proc} /\ UNCHANGED ctx
  BY <1>1 DEF kexit_isr, Leave
<1> HIDE DEF m, x, y
<1>3. cpu'.pc = IF y = Orig THEN "hlt" ELSE cpu'.pc
  <2>1. CASE y = Orig
    <3>1. ctx[Orig] = At(Orig, "hlt") /\ Loaded(ctx, Orig) = ctx[Orig]
      BY <1>1 DEF IInv, Control, Saved, Loaded
    <3> QED
      BY <1>1, <1>2, <2>1, <3>1 DEF At
  <2> QED
    BY <2>1
<1>4. y # Orig => cpu'.pc \in {"code", "getc"}
  <2> SUFFICES ASSUME y # Orig PROVE cpu'.pc \in {"code", "getc"}
    OBVIOUS
  <2>1. y \in live' /\ y # curr_proc
    <3>1. y \in Procs /\ current' = y
      BY <1>2 DEF IInv, TypeOK, ProcsOrNull, y
    <3>2. Holds(elems'[RunQ], y)
      BY <1>2, <3>1 DEF IInv, QueuesSound
    <3>3. Queued(elems', y)
      BY <3>2 DEF Queued
    <3>4. y \in live'
      BY <3>1, <3>3 DEF IInv, QueuesSound
    <3> QED
      BY <1>2, <3>4
  <2>2. ctx[y] \in {At(y, "code"), At(y, "getc")} /\ y \in live
    BY <1>1, <1>2, <2>1 DEF IInv, Control, Saved
  <2>3. cpu' = ctx[y]
    BY <1>2, <2>1, <2>2 DEF Loaded
  <2> QED
    BY <2>2, <2>3 DEF At
<1>5. SchedulerPhase' = IF y = Orig THEN "hlt" ELSE "run"
  BY <1>3, <1>4
<1>6. Sched!PROC_reschedule(mem', sched_remove_current(mem, next_proc, next_proc))
  BY <1>1, <1>2, <1>5, SameOperators DEF Sched!PROC_reschedule, x, y
<1>7. Sched!kexit_isr
  BY <1>1, <1>2, <1>6, SameOperators DEF Sched!kexit_isr, Sched!InThread, m
<1> QED
  BY <1>7 DEF Sched!Next

LEMMA SwitchRefines ==
  ASSUME IInv, getc_sys_call \/ switch_compare \/ switch_save \/ switch_load
  PROVE  UNCHANGED Sched!vars
<1> USE QueueFacts, PhaseFacts, PhaseFactsNext
<1>1. UNCHANGED <<mem, current, next_proc, live, elems>> /\ cpu \in Registers
  BY DEF getc_sys_call, switch_compare, switch_save, switch_load, IInv, TypeOK
<1>2. CASE getc_sys_call
  <2>1. cpu.pc = "read" /\ next_proc \in Procs
    BY <1>2 DEF getc_sys_call, IInv, Control, OnThread
  <2>2. cpu'.pc = "cmp"
    BY <1>1, <1>2 DEF getc_sys_call, Registers
  <2> QED
    BY <1>1, <2>1, <2>2, StutterRefines DEF Window
<1>3. CASE switch_compare
  <2>1. /\ cpu.pc = "cmp" /\ cpu.self = curr_proc
        /\ cpu.ret \in IF cpu.self = Orig THEN {"hlt"} ELSE {"code", "getc"}
    BY <1>3 DEF switch_compare, IInv, Control, InSwitch, Window
  <2>2. CASE curr_proc = next_proc
    <3>1. cpu'.pc = cpu.ret
      BY <1>3, <2>2 DEF switch_compare, At
    <3> QED
      BY <1>1, <2>1, <2>2, <3>1, StutterRefines DEF Window
  <2>3. CASE curr_proc # next_proc
    <3>1. cpu'.pc = "save"
      BY <1>1, <1>3, <2>3 DEF switch_compare, Registers
    <3> QED
      BY <1>1, <2>1, <3>1, StutterRefines DEF Window
  <2> QED
    BY <2>2, <2>3
<1>4. CASE switch_save
  <2>1. cpu.pc = "save" /\ cpu'.pc = "load"
    BY <1>1, <1>4 DEF switch_save, Registers
  <2> QED
    BY <1>1, <2>1, StutterRefines DEF Window
<1>5. CASE switch_load
  <2>1. /\ cpu.pc = "load" /\ cpu' = Loaded(ctx, next_proc)
        /\ next_proc = IF current = NULL THEN Orig ELSE current
    BY <1>5 DEF switch_load, IInv, Control, InSwitch, Window
  <2>2. current # NULL => current \in live
    BY DEF Queued, ProcsOrNull
  <2>3. next_proc \in live \cup {Orig}
    BY <2>1, <2>2
  <2>4. /\ \A p \in live : ctx[p] \in {At(p, "code"), At(p, "getc")}
        /\ ctx[Orig] = At(Orig, "hlt")
    BY <2>1 DEF IInv, Control, Saved
  <2>5. /\ next_proc = Orig => cpu'.pc = "hlt"
        /\ next_proc # Orig => cpu'.pc \in {"code", "getc"}
    BY <2>1, <2>3, <2>4, LoadedFacts
  <2> QED
    BY <1>1, <2>1, <2>5, StutterRefines DEF Window
<1> QED
  BY <1>2, <1>3, <1>4, <1>5

LEMMA OtherRefines ==
  ASSUME IInv, ~WindowOpen, other_handler
  PROVE  Sched!Next \/ UNCHANGED Sched!vars
<1> USE QueueFacts, PhaseFacts, PhaseFactsNext
<1>1. /\ UNCHANGED <<mem, current, next_proc, live, elems>> /\ cpu.pc \notin Window
      /\ \/ cpu.pc = "hlt" /\ cpu'.pc = "kmain"
         \/ cpu.pc # "hlt" /\ cpu' = cpu
  BY ReturnFacts DEF other_handler
<1>2. CASE cpu.pc = "hlt"
  <2>1. Sched!OtherInterrupt
    BY <1>1, <1>2 DEF Sched!OtherInterrupt
  <2> QED
    BY <2>1 DEF Sched!Next
<1>3. CASE cpu.pc # "hlt"
  <2>1. SchedulerPhase' = SchedulerPhase
    BY <1>1, <1>3 DEF SchedulerPhase
  <2> QED
    BY <1>1, <2>1, StutterRefines
<1> QED
  BY <1>2, <1>3

LEMMA KeyRefines ==
  ASSUME IInv, ~WindowOpen, keyboard_handler
  PROVE  Sched!Next \/ UNCHANGED Sched!vars
<1> USE QueueFacts, PhaseFacts, PhaseFactsNext
<1>1. /\ UNCHANGED <<current, next_proc, live>> /\ cpu.pc \notin Window
      /\ \/ cpu.pc = "hlt" /\ cpu'.pc = "kmain"
         \/ cpu.pc # "hlt" /\ cpu' = cpu
  BY ReturnFacts DEF keyboard_handler
<1>2. /\ mem' = unblock_head(mem, KbdQ)
      /\ elems' = IF elems[KbdQ] = << >> THEN elems
                    ELSE [elems EXCEPT ![RunQ] = Append(@, Head(elems[KbdQ])),
                                       ![KbdQ] = Tail(@)]
  BY DEF keyboard_handler
<1>3. SchedulerPhase' = IF SchedulerPhase = "hlt" THEN "run" ELSE SchedulerPhase
  <2>1. CASE cpu.pc = "hlt"
    BY <1>1, <2>1
  <2>2. CASE cpu.pc # "hlt"
    <3>1. SchedulerPhase' = SchedulerPhase /\ SchedulerPhase # "hlt"
      BY <1>1, <2>2 DEF SchedulerPhase
    <3> QED
      BY <3>1
  <2> QED
    BY <2>1, <2>2
<1>4. mem.head[KbdQ] = NULL <=> elems[KbdQ] = << >>
  <2>1. elems[KbdQ] \in Seq(Procs)
    BY DEF Contents
  <2>2. mem.head[KbdQ] = IF Len(elems[KbdQ]) = 0 THEN NULL ELSE elems[KbdQ][1]
    BY DEF Spells, Represents
  <2>3. Len(elems[KbdQ]) = 0 <=> elems[KbdQ] = << >>
    BY <2>1, EmptySeq
  <2>4. elems[KbdQ] # << >> => elems[KbdQ][1] \in Procs
    BY <2>1, HeadTailProperties
  <2> QED
    BY <2>2, <2>3, <2>4
<1>5. CASE elems[KbdQ] = << >>
  <2>1. mem' = mem /\ elems' = elems
    BY <1>2, <1>4, <1>5 DEF unblock_head
  <2>2. CASE SchedulerPhase = "hlt"
    <3>1. Sched!OtherInterrupt
      BY <1>1, <1>3, <2>1, <2>2 DEF Sched!OtherInterrupt
    <3> QED
      BY <3>1 DEF Sched!Next
  <2>3. CASE SchedulerPhase # "hlt"
    BY <1>1, <1>3, <2>1, <2>3, StutterRefines
  <2> QED
    BY <2>2, <2>3
<1>6. CASE elems[KbdQ] # << >>
  <2>1. Sched!PROC_unblock_head(KbdQ)
    BY <1>1, <1>2, <1>3, <1>4, <1>6, SameOperators DEF Sched!PROC_unblock_head, Sched!Wakes
  <2> QED
    BY <2>1 DEF Sched!Next, Sched!WaitQueues
<1> QED
  BY <1>5, <1>6

LEMMA StepRefines ==
  ASSUME ~WindowOpen
  PROVE  IInv /\ IInv' /\ [Next]_vars => [Sched!Next]_(Sched!vars)
<1> SUFFICES ASSUME IInv, IInv', [Next]_vars PROVE Sched!Next \/ UNCHANGED Sched!vars
  OBVIOUS
<1>1. CASE Next
  BY <1>1, CreateRefines, RunRefines, YieldRefines, WaitRefines, ExitRefines, SwitchRefines,
     KeyRefines, OtherRefines DEF Next
<1>2. CASE UNCHANGED vars
  BY <1>2, StutterRefines DEF vars, SchedulerPhase
<1> QED
  BY <1>1, <1>2

(* The machine, with its registers, saved contexts and the three steps of  *)
(* CONTEXT_SWITCH, implements Scheduler, for any number of threads: what   *)
(* is proved of Scheduler, and of the ring it implements, holds of proc.c  *)
(* when no interrupt arrives inside the switch.                            *)
THEOREM Refinement ==
  ASSUME ~WindowOpen
  PROVE  Spec => ImplementsScheduler
BY Inductive, InitRefines, StepRefines, PTL DEF Spec, ImplementsScheduler, Sched!Spec
===============================================================================
