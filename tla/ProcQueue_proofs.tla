--------------------------- MODULE ProcQueue_proofs ---------------------------
(***************************************************************************)
(* The list operations of proc_queue.c do to the links what they are meant *)
(* to do to the sequence of queued processes, for any number of processes  *)
(* and queues.                                                             *)
(***************************************************************************)
EXTENDS ProcQueue, SequenceTheorems, TLAPS

Contents == [Queues -> Seq(Procs)]

(* Facts about sequences the proofs below need. *)
LEMMA DropAtFacts ==
  ASSUME NEW S, NEW s \in Seq(S), NEW k \in 1..Len(s)
  PROVE  /\ DropAt(s, k) \in Seq(S)
         /\ Len(DropAt(s, k)) = Len(s) - 1
         /\ \A i \in 1..(Len(s) - 1) :
              DropAt(s, k)[i] = IF i < k THEN s[i] ELSE s[i + 1]
<1> DEFINE n == Len(s) - 1
           d == [i \in 1..n |-> IF i < k THEN s[i] ELSE s[i + 1]]
<1>1. n \in Nat /\ \A i \in 1..n : i \in 1..Len(s) /\ i + 1 \in 1..Len(s)
  OBVIOUS
<1>2. \A i \in 1..n : (IF i < k THEN s[i] ELSE s[i + 1]) \in S
  BY <1>1
<1>3. d \in [1..n -> S]
  BY <1>2
<1>4. d \in Seq(S) /\ Len(d) = n
  BY <1>1, <1>3
<1> QED
  BY <1>1, <1>4 DEF DropAt

LEMMA DropFirst ==
  ASSUME NEW S, NEW s \in Seq(S), s # << >>
  PROVE  DropAt(s, 1) = Tail(s)
<1>1. Len(s) \in Nat /\ 1 \in 1..Len(s)
  BY EmptySeq, LenProperties
<1>2. /\ DropAt(s, 1) \in Seq(S) /\ Len(DropAt(s, 1)) = Len(s) - 1
      /\ \A i \in 1..(Len(s) - 1) : DropAt(s, 1)[i] = s[i + 1]
  <2>1. /\ DropAt(s, 1) \in Seq(S) /\ Len(DropAt(s, 1)) = Len(s) - 1
        /\ \A i \in 1..(Len(s) - 1) :
             DropAt(s, 1)[i] = IF i < 1 THEN s[i] ELSE s[i + 1]
    BY <1>1, DropAtFacts
  <2>2. \A i \in 1..(Len(s) - 1) : ~(i < 1)
    BY <1>1
  <2> QED
    BY <2>1, <2>2
<1>3. /\ Tail(s) \in Seq(S) /\ Len(Tail(s)) = Len(s) - 1
      /\ \A i \in 1..Len(Tail(s)) : Tail(s)[i] = s[i + 1]
  BY HeadTailProperties
<1> QED
  BY <1>2, <1>3, SeqEqual

LEMMA PositionFacts ==
  ASSUME NEW S, NEW s \in Seq(S), NEW p, Holds(s, p)
  PROVE  Position(s, p) \in 1..Len(s) /\ s[Position(s, p)] = p
BY DEF Holds, Position

(* append_proc of a process that is in no queue appends it to the queue,   *)
(* and leaves the other queues alone.                                      *)
LEMMA AppendProc ==
  ASSUME NEW m \in Memories, NEW e \in Contents, NEW p \in Procs,
         NEW q \in Queues,
         Spells(m, e), Disjoint(e), Unlinked(m, e), ~Queued(e, p)
  PROVE  LET n == append_proc(m, p, q)
             f == [e EXCEPT ![q] = Append(@, p)]
         IN /\ n \in Memories /\ f \in Contents
            /\ Spells(n, f) /\ Disjoint(f) /\ Unlinked(n, f)
            /\ \A x \in Procs : Queued(f, x) <=> Queued(e, x) \/ x = p
            /\ \A x \in Procs : Holds(e[q], x) => Holds(f[q], x)
<1> DEFINE n == append_proc(m, p, q)
           f == [e EXCEPT ![q] = Append(@, p)]
           k == Len(e[q])
<1> USE ProcQueueAssumption
<1>1. n \in Memories
  BY DEF append_proc, Memories, ProcsOrNull
<1>2. f \in Contents
  BY DEF Contents
<1>3. /\ \A r \in Queues : r # q => f[r] = e[r]
      /\ k \in Nat /\ Len(f[q]) = k + 1 /\ f[q][k + 1] = p
      /\ \A i \in 1..k : f[q][i] = e[q][i]
  BY DEF Contents
<1>4. \A r \in Queues : \A i \in 1..Len(e[r]) : e[r][i] \in Procs /\ e[r][i] # p
  BY DEF Contents, Queued, Holds
<1>5. m.next[p] = NULL /\ m.prev[p] = NULL
  BY DEF Unlinked
<1>6. Disjoint(f)
  BY <1>3, <1>4 DEF Disjoint, Contents
<1>7. \A x \in Procs : Queued(f, x) <=> Queued(e, x) \/ x = p
  <2> SUFFICES ASSUME NEW x \in Procs PROVE Queued(f, x) <=> Queued(e, x) \/ x = p
    OBVIOUS
  <2>1. \A r \in Queues : r # q => (Holds(f[r], x) <=> Holds(e[r], x))
    BY <1>3
  <2>2. Holds(f[q], x) <=> Holds(e[q], x) \/ x = p
    BY <1>3 DEF Holds
  <2> QED
    BY <2>1, <2>2 DEF Queued
<1>10. \A x \in Procs : Holds(e[q], x) => Holds(f[q], x)
  BY <1>3 DEF Holds
<1>8. CASE k = 0
  <2>1. m.head[q] = NULL
    BY <1>8 DEF Spells, Represents
  <2>2. n.next = m.next /\ n.prev = m.prev
    BY <2>1 DEF append_proc, Memories
  <2>3. /\ n.head[q] = p /\ n.tail[q] = p
        /\ \A r \in Queues : r # q => n.head[r] = m.head[r] /\ n.tail[r] = m.tail[r]
    BY <2>1 DEF append_proc, Memories
  <2>4. Represents(n, q, f[q])
    BY <1>3, <1>5, <1>8, <2>2, <2>3 DEF Represents
  <2>5. \A r \in Queues : r # q => Represents(n, r, f[r])
    BY <1>3, <2>2, <2>3 DEF Represents, Spells
  <2>6. Unlinked(n, f)
    BY <1>7, <2>2 DEF Unlinked
  <2> QED
    BY <1>1, <1>2, <1>6, <1>7, <1>10, <2>4, <2>5, <2>6 DEF Spells
<1>9. CASE k # 0
  <2> DEFINE t == m.tail[q]
  <2>1. m.head[q] # NULL /\ t = e[q][k] /\ t \in Procs /\ t # p /\ k \in 1..k
    BY <1>3, <1>4, <1>9 DEF Spells, Represents
  <2>2. /\ \A x \in Procs : n.next[x] = IF x = t THEN p ELSE m.next[x]
        /\ \A x \in Procs : n.prev[x] = IF x = p THEN t ELSE m.prev[x]
        /\ n.head = m.head
        /\ n.tail[q] = p
        /\ \A r \in Queues : r # q => n.tail[r] = m.tail[r]
    BY <2>1 DEF append_proc, Memories
  <2>3. \A r \in Queues : \A i \in 1..Len(e[r]) :
          e[r][i] = t <=> r = q /\ i = k
    BY <2>1 DEF Disjoint
  <2>4. Represents(n, q, f[q])
    <3>1. n.head[q] = f[q][1] /\ n.tail[q] = f[q][k + 1]
      BY <1>3, <1>9, <2>1, <2>2 DEF Spells, Represents
    <3>2. \A i \in 1..k : /\ n.next[f[q][i]] = f[q][i + 1]
                          /\ n.prev[f[q][i]] = IF i = 1 THEN NULL ELSE f[q][i - 1]
      <4> SUFFICES ASSUME NEW i \in 1..k
                   PROVE  /\ n.next[f[q][i]] = f[q][i + 1]
                          /\ n.prev[f[q][i]] = IF i = 1 THEN NULL ELSE f[q][i - 1]
        OBVIOUS
      <4>1. /\ m.next[e[q][i]] = IF i = k THEN NULL ELSE e[q][i + 1]
            /\ m.prev[e[q][i]] = IF i = 1 THEN NULL ELSE e[q][i - 1]
        BY DEF Spells, Represents
      <4>2. f[q][i] = e[q][i] /\ e[q][i] \in Procs /\ e[q][i] # p
        BY <1>3, <1>4
      <4>3. n.next[f[q][i]] = f[q][i + 1]
        BY <1>3, <2>1, <2>2, <2>3, <4>1, <4>2
      <4>4. n.prev[f[q][i]] = IF i = 1 THEN NULL ELSE f[q][i - 1]
        BY <1>3, <2>2, <4>1, <4>2
      <4> QED
        BY <4>3, <4>4
    <3>3. n.next[p] = NULL /\ n.prev[p] = f[q][k]
      BY <1>3, <1>5, <2>1, <2>2
    <3> QED
      BY <1>3, <1>9, <3>1, <3>2, <3>3 DEF Represents
  <2>5. \A r \in Queues : r # q => Represents(n, r, f[r])
    <3> SUFFICES ASSUME NEW r \in Queues, r # q PROVE Represents(n, r, e[r])
      BY <1>3
    <3>1. Represents(m, r, e[r])
      BY DEF Spells
    <3>2. \A i \in 1..Len(e[r]) : /\ n.next[e[r][i]] = m.next[e[r][i]]
                                  /\ n.prev[e[r][i]] = m.prev[e[r][i]]
      BY <1>4, <2>2, <2>3
    <3> QED
      BY <2>2, <3>1, <3>2 DEF Represents
  <2>6. Unlinked(n, f)
    <3> SUFFICES ASSUME NEW x \in Procs, ~Queued(f, x)
                 PROVE  n.next[x] = NULL /\ n.prev[x] = NULL
      BY DEF Unlinked
    <3>1. ~Queued(e, x) /\ x # p
      BY <1>7
    <3>2. Queued(e, t)
      BY <1>3, <2>1 DEF Queued, Holds
    <3> QED
      BY <2>2, <3>1, <3>2 DEF Unlinked
  <2> QED
    BY <1>1, <1>2, <1>6, <1>7, <1>10, <2>4, <2>5, <2>6 DEF Spells
<1> QED
  BY <1>8, <1>9

(* remove_proc takes a process out of the middle, the front or the back of *)
(* the queue that holds it, and leaves it with NULL links.                 *)
LEMMA RemoveProc ==
  ASSUME NEW m \in Memories, NEW e \in Contents, NEW p \in Procs,
         NEW q \in Queues,
         Spells(m, e), Disjoint(e), Unlinked(m, e), Holds(e[q], p)
  PROVE  LET n == remove_proc(m, p, q)
             f == [e EXCEPT ![q] = Without(@, p)]
         IN /\ n \in Memories /\ f \in Contents
            /\ Spells(n, f) /\ Disjoint(f) /\ Unlinked(n, f)
            /\ \A x \in Procs : Queued(f, x) <=> Queued(e, x) /\ x # p
<1> DEFINE n == remove_proc(m, p, q)
           f == [e EXCEPT ![q] = Without(@, p)]
           k == Position(e[q], p)
           len == Len(e[q])
           prv == m.prev[p]
           nxt == m.next[p]
<1> USE ProcQueueAssumption
<1>1. e[q] \in Seq(Procs) /\ len \in Nat /\ k \in 1..len /\ e[q][k] = p
  BY PositionFacts DEF Contents
<1>2. /\ f[q] \in Seq(Procs) /\ Len(f[q]) = len - 1
      /\ \A i \in 1..(len - 1) : f[q][i] = IF i < k THEN e[q][i] ELSE e[q][i + 1]
      /\ \A r \in Queues : r # q => f[r] = e[r]
  BY <1>1, DropAtFacts DEF Without, Contents
<1>3. f \in Contents
  BY <1>2 DEF Contents
<1>4. /\ nxt = IF k = len THEN NULL ELSE e[q][k + 1]
      /\ prv = IF k = 1 THEN NULL ELSE e[q][k - 1]
  BY <1>1 DEF Spells, Represents
<1>5. n \in Memories
  BY DEF remove_proc, Memories, ProcsOrNull
<1>6. /\ \A x \in Procs : n.next[x] = IF x = p THEN NULL
                                      ELSE IF x = prv THEN nxt ELSE m.next[x]
      /\ \A x \in Procs : n.prev[x] = IF x = p THEN NULL
                                      ELSE IF x = nxt THEN prv ELSE m.prev[x]
      /\ n.head[q] = IF m.head[q] = p THEN nxt ELSE m.head[q]
      /\ n.tail[q] = IF m.tail[q] = p THEN prv ELSE m.tail[q]
      /\ \A r \in Queues : r # q => n.head[r] = m.head[r] /\ n.tail[r] = m.tail[r]
  BY DEF remove_proc, Memories
<1> HIDE DEF n, f, k, len, prv, nxt
<1>7. \A r \in Queues : \A i \in 1..Len(e[r]) :
        /\ e[r][i] \in Procs
        /\ e[r][i] = p <=> r = q /\ i = k
        /\ e[r][i] = prv <=> r = q /\ i = k - 1
        /\ e[r][i] = nxt <=> r = q /\ i = k + 1
  <2> SUFFICES ASSUME NEW r \in Queues, NEW i \in 1..Len(e[r])
               PROVE  /\ e[r][i] \in Procs
                      /\ e[r][i] = p <=> r = q /\ i = k
                      /\ e[r][i] = prv <=> r = q /\ i = k - 1
                      /\ e[r][i] = nxt <=> r = q /\ i = k + 1
    OBVIOUS
  <2>1. e[r][i] \in Procs
    BY DEF Contents
  <2>2. \A j \in 1..len : e[r][i] = e[q][j] <=> r = q /\ i = j
    BY DEF Disjoint, len
  <2>3. e[r][i] = prv <=> r = q /\ i = k - 1
    BY <1>1, <1>4, <2>1, <2>2 DEF len
  <2>4. e[r][i] = nxt <=> r = q /\ i = k + 1
    BY <1>1, <1>4, <2>1, <2>2 DEF len
  <2> QED
    BY <1>1, <2>1, <2>2, <2>3, <2>4
<1>8. \A x \in Procs : Queued(f, x) <=> Queued(e, x) /\ x # p
  <2> SUFFICES ASSUME NEW x \in Procs
               PROVE  Queued(f, x) <=> Queued(e, x) /\ x # p
    OBVIOUS
  <2>1. \A r \in Queues : r # q => (Holds(f[r], x) <=> Holds(e[r], x) /\ x # p)
    BY <1>2, <1>7 DEF Holds
  <2>2. ASSUME Holds(f[q], x) PROVE Holds(e[q], x) /\ x # p
    <3>1. PICK i \in 1..(len - 1) : f[q][i] = x
      BY <1>2, <2>2 DEF Holds
    <3>2. PICK j \in 1..len : j # k /\ e[q][j] = x
      BY <1>1, <1>2, <3>1
    <3> QED
      BY <1>7, <3>2 DEF Holds, len
  <2>3. ASSUME Holds(e[q], x), x # p PROVE Holds(f[q], x)
    <3>1. PICK i \in 1..len : e[q][i] = x
      BY <2>3 DEF Holds, len
    <3>2. i # k
      BY <1>1, <2>3, <3>1
    <3>3. CASE i < k
      BY <1>1, <1>2, <3>1, <3>3 DEF Holds
    <3>4. CASE i > k
      <4>1. i - 1 \in 1..(len - 1) /\ ~(i - 1 < k) /\ (i - 1) + 1 = i
        BY <1>1, <3>4
      <4> QED
        BY <1>2, <3>1, <4>1 DEF Holds
    <3> QED
      BY <1>1, <3>2, <3>3, <3>4
  <2> QED
    BY <2>1, <2>2, <2>3 DEF Queued
<1>9. Disjoint(f)
  <2> SUFFICES ASSUME NEW q1 \in Queues, NEW q2 \in Queues,
                      NEW i \in 1..Len(f[q1]), NEW j \in 1..Len(f[q2]),
                      f[q1][i] = f[q2][j]
               PROVE  q1 = q2 /\ i = j
    BY DEF Disjoint
  <2> DEFINE ii == IF q1 = q /\ i >= k THEN i + 1 ELSE i
             jj == IF q2 = q /\ j >= k THEN j + 1 ELSE j
  <2>1. ii \in 1..Len(e[q1]) /\ f[q1][i] = e[q1][ii]
    <3>1. CASE q1 = q
      BY <1>1, <1>2, <3>1 DEF len
    <3>2. CASE q1 # q
      BY <1>2, <3>2
    <3> QED
      BY <3>1, <3>2
  <2>2. jj \in 1..Len(e[q2]) /\ f[q2][j] = e[q2][jj]
    <3>1. CASE q2 = q
      BY <1>1, <1>2, <3>1 DEF len
    <3>2. CASE q2 # q
      BY <1>2, <3>2
    <3> QED
      BY <3>1, <3>2
  <2> HIDE DEF ii, jj
  <2>3. q1 = q2 /\ ii = jj
    <3>1. e[q1][ii] = e[q2][jj]
      BY <2>1, <2>2
    <3>2. \A i1 \in 1..Len(e[q1]), i2 \in 1..Len(e[q2]) :
            e[q1][i1] = e[q2][i2] => q1 = q2 /\ i1 = i2
      BY DEF Disjoint
    <3> QED
      BY <2>1, <2>2, <3>1, <3>2
  <2> QED
    BY <1>1, <1>2, <2>3 DEF ii, jj
<1>10. Represents(n, q, f[q])
  <2>0. m.head[q] = e[q][1] /\ m.tail[q] = e[q][len]
    BY <1>1 DEF Spells, Represents, len
  <2>1. n.head[q] = IF Len(f[q]) = 0 THEN NULL ELSE f[q][1]
    <3>1. m.head[q] = p <=> k = 1
      BY <1>1, <1>7, <2>0 DEF len
    <3>2. len # 1 => f[q][1] = IF k = 1 THEN e[q][2] ELSE e[q][1]
      BY <1>1, <1>2
    <3> QED
      BY <1>1, <1>2, <1>4, <1>6, <2>0, <3>1, <3>2
  <2>2. n.tail[q] = IF Len(f[q]) = 0 THEN NULL ELSE f[q][Len(f[q])]
    <3>1. m.tail[q] = p <=> k = len
      BY <1>1, <1>7, <2>0 DEF len
    <3>2. len # 1 => f[q][len - 1] = IF k = len THEN e[q][len - 1] ELSE e[q][len]
      BY <1>1, <1>2
    <3> QED
      BY <1>1, <1>2, <1>4, <1>6, <2>0, <3>1, <3>2
  <2>3. ASSUME NEW i \in 1..Len(f[q])
        PROVE  /\ n.next[f[q][i]] = IF i = Len(f[q]) THEN NULL ELSE f[q][i + 1]
               /\ n.prev[f[q][i]] = IF i = 1 THEN NULL ELSE f[q][i - 1]
    <3> DEFINE j == IF i < k THEN i ELSE i + 1
    <3>1. j \in 1..len /\ j # k /\ f[q][i] = e[q][j] /\ e[q][j] \in Procs
      BY <1>1, <1>2, <1>7 DEF len
    <3>2. /\ m.next[e[q][j]] = IF j = len THEN NULL ELSE e[q][j + 1]
          /\ m.prev[e[q][j]] = IF j = 1 THEN NULL ELSE e[q][j - 1]
      BY <3>1 DEF Spells, Represents, len
    <3>3. /\ e[q][j] # p
          /\ e[q][j] = prv <=> j = k - 1
          /\ e[q][j] = nxt <=> j = k + 1
      BY <1>7, <3>1 DEF len
    <3>4. n.next[f[q][i]] = IF i = Len(f[q]) THEN NULL ELSE f[q][i + 1]
      <4>1. i # len - 1 => f[q][i + 1] = IF i + 1 < k THEN e[q][i + 1]
                                                      ELSE e[q][i + 2]
        BY <1>1, <1>2
      <4>2. n.next[e[q][j]] = IF j = k - 1 THEN nxt ELSE m.next[e[q][j]]
        BY <1>6, <3>1, <3>3
      <4>3. CASE j = k - 1
        BY <1>1, <1>2, <1>4, <3>1, <4>1, <4>2, <4>3
      <4>4. CASE j # k - 1
        BY <1>1, <1>2, <3>1, <3>2, <4>1, <4>2, <4>4
      <4> QED
        BY <4>3, <4>4
    <3>5. n.prev[f[q][i]] = IF i = 1 THEN NULL ELSE f[q][i - 1]
      <4>1. i # 1 => f[q][i - 1] = IF i - 1 < k THEN e[q][i - 1] ELSE e[q][i]
        BY <1>1, <1>2
      <4>2. n.prev[e[q][j]] = IF j = k + 1 THEN prv ELSE m.prev[e[q][j]]
        BY <1>6, <3>1, <3>3
      <4>3. CASE j = k + 1
        BY <1>1, <1>2, <1>4, <3>1, <4>1, <4>2, <4>3
      <4>4. CASE j # k + 1
        BY <1>1, <1>2, <3>1, <3>2, <4>1, <4>2, <4>4
      <4> QED
        BY <4>3, <4>4
    <3> QED
      BY <3>4, <3>5
  <2> QED
    BY <2>1, <2>2, <2>3 DEF Represents
<1>11. \A r \in Queues : r # q => Represents(n, r, f[r])
  <2> SUFFICES ASSUME NEW r \in Queues, r # q PROVE Represents(n, r, e[r])
    BY <1>2
  <2>1. Represents(m, r, e[r])
    BY DEF Spells
  <2>2. \A i \in 1..Len(e[r]) : /\ n.next[e[r][i]] = m.next[e[r][i]]
                                /\ n.prev[e[r][i]] = m.prev[e[r][i]]
    BY <1>6, <1>7
  <2> QED
    BY <1>6, <2>1, <2>2 DEF Represents
<1>12. Unlinked(n, f)
  <2> SUFFICES ASSUME NEW x \in Procs, ~Queued(f, x)
               PROVE  n.next[x] = NULL /\ n.prev[x] = NULL
    BY DEF Unlinked
  <2>1. CASE x = p
    BY <1>6, <2>1
  <2>2. CASE x # p
    <3>1. ~Queued(e, x)
      BY <1>8, <2>2
    <3>2. (prv # NULL => Queued(e, prv)) /\ (nxt # NULL => Queued(e, nxt))
      <4>1. prv # NULL => Holds(e[q], prv)
        BY <1>1, <1>4 DEF Holds, len
      <4>2. nxt # NULL => Holds(e[q], nxt)
        BY <1>1, <1>4 DEF Holds, len
      <4> QED
        BY <4>1, <4>2 DEF Queued
    <3>3. x # prv /\ x # nxt
      BY <3>1, <3>2
    <3> QED
      BY <1>6, <2>2, <3>1, <3>3 DEF Unlinked
  <2> QED
    BY <2>1, <2>2
<1> QED
  BY <1>3, <1>5, <1>8, <1>9, <1>10, <1>11, <1>12 DEF Spells, n, f

(* pop_proc on a queue that holds something is remove_proc of its head. *)
LEMMA PopIsRemove ==
  ASSUME NEW m \in Memories, NEW e \in Contents, NEW q \in Queues,
         Spells(m, e), Disjoint(e), m.head[q] # NULL
  PROVE  /\ e[q] # << >> /\ m.head[q] = Head(e[q]) /\ m.head[q] \in Procs
         /\ Holds(e[q], m.head[q])
         /\ Without(e[q], m.head[q]) = Tail(e[q])
         /\ pop_proc(m, q) = remove_proc(m, m.head[q], q)
<1> DEFINE h == m.head[q]
           s == e[q]
<1> USE ProcQueueAssumption
<1>1. s \in Seq(Procs) /\ Len(s) \in Nat /\ Len(s) # 0 /\ h = s[1] /\ h \in Procs
  BY DEF Contents, Memories, ProcsOrNull, Spells, Represents
<1>2. s # << >> /\ h = Head(s) /\ 1 \in 1..Len(s)
  BY <1>1
<1>3. Holds(s, h)
  BY <1>1, <1>2 DEF Holds
<1>4. Position(s, h) = 1
  <2>1. Position(s, h) \in 1..Len(s) /\ s[Position(s, h)] = h
    BY <1>1, <1>3, PositionFacts
  <2> QED
    BY <1>1, <1>2, <2>1 DEF Disjoint
<1>5. Without(s, h) = Tail(s)
  <2>1. DropAt(s, 1) = Tail(s)
    BY <1>1, <1>2, DropFirst
  <2> QED
    BY <1>4, <2>1 DEF Without
<1>6. /\ m.prev[h] = NULL
      /\ m.next[h] = IF Len(s) = 1 THEN NULL ELSE s[2]
      /\ m.tail[q] = s[Len(s)]
      /\ h = m.tail[q] <=> Len(s) = 1
  <2>1. Represents(m, q, s)
    BY DEF Spells
  <2>2. m.prev[h] = NULL /\ m.next[h] = IF Len(s) = 1 THEN NULL ELSE s[2]
    <3>1. /\ m.next[s[1]] = IF 1 = Len(s) THEN NULL ELSE s[1 + 1]
          /\ m.prev[s[1]] = IF 1 = 1 THEN NULL ELSE s[1 - 1]
      BY <1>2, <2>1 DEF Represents
    <3> QED
      BY <1>1, <3>1
  <2>3. m.tail[q] = s[Len(s)] /\ Len(s) \in 1..Len(s)
    BY <1>1, <2>1 DEF Represents
  <2>4. s[1] = s[Len(s)] => 1 = Len(s)
    BY <1>2, <2>3 DEF Disjoint
  <2> QED
    BY <1>1, <2>2, <2>3, <2>4
<1>7. m.next[h] # h
  BY <1>1, <1>6 DEF Disjoint
<1> DEFINE n == pop_proc(m, q)
           r == remove_proc(m, h, q)
<1>8. n \in Memories /\ r \in Memories
  BY <1>1 DEF pop_proc, remove_proc, Memories, ProcsOrNull
<1>9. n.next = r.next /\ n.prev = r.prev /\ n.head = r.head /\ n.tail = r.tail
  <2>1. CASE Len(s) = 1
    BY <1>1, <1>6, <2>1 DEF pop_proc, remove_proc, Memories
  <2>2. CASE Len(s) # 1
    BY <1>1, <1>6, <1>7, <2>2 DEF pop_proc, remove_proc, Memories
  <2> QED
    BY <2>1, <2>2
<1>10. n = r
  BY <1>8, <1>9 DEF Memories
<1> QED
  BY <1>1, <1>2, <1>3, <1>5, <1>10

(* kcalloc changes nothing that append_proc could have counted on. *)
LEMMA KcallocFacts ==
  ASSUME NEW m \in Memories, NEW e \in Contents, NEW p \in Procs,
         Unlinked(m, e), ~Queued(e, p)
  PROVE  kcalloc(m, p) = m
<1>1. m.next[p] = NULL /\ m.prev[p] = NULL
  BY DEF Unlinked
<1>2. kcalloc(m, p) \in Memories
  BY ProcQueueAssumption DEF kcalloc, Memories, ProcsOrNull
<1> QED
  BY <1>1, <1>2 DEF kcalloc, Memories

(* PROC_unblock_head and a turn of PROC_unblock_all move the head of a     *)
(* wait queue to the end of the run queue.                                 *)
LEMMA UnblockHead ==
  ASSUME NEW m \in Memories, NEW e \in Contents, NEW q \in Queues, q # RunQ,
         Spells(m, e), Disjoint(e), Unlinked(m, e), m.head[q] # NULL
  PROVE  LET n == unblock_head(m, q)
             f == [e EXCEPT ![RunQ] = Append(@, Head(e[q])), ![q] = Tail(@)]
         IN /\ n \in Memories /\ f \in Contents
            /\ Spells(n, f) /\ Disjoint(f) /\ Unlinked(n, f)
            /\ \A x \in Procs : Queued(f, x) <=> Queued(e, x)
            /\ \A x \in Procs : Holds(e[RunQ], x) => Holds(f[RunQ], x)
<1> USE ProcQueueAssumption
<1> DEFINE h == m.head[q]
           m1 == remove_proc(m, h, q)
           e1 == [e EXCEPT ![q] = Without(@, h)]
           f == [e EXCEPT ![RunQ] = Append(@, Head(e[q])), ![q] = Tail(@)]
<1>1. /\ h \in Procs /\ h = Head(e[q]) /\ Holds(e[q], h)
      /\ Without(e[q], h) = Tail(e[q])
      /\ pop_proc(m, q) = m1
  BY PopIsRemove
<1>2. /\ m1 \in Memories /\ e1 \in Contents
      /\ Spells(m1, e1) /\ Disjoint(e1) /\ Unlinked(m1, e1)
      /\ \A x \in Procs : Queued(e1, x) <=> Queued(e, x) /\ x # h
  BY <1>1, RemoveProc
<1>3. f = [e1 EXCEPT ![RunQ] = Append(@, h)]
  BY <1>1 DEF Contents
<1>4. unblock_head(m, q) = append_proc(m1, h, RunQ)
  BY <1>1 DEF unblock_head, sched_admit
<1> HIDE DEF m1, e1, h, f
<1>5. h \in Procs /\ RunQ \in Queues /\ ~Queued(e1, h)
  BY <1>1, <1>2
<1>6. LET n == append_proc(m1, h, RunQ)
          g == [e1 EXCEPT ![RunQ] = Append(@, h)]
      IN /\ n \in Memories /\ g \in Contents
         /\ Spells(n, g) /\ Disjoint(g) /\ Unlinked(n, g)
         /\ \A x \in Procs : Queued(g, x) <=> Queued(e1, x) \/ x = h
         /\ \A x \in Procs : Holds(e1[RunQ], x) => Holds(g[RunQ], x)
  BY <1>2, <1>5, AppendProc
<1>7. Queued(e, h) /\ e1[RunQ] = e[RunQ]
  BY <1>1 DEF Queued, e1, Contents
<1> QED
  BY <1>2, <1>3, <1>4, <1>6, <1>7 DEF f

(* PROC_block_on moves a thread from the run queue to the end of a wait    *)
(* queue.                                                                  *)
LEMMA BlockOn ==
  ASSUME NEW m \in Memories, NEW e \in Contents, NEW q \in Queues, q # RunQ,
         NEW p \in Procs, Holds(e[RunQ], p),
         Spells(m, e), Disjoint(e), Unlinked(m, e)
  PROVE  LET n == append_proc(sched_remove(m, p), p, q)
             f == [e EXCEPT ![RunQ] = Without(@, p), ![q] = Append(@, p)]
         IN /\ n \in Memories /\ f \in Contents
            /\ Spells(n, f) /\ Disjoint(f) /\ Unlinked(n, f)
            /\ \A x \in Procs : Queued(f, x) <=> Queued(e, x)
<1> USE ProcQueueAssumption
<1> DEFINE m1 == remove_proc(m, p, RunQ)
           e1 == [e EXCEPT ![RunQ] = Without(@, p)]
           f == [e EXCEPT ![RunQ] = Without(@, p), ![q] = Append(@, p)]
<1>1. /\ m1 \in Memories /\ e1 \in Contents
      /\ Spells(m1, e1) /\ Disjoint(e1) /\ Unlinked(m1, e1)
      /\ \A x \in Procs : Queued(e1, x) <=> Queued(e, x) /\ x # p
  BY RemoveProc
<1>2. f = [e1 EXCEPT ![q] = Append(@, p)]
  BY DEF Contents
<1>3. sched_remove(m, p) = m1
  BY DEF sched_remove
<1> HIDE DEF m1, e1, f
<1>4. LET n == append_proc(m1, p, q)
          g == [e1 EXCEPT ![q] = Append(@, p)]
      IN /\ n \in Memories /\ g \in Contents
         /\ Spells(n, g) /\ Disjoint(g) /\ Unlinked(n, g)
         /\ \A x \in Procs : Queued(g, x) <=> Queued(e1, x) \/ x = p
  BY <1>1, AppendProc
<1>5. Queued(e, p)
  BY DEF Queued
<1> QED
  BY <1>1, <1>2, <1>3, <1>4, <1>5 DEF f

(* After sched_remove the cursor is NULL or names a thread still scheduled:*)
(* the predecessor of the removed thread.                                  *)
LEMMA CursorStepsBack ==
  ASSUME NEW m \in Memories, NEW e \in Contents, NEW p \in Procs,
         Spells(m, e), Disjoint(e), Holds(e[RunQ], p)
  PROVE  LET s == e[RunQ]
             c == sched_remove_current(m, p, p)
         IN /\ Position(s, p) \in 1..Len(s)
            /\ c \in ProcsOrNull
            /\ c = IF Position(s, p) = 1 THEN NULL ELSE s[Position(s, p) - 1]
            /\ c # NULL => Holds(Without(s, p), c)
            /\ c # NULL => Position(Without(s, p), c) = Position(s, p) - 1
<1> USE ProcQueueAssumption
<1> DEFINE s == e[RunQ]
           k == Position(s, p)
           c == sched_remove_current(m, p, p)
           w == Without(s, p)
<1>1. s \in Seq(Procs) /\ Len(s) \in Nat /\ k \in 1..Len(s) /\ s[k] = p
  BY PositionFacts DEF Contents
<1>2. c = IF k = 1 THEN NULL ELSE s[k - 1]
  <2>1. m.prev[s[k]] = IF k = 1 THEN NULL ELSE s[k - 1]
    BY <1>1 DEF Spells, Represents
  <2> QED
    BY <1>1, <2>1 DEF sched_remove_current
<1>3. /\ w \in Seq(Procs) /\ Len(w) = Len(s) - 1
      /\ \A i \in 1..(Len(s) - 1) : w[i] = IF i < k THEN s[i] ELSE s[i + 1]
  BY <1>1, DropAtFacts DEF Without
<1>4. c \in ProcsOrNull
  BY <1>1, <1>2 DEF ProcsOrNull
<1> HIDE DEF w, k, c
<1>5. ASSUME c # NULL PROVE Holds(w, c) /\ Position(w, c) = k - 1
  <2>1. k # 1 /\ c = s[k - 1] /\ k - 1 \in 1..Len(w) /\ w[k - 1] = c
    BY <1>1, <1>2, <1>3, <1>5
  <2>2. Holds(w, c)
    BY <2>1 DEF Holds
  <2>3. Position(w, c) \in 1..Len(w) /\ w[Position(w, c)] = c
    BY <1>3, <2>2, PositionFacts
  <2>4. \A i \in 1..Len(w) : w[i] = c => i = k - 1
    <3> SUFFICES ASSUME NEW i \in 1..Len(w), w[i] = c PROVE i = k - 1
      OBVIOUS
    <3>1. \A i1, i2 \in 1..Len(s) : s[i1] = s[i2] => i1 = i2
      BY DEF Disjoint
    <3>2. CASE i < k
      BY <1>1, <1>3, <2>1, <3>1, <3>2
    <3>3. CASE ~(i < k)
      <4>1. i + 1 \in 1..Len(s) /\ k - 1 \in 1..Len(s) /\ s[i + 1] = s[k - 1]
        BY <1>1, <1>3, <2>1, <3>3
      <4>2. i + 1 = k - 1
        BY <3>1, <4>1
      <4> QED
        BY <1>1, <3>3, <4>2
    <3> QED
      BY <3>2, <3>3
  <2> QED
    BY <2>2, <2>3, <2>4
<1> QED
  BY <1>1, <1>2, <1>4, <1>5 DEF w, k, c

(* Whose turn is next, as a position. *)
TurnAfter(s, k) == IF Len(s) = 0 THEN 0 ELSE IF k = Len(s) THEN 1 ELSE k + 1

(* rr_next returns NULL only on an empty run queue, and otherwise the      *)
(* scheduled thread that follows the cursor cyclically.                    *)
LEMMA RrNextFacts ==
  ASSUME NEW m \in Memories, NEW e \in Contents, NEW c \in ProcsOrNull,
         Spells(m, e), Disjoint(e), c # NULL => Holds(e[RunQ], c)
  PROVE  LET s == e[RunQ]
             x == rr_next(m, c)
             t == TurnAfter(s, CursorAt(s, c))
         IN /\ x \in ProcsOrNull
            /\ x = NULL <=> Len(s) = 0
            /\ m.head[RunQ] = NULL <=> Len(s) = 0
            /\ x # NULL => /\ Holds(s, x) /\ t \in 1..Len(s)
                           /\ x = s[t] /\ Position(s, x) = t
<1> USE ProcQueueAssumption
<1> DEFINE s == e[RunQ]
           x == rr_next(m, c)
           k == CursorAt(s, c)
           t == TurnAfter(s, k)
<1>1. s \in Seq(Procs) /\ Len(s) \in Nat /\ Represents(m, RunQ, s)
  BY DEF Contents, Spells
<1>2. \A i1, i2 \in 1..Len(s) : s[i1] = s[i2] => i1 = i2
  BY DEF Disjoint
<1>3. \A i \in 1..Len(s) : s[i] \in Procs /\ s[i] # NULL
  BY <1>1
<1>4. m.head[RunQ] = NULL <=> Len(s) = 0
  BY <1>1, <1>3 DEF Represents
<1>5. c # NULL => k \in 1..Len(s) /\ s[k] = c
  BY <1>1, PositionFacts DEF CursorAt
<1>6. CASE Len(s) = 0
  <2>1. c = NULL
    BY <1>1, <1>6 DEF Holds
  <2> QED
    BY <1>4, <1>6, <2>1 DEF rr_next, ProcsOrNull
<1>7. CASE Len(s) # 0
  <2>1. m.head[RunQ] = s[1] /\ m.tail[RunQ] = s[Len(s)]
    BY <1>1, <1>7 DEF Represents
  <2>2. t \in 1..Len(s) /\ x = s[t]
    <3>1. CASE c = NULL
      <4>1. k = 0 /\ t = 1 /\ x = m.head[RunQ]
        BY <1>1, <1>7, <3>1 DEF CursorAt, TurnAfter, rr_next
      <4> QED
        BY <1>1, <1>7, <2>1, <4>1
    <3>2. CASE c # NULL /\ c = m.tail[RunQ]
      <4>1. k = Len(s)
        BY <1>1, <1>2, <1>5, <1>7, <2>1, <3>2
      <4>2. t = 1 /\ x = m.head[RunQ]
        BY <1>7, <3>2, <4>1 DEF TurnAfter, rr_next
      <4> QED
        BY <1>1, <1>7, <2>1, <4>2
    <3>3. CASE c # NULL /\ c # m.tail[RunQ]
      <4>1. k \in 1..Len(s) /\ k # Len(s) /\ s[k] = c
        BY <1>5, <2>1, <3>3
      <4>2. m.next[s[k]] = s[k + 1]
        BY <1>1, <4>1 DEF Represents
      <4>3. t = k + 1 /\ x = m.next[c]
        BY <1>7, <3>3, <4>1 DEF TurnAfter, rr_next
      <4> QED
        BY <1>1, <4>1, <4>2, <4>3
    <3> QED
      BY <3>1, <3>2, <3>3
  <2> HIDE DEF t, x, k
  <2>3. x \in Procs /\ x # NULL /\ Holds(s, x)
    BY <1>3, <2>2 DEF Holds
  <2>4. Position(s, x) = t
    <3>1. Position(s, x) \in 1..Len(s) /\ s[Position(s, x)] = x
      BY <1>1, <2>3, PositionFacts
    <3> QED
      BY <1>2, <2>2, <3>1
  <2> QED
    BY <1>4, <1>7, <2>2, <2>3, <2>4 DEF t, x, k, ProcsOrNull
<1> QED
  BY <1>6, <1>7
==============================================================================
