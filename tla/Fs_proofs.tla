------------------------------- MODULE Fs_proofs -------------------------------
(***************************************************************************)
(* The file system for any sound disk, any pools of the heap and any       *)
(* number of open files.                                                   *)
(***************************************************************************)
EXTENDS Fs, SequenceTheorems, WellFoundedInduction, TLAPS

(* Division. *)

LEMMA DivMod ==
  ASSUME NEW a \in Nat, NEW z \in Nat, z > 0
  PROVE  /\ a \div z \in Nat /\ a % z \in 0..(z - 1)
         /\ a = (a \div z) * z + (a % z)
<1>1. a = (a \div z) * z + (a % z)
  BY SMTT(60)
<1>2. a \div z \in Nat /\ a % z \in 0..(z - 1)
  OBVIOUS
<1> QED
  BY <1>1, <1>2, Zenon

LEMMA DivModUnique ==
  ASSUME NEW q \in Nat, NEW z \in Nat \ {0}, NEW r \in 0..(z - 1)
  PROVE  (q * z + r) \div z = q /\ (q * z + r) % z = r
<1>1. (q * z + r) \div z = q
  OBVIOUS
<1>2. (q * z + r) % z = r
  OBVIOUS
<1> QED
  BY <1>1, <1>2

-----------------------------------------------------------------------------
(* The kernel heap. *)

In(s) == {s[k] : k \in 1..Len(s)}
Distinct(s) == \A j, k \in 1..Len(s) : s[j] = s[k] => j = k

(* What kmalloc and kfree need and keep: besides what PoolsSound says,     *)
(* every block lies below brk, and free lists do not meet.                 *)
Lists(head, avail, brk, pool) ==
    /\ head \in [Pools -> Seq(Nat)] /\ avail \in [Pools -> Nat] /\ brk \in Nat
    /\ DOMAIN pool \subseteq 0..(brk - 1)
    /\ \A b \in DOMAIN pool : pool[b] \in Pools
    /\ \A p \in Pools : /\ avail[p] = Len(head[p])
                        /\ Distinct(head[p])
                        /\ In(head[p]) \cap DOMAIN pool = {}
                        /\ In(head[p]) \subseteq 0..(brk - 1)
    /\ \A p, q \in Pools : p # q => In(head[p]) \cap In(head[q]) = {}

HeapOK(h) ==
    /\ h = [head |-> h.head, avail |-> h.avail, brk |-> h.brk, pool |-> h.pool, wild |-> h.wild]
    /\ ~h.wild
    /\ Lists(h.head, h.avail, h.brk, h.pool)

LEMMA Smallest ==
  ASSUME NEW S \in SUBSET Nat, S # {}
  PROVE  \E x \in S : \A y \in S : x <= y
<1> DEFINE R == OpToRel(<, Nat)
<1>1. IsWellFoundedOn(R, Nat)
  BY NatLessThanWellFounded
<1>2. \A x, y \in Nat : x < y => <<x, y>> \in R
  BY DEF R, OpToRel
<1> HIDE DEF R
<1>3. \E x \in S : \A y \in S : ~(<<y, x>> \in R)
  BY <1>1, WFMin
<1>4. \E x \in S : \A y \in S : ~(y < x)
  BY <1>2, <1>3, Zenon
<1> QED
  BY <1>4

LEMMA PoolFacts ==
  /\ PAGE_SIZE \in Nat \ {0} /\ HeaderSize \in Nat \ {0}
  /\ Pools = 1..Len(PoolSizes) /\ Len(PoolSizes) \in Nat
  /\ \A p \in Pools : PoolSizes[p] \in Nat \ {0} /\ PAGE_SIZE % PoolSizes[p] = 0
BY KMallocAssumption DEF Pools

(* A page holds at least one block of each pool, and no block sticks out. *)
LEMMA PageOfBlocks ==
  ASSUME NEW p \in Pools
  PROVE  /\ BlocksPerPage(p) \in Nat /\ BlocksPerPage(p) > 0
         /\ BlocksPerPage(p) * PoolSizes[p] = PAGE_SIZE
<1> DEFINE z == PoolSizes[p]
<1>1. z \in Nat \ {0} /\ PAGE_SIZE \in Nat \ {0} /\ PAGE_SIZE % z = 0
  BY PoolFacts
<1> HIDE DEF z
<1>2. /\ PAGE_SIZE \div z \in Nat
      /\ PAGE_SIZE = (PAGE_SIZE \div z) * z + (PAGE_SIZE % z)
  <2>1. z \in Nat /\ z > 0 /\ PAGE_SIZE \in Nat
    BY <1>1
  <2> QED
    BY <2>1, DivMod
<1>3. PAGE_SIZE \div z > 0
  <2>1. (PAGE_SIZE \div z) * z = PAGE_SIZE
    BY <1>1, <1>2
  <2>2. CASE PAGE_SIZE \div z = 0
    <3>1. 0 * z = 0
      BY <1>1
    <3> QED
      BY <1>1, <2>1, <2>2, <3>1
  <2> QED
    BY <1>2, <2>2
<1>4. (PAGE_SIZE \div z) * z = PAGE_SIZE
  BY <1>1, <1>2
<1> QED
  BY <1>2, <1>3, <1>4 DEF BlocksPerPage, z

LEMMA PoolForFacts ==
  ASSUME NEW size, Fits(size)
  PROVE  PoolFor(size) \in Pools
<1> DEFINE S == {p \in Pools : size + HeaderSize <= PoolSizes[p]}
<1>1. S \in SUBSET Nat /\ S # {} /\ size + HeaderSize \in Nat
  BY PoolFacts DEF Fits
<1>2. PICK p \in S : \A q \in S : p <= q
  BY <1>1, Smallest
<1>3. ASSUME NEW q \in 1..(p - 1)
      PROVE  PoolSizes[q] < size + HeaderSize
  <2>1. q \in Pools /\ p \in Nat /\ q \in Nat /\ q < p
    BY PoolFacts, <1>2
  <2>2. q \notin S
    BY <1>2, <2>1
  <2> QED
    BY <1>1, <2>1, <2>2, PoolFacts
<1>4. \E r \in Pools : /\ size + HeaderSize <= PoolSizes[r]
                       /\ \A q \in 1..(r - 1) : PoolSizes[q] < size + HeaderSize
  BY <1>2, <1>3
<1> QED
  BY <1>4 DEF PoolFor

(* A page cut into blocks. *)
LEMMA FreshPage ==
  ASSUME NEW p \in Pools, NEW b \in Nat
  PROVE  LET s == [i \in 1..BlocksPerPage(p) |-> b + (i - 1) * PoolSizes[p]]
         IN /\ s \in Seq(Nat) /\ Len(s) = BlocksPerPage(p) /\ Len(s) > 0
            /\ In(s) \subseteq b..(b + PAGE_SIZE - 1)
            /\ Distinct(s)
<1> DEFINE z == PoolSizes[p]
           n == BlocksPerPage(p)
           s == [i \in 1..n |-> b + (i - 1) * z]
<1>1. n \in Nat /\ n > 0 /\ n * z = PAGE_SIZE /\ z \in Nat /\ z > 0 /\ PAGE_SIZE \in Nat
  BY PageOfBlocks, PoolFacts
<1> HIDE DEF z, n
<1>2. ASSUME NEW i \in 1..n
      PROVE  b + (i - 1) * z \in b..(b + PAGE_SIZE - 1)
  <2>1. (i - 1) * z \in Nat
    BY <1>1
  <2>2. (i - 1) * z + z = i * z
    BY <1>1
  <2>3. i * z <= n * z
    BY <1>1
  <2> QED
    BY <1>1, <2>1, <2>2, <2>3
<1>3. s \in Seq(Nat) /\ Len(s) = n
  <2>1. \A i \in 1..n : b + (i - 1) * z \in Nat
    BY <1>1, <1>2
  <2> QED
    BY <1>1, <2>1
<1>4. In(s) \subseteq b..(b + PAGE_SIZE - 1)
  BY <1>2, <1>3 DEF In
<1>5. Distinct(s)
  <2> SUFFICES ASSUME NEW j \in 1..n, NEW k \in 1..n, b + (j - 1) * z = b + (k - 1) * z
               PROVE  j = k
    BY <1>3 DEF Distinct
  <2>1. (j - 1) * z \in Int /\ (k - 1) * z \in Int
    BY <1>1
  <2>2. (j - 1) * z = (k - 1) * z
    BY <2>1
  <2>3. \A x, y \in Nat : x < y => x * z + z <= y * z
    <3> SUFFICES ASSUME NEW x \in Nat, NEW y \in Nat, x < y
                 PROVE  x * z + z <= y * z
      OBVIOUS
    <3>1. x * z + z = (x + 1) * z
      BY <1>1
    <3>2. (x + 1) * z <= y * z
      BY <1>1
    <3> QED
      BY <3>1, <3>2
  <2>4. j - 1 \in Nat /\ k - 1 \in Nat
    OBVIOUS
  <2>5. ~(j - 1 < k - 1) /\ ~(k - 1 < j - 1)
    BY <1>1, <2>1, <2>2, <2>3, <2>4
  <2> QED
    BY <2>5
<1> QED
  BY <1>1, <1>3, <1>4, <1>5 DEF n, z

LEMMA Emptied ==
  ASSUME NEW s \in Seq(Nat), s # << >>, Distinct(s)
  PROVE  /\ Head(s) \in Nat /\ Head(s) \in In(s)
         /\ Tail(s) \in Seq(Nat) /\ Len(Tail(s)) = Len(s) - 1
         /\ In(Tail(s)) = In(s) \ {Head(s)} /\ Distinct(Tail(s))
<1>1. /\ Len(s) \in Nat /\ Len(s) > 0 /\ Head(s) = s[1] /\ Tail(s) \in Seq(Nat)
      /\ Len(Tail(s)) = Len(s) - 1
      /\ \A k \in 1..Len(s) - 1 : Tail(s)[k] = s[k + 1]
  OBVIOUS
<1>2. Head(s) \in Nat /\ Head(s) \in In(s)
  BY <1>1 DEF In
<1>3. Distinct(Tail(s))
  BY <1>1 DEF Distinct
<1>4. ASSUME NEW x \in In(Tail(s))
      PROVE  x \in In(s) /\ x # Head(s)
  <2>1. PICK k \in 1..Len(s) - 1 : x = s[k + 1]
    BY <1>1 DEF In
  <2>2. k + 1 \in 1..Len(s) /\ 1 \in 1..Len(s) /\ k + 1 # 1
    BY <1>1
  <2> QED
    BY <1>1, <2>1, <2>2 DEF In, Distinct
<1>5. ASSUME NEW x \in In(s), x # Head(s)
      PROVE  x \in In(Tail(s))
  <2>1. PICK k \in 1..Len(s) : x = s[k]
    BY DEF In
  <2>2. k - 1 \in 1..Len(s) - 1
    BY <1>1, <1>5, <2>1
  <2>3. Tail(s)[k - 1] = x
    BY <1>1, <2>1, <2>2
  <2> QED
    BY <1>1, <2>2, <2>3 DEF In
<1> QED
  BY <1>1, <1>2, <1>3, <1>4, <1>5

LEMMA Pushed ==
  ASSUME NEW s \in Seq(Nat), NEW b \in Nat, b \notin In(s), Distinct(s)
  PROVE  LET t == <<b>> \o s
         IN /\ t \in Seq(Nat) /\ Len(t) = Len(s) + 1
            /\ In(t) = In(s) \cup {b} /\ Distinct(t)
<1> DEFINE t == <<b>> \o s
<1>1. /\ t \in Seq(Nat) /\ Len(t) = Len(s) + 1 /\ Len(s) \in Nat
      /\ t[1] = b /\ \A k \in 2..Len(t) : t[k] = s[k - 1]
  OBVIOUS
<1> HIDE DEF t
<1>2. \A k \in 1..Len(s) : s[k] = t[k + 1] /\ k + 1 \in 2..Len(t)
  BY <1>1
<1>3. \A k \in 2..Len(t) : t[k] \in In(s) /\ k - 1 \in 1..Len(s)
  <2>1. \A k \in 2..Len(t) : k - 1 \in 1..Len(s) /\ t[k] = s[k - 1]
    BY <1>1
  <2> QED
    BY <2>1 DEF In
<1>4. In(t) = In(s) \cup {b}
  <2>1. In(t) \subseteq In(s) \cup {b}
    <3>1. \A k \in 1..Len(t) : k = 1 \/ k \in 2..Len(t)
      BY <1>1
    <3> QED
      BY <1>1, <1>3, <3>1 DEF In
  <2>2. In(s) \cup {b} \subseteq In(t)
    <3>1. 1 \in 1..Len(t) /\ \A k \in 1..Len(s) : k + 1 \in 1..Len(t) /\ t[k + 1] = s[k]
      BY <1>1, <1>2
    <3>2. b \in In(t)
      BY <1>1, <3>1 DEF In
    <3>3. ASSUME NEW x \in In(s) PROVE x \in In(t)
      <4>1. PICK k \in 1..Len(s) : x = s[k]
        BY DEF In
      <4> QED
        BY <3>1, <4>1 DEF In
    <3> QED
      BY <3>2, <3>3
  <2> QED
    BY <2>1, <2>2
<1>5. Distinct(t)
  <2> SUFFICES ASSUME NEW j \in 1..Len(t), NEW k \in 1..Len(t), t[j] = t[k]
               PROVE  j = k
    BY DEF Distinct
  <2>1. CASE j = 1 \/ k = 1
    BY <1>1, <1>3, <2>1
  <2>2. CASE j \in 2..Len(t) /\ k \in 2..Len(t)
    <3>1. s[j - 1] = s[k - 1] /\ j - 1 \in 1..Len(s) /\ k - 1 \in 1..Len(s)
      BY <1>1, <1>3, <2>2
    <3>2. j - 1 = k - 1
      BY <3>1 DEF Distinct
    <3> QED
      BY <3>2
  <2> QED
    BY <1>1, <2>1, <2>2
<1> QED
  BY <1>1, <1>4, <1>5 DEF t

LEMMA HeapOKSound ==
  ASSUME NEW h, HeapOK(h)
  PROVE  PoolsSound(h)
<1> SUFFICES ASSUME NEW p \in Pools
             PROVE  /\ h.avail[p] = Len(h.head[p])
                    /\ Distinct(h.head[p])
                    /\ \A i \in 1..Len(h.head[p]) : h.head[p][i] \notin DOMAIN h.pool
  BY DEF PoolsSound, HeapOK, Distinct
<1> QED
  BY DEF HeapOK, Lists, In

LEMMA EmptyHeapOK == HeapOK(EmptyHeap) /\ DOMAIN EmptyHeap.pool = {}
<1> DEFINE h == EmptyHeap
<1>1. /\ h = [head |-> h.head, avail |-> h.avail, brk |-> h.brk, pool |-> h.pool, wild |-> h.wild]
      /\ h.head = [p \in Pools |-> << >>] /\ h.avail = [p \in Pools |-> 0]
      /\ h.brk = PAGE_SIZE /\ h.pool = << >> /\ h.wild = FALSE
  BY DEF EmptyHeap
<1>2. << >> \in Seq(Nat) /\ Len(<< >>) = 0 /\ In(<< >>) = {} /\ DOMAIN << >> = {}
  BY DEF In
<1> HIDE DEF h
<1>3. Lists(h.head, h.avail, h.brk, h.pool)
  BY <1>1, <1>2, PoolFacts DEF Lists, Distinct
<1> QED
  BY <1>1, <1>2, <1>3 DEF HeapOK, h

LEMMA PutFacts ==
  ASSUME NEW f, NEW x, NEW v
  PROVE  /\ DOMAIN Put(f, x, v) = DOMAIN f \cup {x}
         /\ Put(f, x, v)[x] = v
         /\ \A y \in DOMAIN f : y # x => Put(f, x, v)[y] = f[y]
BY DEF Put

(* The list of pool p, when its counter is 0, is empty; a page takes its   *)
(* place.                                                                  *)
LEMMA Refilled ==
  ASSUME NEW h, HeapOK(h), NEW p \in Pools
  PROVE  LET g == IF h.avail[p] = 0 THEN allocate_blocks(h, p) ELSE h
         IN HeapOK(g) /\ g.head[p] # << >> /\ g.pool = h.pool
<1>1. CASE h.avail[p] # 0
  BY <1>1 DEF HeapOK, Lists
<1>2. CASE h.avail[p] = 0
  <2> DEFINE g == allocate_blocks(h, p)
             page == [i \in 1..BlocksPerPage(p) |-> h.brk + (i - 1) * PoolSizes[p]]
  <2>1. Lists(h.head, h.avail, h.brk, h.pool) /\ h.brk \in Nat
    BY DEF HeapOK, Lists
  <2>2. /\ page \in Seq(Nat) /\ Len(page) = BlocksPerPage(p) /\ Len(page) > 0
        /\ In(page) \subseteq h.brk..(h.brk + PAGE_SIZE - 1) /\ Distinct(page)
    BY <2>1, FreshPage
  <2> HIDE DEF page
  <2>3. /\ g = [head |-> g.head, avail |-> g.avail, brk |-> g.brk, pool |-> g.pool, wild |-> g.wild]
        /\ g.head = [h.head EXCEPT ![p] = page]
        /\ g.avail = [h.avail EXCEPT ![p] = BlocksPerPage(p)]
        /\ g.brk = h.brk + PAGE_SIZE /\ g.pool = h.pool /\ g.wild = h.wild
    <3>1. h = [head |-> h.head, avail |-> h.avail, brk |-> h.brk, pool |-> h.pool, wild |-> h.wild]
      BY DEF HeapOK
    <3>2. g = [h EXCEPT !.head[p] = page, !.avail[p] = BlocksPerPage(p), !.brk = @ + PAGE_SIZE]
      BY DEF allocate_blocks, page
    <3>3. g = [head |-> [h.head EXCEPT ![p] = page],
               avail |-> [h.avail EXCEPT ![p] = BlocksPerPage(p)],
               brk |-> h.brk + PAGE_SIZE, pool |-> h.pool, wild |-> h.wild]
      BY <3>1, <3>2
    <3> QED
      BY <3>3
  <2> HIDE DEF g
  <2>4. PAGE_SIZE \in Nat \ {0} /\ BlocksPerPage(p) \in Nat
    BY PoolFacts, PageOfBlocks
  <2>5. /\ g.head \in [Pools -> Seq(Nat)] /\ g.avail \in [Pools -> Nat] /\ g.brk \in Nat
        /\ g.head[p] = page /\ g.avail[p] = BlocksPerPage(p)
        /\ \A q \in Pools : q # p => g.head[q] = h.head[q] /\ g.avail[q] = h.avail[q]
    BY <2>1, <2>2, <2>3, <2>4 DEF Lists
  <2>6. \A x \in In(page) : x \in 0..(g.brk - 1) /\ x \notin 0..(h.brk - 1)
    BY <2>1, <2>2, <2>3, <2>4
  <2>7. \A x \in 0..(h.brk - 1) : x \in 0..(g.brk - 1)
    BY <2>1, <2>3, <2>4
  <2>8. Lists(g.head, g.avail, g.brk, g.pool)
    <3>1. \A q \in Pools : /\ g.avail[q] = Len(g.head[q])
                           /\ Distinct(g.head[q])
                           /\ In(g.head[q]) \cap DOMAIN g.pool = {}
                           /\ In(g.head[q]) \subseteq 0..(g.brk - 1)
      BY <2>1, <2>2, <2>3, <2>5, <2>6, <2>7 DEF Lists
    <3>2. \A q, r \in Pools : q # r => In(g.head[q]) \cap In(g.head[r]) = {}
      BY <2>1, <2>5, <2>6 DEF Lists
    <3>3. DOMAIN g.pool \subseteq 0..(g.brk - 1) /\ \A b \in DOMAIN g.pool : g.pool[b] \in Pools
      BY <2>1, <2>3, <2>7 DEF Lists
    <3> QED
      BY <2>5, <3>1, <3>2, <3>3 DEF Lists
  <2>9. HeapOK(g) /\ g.head[p] # << >> /\ g.pool = h.pool
    BY <2>2, <2>3, <2>5, <2>8 DEF HeapOK
  <2> QED
    BY <1>2, <2>9 DEF g
<1> QED
  BY <1>1, <1>2

(* kmalloc hands out a block that was not in use. *)
LEMMA Kmalloc ==
  ASSUME NEW h, HeapOK(h), NEW size, Fits(size)
  PROVE  LET m == kmalloc(h, size)
         IN /\ HeapOK(m.heap)
            /\ m.block \in Nat /\ m.block \notin DOMAIN h.pool
            /\ DOMAIN m.heap.pool = DOMAIN h.pool \cup {m.block}
<1> DEFINE m == kmalloc(h, size)
           p == PoolFor(size)
           g == IF h.avail[p] = 0 THEN allocate_blocks(h, p) ELSE h
           b == Head(g.head[p])
           k == m.heap
<1>1. p \in Pools
  BY PoolForFacts
<1>2. HeapOK(g) /\ g.head[p] # << >> /\ g.pool = h.pool
  BY <1>1, Refilled
<1>3. m.block = b /\ k = [pop_free_block(g, p) EXCEPT !.pool = Put(@, b, p)]
  BY DEF kmalloc
<1> HIDE DEF m, p, g, b, k
<1>4. /\ g = [head |-> g.head, avail |-> g.avail, brk |-> g.brk, pool |-> g.pool, wild |-> g.wild]
      /\ ~g.wild
      /\ Lists(g.head, g.avail, g.brk, g.pool)
  BY <1>2 DEF HeapOK
<1>5. k = [head |-> [g.head EXCEPT ![p] = Tail(g.head[p])], avail |-> [g.avail EXCEPT ![p] = g.avail[p] - 1],
           brk |-> g.brk, pool |-> Put(g.pool, b, p), wild |-> g.wild]
  <2> DEFINE popped == pop_free_block(g, p)
             hd == [g.head EXCEPT ![p] = Tail(g.head[p])]
             av == [g.avail EXCEPT ![p] = g.avail[p] - 1]
  <2>1. popped = [g EXCEPT !.head = hd, !.avail = av]
    BY Zenon DEF pop_free_block
  <2>2. k = [popped EXCEPT !.pool = Put(popped.pool, b, p)]
    BY <1>3
  <2> HIDE DEF popped, hd, av
  <2>3. popped = [head |-> hd, avail |-> av, brk |-> g.brk, pool |-> g.pool, wild |-> g.wild]
    BY <1>4, <2>1
  <2>4. k = [head |-> hd, avail |-> av, brk |-> g.brk, pool |-> Put(g.pool, b, p), wild |-> g.wild]
    BY <2>2, <2>3
  <2> QED
    BY <2>4 DEF hd, av
<1>6. /\ k = [head |-> k.head, avail |-> k.avail, brk |-> k.brk, pool |-> k.pool, wild |-> k.wild]
      /\ k.head = [g.head EXCEPT ![p] = Tail(g.head[p])] /\ k.avail = [g.avail EXCEPT ![p] = g.avail[p] - 1]
      /\ k.brk = g.brk /\ k.pool = Put(g.pool, b, p) /\ k.wild = g.wild
  BY <1>5
<1> DEFINE s == g.head[p]
<1>7. /\ s \in Seq(Nat) /\ s # << >> /\ Distinct(s) /\ g.avail[p] = Len(s)
      /\ In(s) \subseteq 0..(g.brk - 1) /\ In(s) \cap DOMAIN g.pool = {}
  BY <1>1, <1>2, <1>4 DEF Lists
<1>8. /\ b \in Nat /\ b \in In(s) /\ Tail(s) \in Seq(Nat) /\ Len(Tail(s)) = Len(s) - 1
      /\ In(Tail(s)) = In(s) \ {b} /\ Distinct(Tail(s))
  BY <1>7, Emptied DEF b
<1>9. /\ k.head[p] = Tail(s) /\ k.avail[p] = Len(Tail(s))
      /\ \A q \in Pools : q # p => k.head[q] = g.head[q] /\ k.avail[q] = g.avail[q]
  BY <1>1, <1>4, <1>6, <1>7, <1>8 DEF Lists
<1>10. k.head \in [Pools -> Seq(Nat)] /\ k.avail \in [Pools -> Nat] /\ k.brk \in Nat
  <2>1. Len(Tail(s)) \in Nat
    BY <1>8
  <2>2. k.head = [g.head EXCEPT ![p] = Tail(s)] /\ k.avail = [g.avail EXCEPT ![p] = Len(Tail(s))]
    BY <1>6, <1>7, <1>8
  <2> QED
    BY <1>1, <1>4, <1>6, <1>8, <2>1, <2>2 DEF Lists
<1>11. /\ DOMAIN k.pool = DOMAIN g.pool \cup {b} /\ k.pool[b] = p
       /\ \A y \in DOMAIN g.pool : y # b => k.pool[y] = g.pool[y]
  <2> DEFINE put == Put(g.pool, b, p)
  <2>1. /\ DOMAIN put = DOMAIN g.pool \cup {b} /\ put[b] = p
        /\ \A y \in DOMAIN g.pool : y # b => put[y] = g.pool[y]
    BY DEF Put
  <2> HIDE DEF put
  <2> QED
    BY <1>6, <2>1 DEF put
<1>12. b \notin DOMAIN g.pool /\ b \in 0..(g.brk - 1)
  BY <1>7, <1>8
<1> HIDE DEF s
<1>13. \A q \in Pools : In(k.head[q]) \subseteq In(g.head[q]) /\ b \notin In(k.head[q])
  BY <1>1, <1>4, <1>8, <1>9 DEF Lists, s
<1>14. Lists(k.head, k.avail, k.brk, k.pool)
  <2>1. \A q \in Pools : k.avail[q] = Len(k.head[q]) /\ Distinct(k.head[q])
    BY <1>4, <1>8, <1>9 DEF Lists
  <2>2. ASSUME NEW q \in Pools, NEW x \in In(k.head[q])
        PROVE  x \notin DOMAIN k.pool /\ x \in 0..(k.brk - 1)
    <3>1. x \in In(g.head[q]) /\ x # b
      BY <1>13
    <3>2. x \notin DOMAIN g.pool /\ x \in 0..(g.brk - 1)
      BY <1>4, <3>1 DEF Lists
    <3> QED
      BY <1>6, <1>11, <3>1, <3>2
  <2>3. \A q, r \in Pools : q # r => In(k.head[q]) \cap In(k.head[r]) = {}
    BY <1>4, <1>13 DEF Lists
  <2>4. DOMAIN k.pool \subseteq 0..(k.brk - 1) /\ \A y \in DOMAIN k.pool : k.pool[y] \in Pools
    BY <1>1, <1>4, <1>6, <1>11, <1>12 DEF Lists
  <2> QED
    BY <1>10, <2>1, <2>2, <2>3, <2>4 DEF Lists
<1>15. HeapOK(k)
  BY <1>4, <1>6, <1>14 DEF HeapOK
<1> QED
  BY <1>2, <1>3, <1>8, <1>11, <1>12, <1>15 DEF m, k

(* kfree of a block in use. *)
LEMMA Kfree ==
  ASSUME NEW h, HeapOK(h), NEW b \in DOMAIN h.pool
  PROVE  HeapOK(kfree(h, b)) /\ DOMAIN kfree(h, b).pool = DOMAIN h.pool \ {b}
<1> DEFINE k == kfree(h, b)
           p == h.pool[b]
           pool == [y \in DOMAIN h.pool \ {b} |-> h.pool[y]]
           s == h.head[p]
<1>1. /\ h = [head |-> h.head, avail |-> h.avail, brk |-> h.brk, pool |-> h.pool, wild |-> h.wild]
      /\ ~h.wild
      /\ Lists(h.head, h.avail, h.brk, h.pool)
  BY DEF HeapOK
<1>2. /\ p \in Pools /\ b \in Nat /\ b \in 0..(h.brk - 1) /\ s \in Seq(Nat) /\ Distinct(s)
      /\ b \notin In(s) /\ h.avail[p] = Len(s)
  BY <1>1 DEF Lists
<1>3. k = [push_free_block(h, p, b) EXCEPT !.pool = pool]
  BY DEF kfree
<1>4. DOMAIN pool = DOMAIN h.pool \ {b} /\ \A y \in DOMAIN pool : pool[y] = h.pool[y]
  OBVIOUS
<1> HIDE DEF k, p, pool
<1>5. k = [head |-> [h.head EXCEPT ![p] = <<b>> \o h.head[p]], avail |-> [h.avail EXCEPT ![p] = h.avail[p] + 1],
           brk |-> h.brk, pool |-> pool, wild |-> h.wild]
  <2> DEFINE pushed == push_free_block(h, p, b)
             hd == [h.head EXCEPT ![p] = <<b>> \o h.head[p]]
             av == [h.avail EXCEPT ![p] = h.avail[p] + 1]
  <2>1. pushed = [h EXCEPT !.head = hd, !.avail = av]
    BY Zenon DEF push_free_block
  <2>2. k = [pushed EXCEPT !.pool = pool]
    BY <1>3
  <2> HIDE DEF pushed, hd, av
  <2>3. pushed = [head |-> hd, avail |-> av, brk |-> h.brk, pool |-> h.pool, wild |-> h.wild]
    BY <1>1, <2>1
  <2>4. k = [head |-> hd, avail |-> av, brk |-> h.brk, pool |-> pool, wild |-> h.wild]
    BY <2>2, <2>3
  <2> QED
    BY <2>4 DEF hd, av
<1>6. /\ k = [head |-> k.head, avail |-> k.avail, brk |-> k.brk, pool |-> k.pool, wild |-> k.wild]
      /\ k.head = [h.head EXCEPT ![p] = <<b>> \o h.head[p]] /\ k.avail = [h.avail EXCEPT ![p] = h.avail[p] + 1]
      /\ k.brk = h.brk /\ k.pool = pool /\ k.wild = h.wild
  BY <1>5
<1> DEFINE t == <<b>> \o s
<1>7. t \in Seq(Nat) /\ Len(t) = Len(s) + 1 /\ In(t) = In(s) \cup {b} /\ Distinct(t)
  BY <1>2, Pushed
<1>8. Len(s) + 1 \in Nat
  BY <1>2
<1>9. k.head = [h.head EXCEPT ![p] = t] /\ k.avail = [h.avail EXCEPT ![p] = Len(s) + 1]
  BY <1>2, <1>6
<1> HIDE DEF t, s
<1>10. /\ k.head \in [Pools -> Seq(Nat)] /\ k.avail \in [Pools -> Nat] /\ k.brk \in Nat
       /\ k.head[p] = t /\ k.avail[p] = Len(t)
       /\ \A q \in Pools : q # p => k.head[q] = h.head[q] /\ k.avail[q] = h.avail[q]
  BY <1>1, <1>2, <1>6, <1>7, <1>8, <1>9 DEF Lists
<1>11. \A q \in Pools : In(h.head[q]) \cap DOMAIN h.pool = {} /\ b \notin In(h.head[q])
  BY <1>1 DEF Lists
<1>12. Lists(k.head, k.avail, k.brk, k.pool)
  <2>1. \A q \in Pools : k.avail[q] = Len(k.head[q]) /\ Distinct(k.head[q])
    BY <1>1, <1>7, <1>10 DEF Lists
  <2>2. \A q \in Pools : \A x \in In(k.head[q]) : x \in In(h.head[q]) \/ (q = p /\ x = b)
    BY <1>7, <1>10 DEF s
  <2>3. \A q \in Pools : In(k.head[q]) \cap DOMAIN k.pool = {}
    BY <1>4, <1>6, <1>11, <2>2
  <2>4. ASSUME NEW q \in Pools, NEW x \in In(k.head[q])
        PROVE  x \in 0..(k.brk - 1)
    <3>1. In(h.head[q]) \subseteq 0..(h.brk - 1)
      BY <1>1 DEF Lists
    <3> QED
      BY <1>2, <1>6, <2>2, <3>1
  <2>5. ASSUME NEW q \in Pools, NEW r \in Pools, q # r, NEW x \in In(k.head[q])
        PROVE  x \notin In(k.head[r])
    <3>1. In(h.head[q]) \cap In(h.head[r]) = {}
      BY <1>1, <2>5 DEF Lists
    <3> QED
      BY <1>11, <2>2, <2>5, <3>1
  <2>6. DOMAIN k.pool \subseteq 0..(k.brk - 1) /\ \A y \in DOMAIN k.pool : k.pool[y] \in Pools
    BY <1>1, <1>4, <1>6 DEF Lists
  <2> QED
    BY <1>10, <2>1, <2>3, <2>4, <2>5, <2>6 DEF Lists
<1>13. HeapOK(k)
  BY <1>1, <1>6, <1>12 DEF HeapOK
<1> QED
  BY <1>4, <1>6, <1>13 DEF k

-----------------------------------------------------------------------------
(* What the blocks in use are for. *)

(* d, s and a are the blocks of the drive, the superblock and readdir's    *)
(* buffer, I those of inodes and O those of open files: all in use, and no *)
(* block for two purposes.                                                 *)
Own(used, d, s, a, I, O) ==
    /\ I \subseteq used /\ O \subseteq used /\ I \cap O = {}
    /\ d # NULL => d \in used /\ d \notin I /\ d \notin O /\ d # s /\ d # a
    /\ s # NULL => s \in used /\ s \notin I /\ s \notin O /\ s # a
    /\ a # NULL => a \in used /\ a \notin I /\ a \notin O

Ownership ==
    /\ HeapOK(heap)
    /\ Own(DOMAIN heap.pool, drive, sb, data, DOMAIN inodes, DOMAIN files)

(* Inodes that are pointed to, and files that are open, exist. *)
Pointers ==
    /\ root_inode \in DOMAIN inodes \cup {NULL}
    /\ {cwd, result} \subseteq DOMAIN inodes \cup {NULL, Garbage}
    /\ slots \in [Slots -> DOMAIN files \cup {NULL}]
    /\ \A s, t \in Slots : slots[s] # NULL /\ slots[s] = slots[t] => s = t
    /\ \A f \in DOMAIN files :
          /\ files[f] = [inode |-> files[f].inode, path |-> files[f].path,
                         cursor |-> files[f].cursor, first_cluster |-> files[f].first_cluster]
          /\ files[f].inode \in DOMAIN inodes

Reading == at \in {"seek", "file", "copy", "end"} \/ cont \in {"seek", "file"}

(* Where the thread is, and what it has in its hands there. *)
Points ==
    /\ at \in {"probe", "mbr", "part", "register", "detect", "detected", "ready", "walk", "dir",
               "scan", "entry", "walk_next", "walked", "next", "fill", "seek", "file", "copy",
               "end", "stopped", "wild"}
    /\ cont \in {"none", "dir", "seek", "file"}
    /\ cont = "none" <=> at \notin {"next", "fill"}
    /\ at = "detected" => sb # NULL
    /\ at \in {"dir", "scan", "entry"} \/ cont = "dir" => data # NULL
    /\ Reading => slot \in Slots /\ slots[slot] # NULL
    /\ ~Reading => slot = NULL

Blocks == Ownership /\ Pointers /\ Points

LEMMA OwnNew ==
  ASSUME NEW used, NEW d, NEW s, NEW a, NEW I, NEW O, NEW b,
         Own(used, d, s, a, I, O), b \notin used, b # NULL
  PROVE  /\ Own(used \cup {b}, d, s, a, I, O)
         /\ Own(used \cup {b}, b, s, a, I, O)
         /\ Own(used \cup {b}, d, b, a, I, O)
         /\ Own(used \cup {b}, d, s, b, I, O)
         /\ Own(used \cup {b}, d, s, a, I \cup {b}, O)
         /\ Own(used \cup {b}, d, s, a, I, O \cup {b})
BY DEF Own

LEMMA OwnFree ==
  ASSUME NEW used, NEW d, NEW s, NEW a, NEW I, NEW O, Own(used, d, s, a, I, O)
  PROVE  /\ s # NULL => s \in used /\ Own(used \ {s}, d, NULL, a, I, O)
         /\ a # NULL => a \in used /\ Own(used \ {a}, d, s, NULL, I, O)
         /\ \A f \in O : f \in used /\ Own(used \ {f}, d, s, a, I, O \ {f})
BY DEF Own

LEMMA Kept ==
  ASSUME Blocks
  PROVE  /\ UNCHANGED <<heap, drive, sb, data, inodes, files>> => Ownership'
         /\ UNCHANGED <<root_inode, cwd, result, slots, inodes, files>> => Pointers'
<1>1. UNCHANGED <<heap, drive, sb, data, inodes, files>> => Ownership'
  BY DEF Blocks, Ownership
<1>2. UNCHANGED <<root_inode, cwd, result, slots, inodes, files>> => Pointers'
  BY DEF Blocks, Pointers
<1> QED
  BY <1>1, <1>2

(* A block from kmalloc, as each step uses it. *)
LEMMA NewBlock ==
  ASSUME Ownership, NEW size \in {SizeOfDev, SizeOfNode, SizeOfBlock}
  PROVE  LET m == kmalloc(heap, size)
             used == DOMAIN m.heap.pool
         IN /\ HeapOK(m.heap) /\ m.block \in Nat /\ m.block \notin DOMAIN heap.pool
            /\ m.block # NULL
            /\ used = DOMAIN heap.pool \cup {m.block}
            /\ Own(used, drive, sb, data, DOMAIN inodes, DOMAIN files)
            /\ Own(used, m.block, sb, data, DOMAIN inodes, DOMAIN files)
            /\ Own(used, drive, m.block, data, DOMAIN inodes, DOMAIN files)
            /\ Own(used, drive, sb, m.block, DOMAIN inodes, DOMAIN files)
            /\ Own(used, drive, sb, data, DOMAIN inodes \cup {m.block}, DOMAIN files)
            /\ Own(used, drive, sb, data, DOMAIN inodes, DOMAIN files \cup {m.block})
<1> DEFINE m == kmalloc(heap, size)
<1>1. Fits(size)
  BY AtaAssumption, FsAssumption, Zenon
<1>2. HeapOK(heap) /\ Own(DOMAIN heap.pool, drive, sb, data, DOMAIN inodes, DOMAIN files)
  BY DEF Ownership
<1>3. /\ HeapOK(m.heap) /\ m.block \in Nat /\ m.block \notin DOMAIN heap.pool
      /\ DOMAIN m.heap.pool = DOMAIN heap.pool \cup {m.block}
  BY <1>1, <1>2, Kmalloc
<1> HIDE DEF m
<1>4. m.block # NULL
  BY <1>3, AtaAssumption
<1> DEFINE b == m.block
           U == DOMAIN heap.pool
<1> HIDE DEF b, U
<1>5. Own(U, drive, sb, data, DOMAIN inodes, DOMAIN files) /\ b \notin U /\ b # NULL
  BY <1>2, <1>3, <1>4 DEF b, U
<1>6. /\ Own(U \cup {b}, drive, sb, data, DOMAIN inodes, DOMAIN files)
      /\ Own(U \cup {b}, b, sb, data, DOMAIN inodes, DOMAIN files)
      /\ Own(U \cup {b}, drive, b, data, DOMAIN inodes, DOMAIN files)
      /\ Own(U \cup {b}, drive, sb, b, DOMAIN inodes, DOMAIN files)
      /\ Own(U \cup {b}, drive, sb, data, DOMAIN inodes \cup {b}, DOMAIN files)
      /\ Own(U \cup {b}, drive, sb, data, DOMAIN inodes, DOMAIN files \cup {b})
  BY <1>5, OwnNew
<1>7. DOMAIN m.heap.pool = U \cup {b}
  BY <1>3 DEF b, U
<1> QED
  BY <1>3, <1>4, <1>6, <1>7, Zenon DEF m, b, U

(* Steps that leave blocks and pointers alone. *)

LEMMA Blocks_parse_MBR_begin ==
  ASSUME Blocks, parse_MBR_begin
  PROVE  Blocks'
<1>1. UNCHANGED <<heap, drive, sb, data, inodes, files, root_inode, cwd, result, slots, slot>>
  BY DEF parse_MBR_begin, At, read_block, call, disk, mount, walk, dir, read, caller
<1>2. Ownership' /\ Pointers'
  BY <1>1, Kept
<1>3. Points'
  BY <1>1 DEF Blocks, Points, Reading, parse_MBR_begin, At
<1> QED
  BY <1>2, <1>3 DEF Blocks

LEMMA Blocks_parse_MBR ==
  ASSUME Blocks, parse_MBR
  PROVE  Blocks'
<1>1. UNCHANGED <<heap, drive, sb, data, inodes, files, root_inode, cwd, result, slots, slot>>
  BY DEF parse_MBR, Back, call, disk, mount, walk, dir, read, caller
<1>2. Ownership' /\ Pointers'
  BY <1>1, Kept
<1>3. Points'
  BY <1>1 DEF Blocks, Points, Reading, parse_MBR, Back
<1> QED
  BY <1>2, <1>3 DEF Blocks

LEMMA Blocks_get_FAT_miss ==
  ASSUME Blocks, get_FAT_miss
  PROVE  Blocks'
<1>1. UNCHANGED <<heap, drive, sb, data, inodes, files, root_inode, cwd, result, slots, slot>>
  BY DEF get_FAT_miss, At, read_block, call, disk, mount, walk, dir, read, caller
<1>2. Ownership' /\ Pointers'
  BY <1>1, Kept
<1>3. Points'
  BY <1>1 DEF Blocks, Points, Reading, get_FAT_miss, At
<1> QED
  BY <1>2, <1>3 DEF Blocks

LEMMA Blocks_get_FAT_fill ==
  ASSUME Blocks, get_FAT_fill
  PROVE  Blocks'
<1>1. UNCHANGED <<heap, drive, sb, data, inodes, files, root_inode, cwd, result, slots, slot>>
  BY DEF get_FAT_fill, Back, call, disk, mount, walk, dir, read, caller
<1>2. Ownership' /\ Pointers'
  BY <1>1, Kept
<1>3. Points'
  BY <1>1 DEF Blocks, Points, Reading, get_FAT_fill, Back
<1> QED
  BY <1>2, <1>3 DEF Blocks

LEMMA Blocks_get_next_cluster_num ==
  ASSUME Blocks, get_next_cluster_num
  PROVE  Blocks'
<1>1. UNCHANGED <<heap, drive, sb, data, inodes, files, root_inode, cwd, result, slots, slot>>
  BY DEF get_next_cluster_num, At, call, disk, mount, walk, dir, read, caller
<1>2. Ownership' /\ Pointers'
  BY <1>1, Kept
<1>3. Points'
  BY <1>1 DEF Blocks, Points, Reading, get_next_cluster_num, At
<1> QED
  BY <1>2, <1>3 DEF Blocks

LEMMA Blocks_FAT_readdir_scan ==
  ASSUME Blocks, FAT_readdir_scan
  PROVE  Blocks'
<1>1. UNCHANGED <<heap, drive, sb, data, inodes, files, root_inode, cwd, result, slots, slot>>
  BY DEF FAT_readdir_scan, Back, call, disk, mount, walk, dir, read, caller
<1>2. Ownership' /\ Pointers'
  BY <1>1, Kept
<1>3. Points'
  BY <1>1 DEF Blocks, Points, Reading, FAT_readdir_scan, Back
<1> QED
  BY <1>2, <1>3 DEF Blocks

LEMMA Blocks_FAT_file_read_seek ==
  ASSUME Blocks, FAT_file_read_seek
  PROVE  Blocks'
<1>1. UNCHANGED <<heap, drive, sb, data, inodes, files, root_inode, cwd, result, slots, slot>>
  BY DEF FAT_file_read_seek, At, call, disk, mount, walk, dir, read, caller
<1>2. Ownership' /\ Pointers'
  BY <1>1, Kept
<1>3. Points'
  BY <1>1 DEF Blocks, Points, Reading, FAT_file_read_seek, At
<1> QED
  BY <1>2, <1>3 DEF Blocks

LEMMA Blocks_FAT_file_read_cluster ==
  ASSUME Blocks, FAT_file_read_cluster
  PROVE  Blocks'
<1>1. UNCHANGED <<heap, drive, sb, data, inodes, files, root_inode, cwd, result, slots, slot>>
  BY DEF FAT_file_read_cluster, At, FAT_read_cluster, read_block, call, disk, mount, walk, dir, read, caller
<1>2. Ownership' /\ Pointers'
  BY <1>1, Kept
<1>3. Points'
  BY <1>1 DEF Blocks, Points, Reading, FAT_file_read_cluster, At
<1> QED
  BY <1>2, <1>3 DEF Blocks

LEMMA Blocks_Take ==
  ASSUME Blocks, Take
  PROVE  Blocks'
<1>1. UNCHANGED <<heap, drive, sb, data, inodes, files, root_inode, cwd, result, slots, slot>>
  BY DEF Take, At, call, disk, mount, walk, dir, read, caller
<1>2. Ownership' /\ Pointers'
  BY <1>1, Kept
<1>3. Points'
  BY <1>1 DEF Blocks, Points, Reading, Take, At
<1> QED
  BY <1>2, <1>3 DEF Blocks

(* ATA_identify makes the drive's block; the rest of ATA_probe, the read   *)
(* and the drive touch no block.                                           *)
LEMMA Blocks_Below ==
  ASSUME Blocks, Below
  PROVE  Blocks'
<1>1. /\ AtaNext
      /\ UNCHANGED <<at, cont, sb, data, inodes, files, root_inode, cwd, result, slots, slot>>
  BY DEF Below, walk, dir, read, caller
<1>2. Pointers' /\ Points'
  <2>1. Pointers'
    BY <1>1, Kept
  <2>2. Points'
    BY <1>1 DEF Blocks, Points, Reading
  <2> QED
    BY <2>1, <2>2
<1>3. \/ UNCHANGED <<drive, heap>>
      \/ LET m == kmalloc(heap, SizeOfDev) IN drive' = m.block /\ heap' = m.heap
  <2>1. CASE \E lba48 \in BOOLEAN, sectors \in {0, NumSectors} : ATA_identify(lba48, sectors)
    BY <2>1 DEF ATA_identify
  <2>2. CASE ATA_probe
    BY <2>2 DEF ATA_probe
  <2>3. CASE ATA_poll \/ drive_not_busy
    BY <2>3 DEF ATA_poll, drive_not_busy
  <2>4. CASE \E bad_status \in BOOLEAN : ATA_transfer(bad_status)
    BY <2>4 DEF ATA_transfer
  <2>5. CASE \E failed \in BOOLEAN : drive_done(failed)
    BY <2>5 DEF drive_done
  <2> QED
    BY <1>1, <2>1, <2>2, <2>3, <2>4, <2>5 DEF AtaNext
<1>4. CASE UNCHANGED <<drive, heap>>
  BY <1>1, <1>2, <1>4, Kept DEF Blocks
<1> DEFINE m == kmalloc(heap, SizeOfDev)
<1>5. CASE drive' = m.block /\ heap' = m.heap
  <2>1. /\ HeapOK(m.heap)
        /\ Own(DOMAIN m.heap.pool, m.block, sb, data, DOMAIN inodes, DOMAIN files)
    BY NewBlock DEF Blocks
  <2> QED
    BY <1>1, <1>2, <1>5, <2>1 DEF Blocks, Ownership
<1> QED
  BY <1>3, <1>4, <1>5

LEMMA Blocks_parse_partition ==
  ASSUME Blocks, parse_partition
  PROVE  Blocks'
<1>1. /\ UNCHANGED <<drive, sb, data, inodes, files, root_inode, cwd, result, slots, slot, cont>>
      /\ at = "part" /\ at' \in {"part", "register"}
  BY DEF parse_partition, At, call, walk, dir, read, caller
<1>2. Pointers' /\ Points'
  BY <1>1, Kept DEF Blocks, Points, Reading
<1> DEFINE m == kmalloc(heap, SizeOfDev)
           n == kmalloc(m.heap, SizeOfNode)
<1>3. UNCHANGED heap \/ heap' = n.heap
  BY DEF parse_partition
<1>4. CASE UNCHANGED heap
  BY <1>1, <1>2, <1>4, Kept DEF Blocks
<1>5. CASE heap' = n.heap
  <2>1. /\ HeapOK(m.heap) /\ Fits(SizeOfNode)
        /\ Own(DOMAIN m.heap.pool, drive, sb, data, DOMAIN inodes, DOMAIN files)
    BY NewBlock, FsAssumption DEF Blocks
  <2> HIDE DEF m
  <2>2. /\ HeapOK(n.heap) /\ n.block \in Nat /\ n.block \notin DOMAIN m.heap.pool
        /\ DOMAIN n.heap.pool = DOMAIN m.heap.pool \cup {n.block}
    BY <2>1, Kmalloc
  <2> HIDE DEF n
  <2>3. n.block # NULL
    BY <2>2, AtaAssumption
  <2>4. Own(DOMAIN m.heap.pool \cup {n.block}, drive, sb, data, DOMAIN inodes, DOMAIN files)
    BY <2>1, <2>2, <2>3, OwnNew
  <2> QED
    BY <1>1, <1>2, <1>5, <2>2, <2>4 DEF Blocks, Ownership
<1> QED
  BY <1>3, <1>4, <1>5

LEMMA Blocks_FS_register ==
  ASSUME Blocks, FS_register
  PROVE  Blocks'
<1> DEFINE m == kmalloc(heap, SizeOfNode)
<1>1. /\ UNCHANGED <<drive, sb, data, inodes, files, root_inode, cwd, result, slots, slot, cont>>
      /\ at = "register" /\ at' \in {"wild", "detect"} /\ heap' = m.heap
  BY DEF FS_register, At, call, mount, walk, dir, read, caller
<1>2. Pointers' /\ Points'
  BY <1>1, Kept DEF Blocks, Points, Reading
<1>3. HeapOK(m.heap) /\ Own(DOMAIN m.heap.pool, drive, sb, data, DOMAIN inodes, DOMAIN files)
  BY NewBlock DEF Blocks
<1> QED
  BY <1>1, <1>2, <1>3 DEF Blocks, Ownership

LEMMA Blocks_FS_probe ==
  ASSUME Blocks, FS_probe
  PROVE  Blocks'
<1> DEFINE m == kmalloc(heap, SizeOfBlock)
<1>1. /\ UNCHANGED <<drive, data, inodes, files, root_inode, cwd, result, slots, slot, cont>>
      /\ at = "detect" /\ at' = "detected" /\ sb' = m.block /\ heap' = m.heap
  BY DEF FS_probe, At, read_block, walk, dir, read, caller
<1>2. /\ HeapOK(m.heap) /\ m.block # NULL
      /\ Own(DOMAIN m.heap.pool, drive, m.block, data, DOMAIN inodes, DOMAIN files)
  BY NewBlock DEF Blocks
<1> HIDE DEF m
<1>3. Pointers' /\ Points'
  BY <1>1, <1>2, Kept DEF Blocks, Points, Reading
<1> QED
  BY <1>1, <1>2, <1>3 DEF Blocks, Ownership

(* An inode in a new block. *)
Made(m, ino, is_dir, size) ==
    /\ HeapOK(m.heap) /\ m.inode \in Nat /\ m.inode # NULL
    /\ m.inode \notin DOMAIN heap.pool /\ m.inode \notin DOMAIN inodes
    /\ DOMAIN m.heap.pool = DOMAIN heap.pool \cup {m.inode}
    /\ DOMAIN m.inodes = DOMAIN inodes \cup {m.inode}
    /\ m.inodes[m.inode] = [st_ino |-> ino, dir |-> is_dir, st_size |-> size]
    /\ \A b \in DOMAIN inodes : m.inodes[b] = inodes[b]
    /\ Own(DOMAIN m.heap.pool, drive, sb, data, DOMAIN m.inodes, DOMAIN files)

LEMMA NewInode ==
  ASSUME Blocks, NEW ino, NEW is_dir, NEW size
  PROVE  Made(FAT_init_inode(ino, is_dir, size), ino, is_dir, size)
<1> DEFINE m == FAT_init_inode(ino, is_dir, size)
<1> DEFINE k == kmalloc(heap, SizeOfNode)
           b == k.block
           rec == [st_ino |-> ino, dir |-> is_dir, st_size |-> size]
<1>1. /\ HeapOK(k.heap) /\ b \in Nat /\ b \notin DOMAIN heap.pool /\ b # NULL
      /\ DOMAIN k.heap.pool = DOMAIN heap.pool \cup {b}
      /\ Own(DOMAIN k.heap.pool, drive, sb, data, DOMAIN inodes \cup {b}, DOMAIN files)
  BY NewBlock DEF Blocks
<1>2. m.heap = k.heap /\ m.inode = b /\ m.inodes = Put(inodes, b, rec)
  BY DEF FAT_init_inode
<1>3. b \notin DOMAIN inodes
  BY <1>1 DEF Blocks, Ownership, Own
<1> HIDE DEF m, k, b, rec
<1>4. /\ DOMAIN m.inodes = DOMAIN inodes \cup {b}
      /\ m.inodes[b] = rec
      /\ \A y \in DOMAIN inodes : y # b => m.inodes[y] = inodes[y]
  BY <1>2 DEF Put
<1>5. /\ HeapOK(m.heap) /\ m.inode \in Nat /\ m.inode # NULL
      /\ m.inode \notin DOMAIN heap.pool /\ m.inode \notin DOMAIN inodes
      /\ DOMAIN m.heap.pool = DOMAIN heap.pool \cup {m.inode}
  BY <1>1, <1>2, <1>3
<1>6. /\ DOMAIN m.inodes = DOMAIN inodes \cup {m.inode}
      /\ m.inodes[m.inode] = rec
      /\ \A y \in DOMAIN inodes : m.inodes[y] = inodes[y]
  BY <1>2, <1>3, <1>4
<1>7. Own(DOMAIN m.heap.pool, drive, sb, data, DOMAIN m.inodes, DOMAIN files)
  BY <1>1, <1>2, <1>4
<1> QED
  BY <1>5, <1>6, <1>7, Zenon DEF Made, m, rec

LEMMA Blocks_FAT_detect ==
  ASSUME Blocks, FAT_detect
  PROVE  Blocks'
<1>1. /\ UNCHANGED <<drive, data, files, cwd, result, slots, slot, cont>>
      /\ at = "detected" /\ at' \in {"ready", "detect"}
  BY DEF FAT_detect, Back, walk, dir, read, caller
<1> DEFINE m == FAT_init_inode(FirstCluster(Root), TRUE, 0)
<1>2. CASE heap' = m.heap /\ inodes' = m.inodes /\ root_inode' = m.inode /\ sb' = sb
  <2>0. Made(m, FirstCluster(Root), TRUE, 0)
    BY NewInode
  <2> HIDE DEF m
  <2>1. /\ HeapOK(m.heap)
        /\ DOMAIN m.inodes = DOMAIN inodes \cup {m.inode}
        /\ Own(DOMAIN m.heap.pool, drive, sb, data, DOMAIN m.inodes, DOMAIN files)
    BY <2>0 DEF Made
  <2>2. Ownership'
    BY <1>1, <1>2, <2>1 DEF Ownership
  <2>3. Pointers'
    BY <1>1, <1>2, <2>1 DEF Blocks, Pointers
  <2>4. Points'
    BY <1>1, <1>2 DEF Blocks, Points, Reading
  <2> QED
    BY <2>2, <2>3, <2>4 DEF Blocks
<1>3. CASE heap' = kfree(heap, sb) /\ sb' = NULL /\ at' = "detect" /\ UNCHANGED <<inodes, root_inode>>
  <2>1. sb # NULL /\ HeapOK(heap) /\ Own(DOMAIN heap.pool, drive, sb, data, DOMAIN inodes, DOMAIN files)
    BY <1>1 DEF Blocks, Points, Ownership
  <2>2. sb \in DOMAIN heap.pool /\ Own(DOMAIN heap.pool \ {sb}, drive, NULL, data, DOMAIN inodes, DOMAIN files)
    BY <2>1, OwnFree
  <2>3. HeapOK(kfree(heap, sb)) /\ DOMAIN kfree(heap, sb).pool = DOMAIN heap.pool \ {sb}
    BY <2>1, <2>2, Kfree
  <2>4. Ownership'
    BY <1>1, <1>3, <2>2, <2>3 DEF Ownership
  <2>5. Pointers' /\ Points'
    BY <1>1, <1>3, Kept DEF Blocks, Points, Reading
  <2> QED
    BY <2>4, <2>5 DEF Blocks
<1> QED
  BY <1>2, <1>3 DEF FAT_detect

-----------------------------------------------------------------------------
(* The path walk. *)

LEMMA Blocks_FS_inode_for_path ==
  ASSUME Blocks, NEW o, FS_inode_for_path(o)
  PROVE  Blocks'
<1>1. /\ UNCHANGED <<heap, drive, sb, data, inodes, files, root_inode, slots, slot, cont>>
      /\ at = "ready" /\ at' = "walk" /\ cwd' = root_inode /\ result' = Garbage
  BY DEF FS_inode_for_path, Called, At, call, mount, walk, dir, read, caller
<1>2. Pointers'
  BY <1>1 DEF Blocks, Pointers
<1>3. Points'
  BY <1>1 DEF Blocks, Points, Reading
<1> QED
  BY <1>1, <1>2, <1>3, Kept DEF Blocks

LEMMA Blocks_FAT_readdir_begin ==
  ASSUME Blocks, FAT_readdir_begin
  PROVE  Blocks'
<1> DEFINE m == kmalloc(heap, SizeOfBlock)
<1>1. /\ UNCHANGED <<drive, sb, inodes, files, root_inode, cwd, slots, slot, cont>>
      /\ at = "walk"
      /\ \/ data' = m.block /\ heap' = m.heap /\ at' = "dir" /\ UNCHANGED result
         \/ result' = NULL /\ at' = "walked" /\ UNCHANGED <<data, heap>>
  BY DEF FAT_readdir_begin, At, call, mount, walk, dir, read, caller
<1>2. /\ HeapOK(m.heap) /\ m.block # NULL
      /\ Own(DOMAIN m.heap.pool, drive, sb, m.block, DOMAIN inodes, DOMAIN files)
  BY NewBlock DEF Blocks
<1> HIDE DEF m
<1>3. Ownership'
  <2>1. CASE data' = m.block /\ heap' = m.heap
    BY <1>1, <1>2, <2>1 DEF Ownership
  <2>2. CASE UNCHANGED <<data, heap>>
    BY <1>1, <2>2, Kept
  <2> QED
    BY <1>1, <2>1, <2>2
<1>4. Pointers'
  BY <1>1 DEF Blocks, Pointers
<1>5. Points'
  BY <1>1, <1>2 DEF Blocks, Points, Reading
<1> QED
  BY <1>3, <1>4, <1>5 DEF Blocks

LEMMA Blocks_FAT_readdir_cluster ==
  ASSUME Blocks, FAT_readdir_cluster
  PROVE  Blocks'
<1>1. /\ UNCHANGED <<drive, sb, inodes, files, root_inode, cwd, result, slots, slot, cont>>
      /\ at = "dir"
      /\ \/ at' = "scan" /\ UNCHANGED <<data, heap>>
         \/ at' = "walk_next" /\ heap' = kfree(heap, data) /\ data' = NULL
  BY DEF FAT_readdir_cluster, FAT_read_cluster, read_block, At, mount, walk, dir, read, caller
<1>2. Pointers' /\ Points'
  BY <1>1, Kept DEF Blocks, Points, Reading
<1>3. CASE UNCHANGED <<data, heap>>
  BY <1>1, <1>2, <1>3, Kept DEF Blocks
<1>4. CASE heap' = kfree(heap, data) /\ data' = NULL
  <2>1. /\ data # NULL /\ HeapOK(heap)
        /\ Own(DOMAIN heap.pool, drive, sb, data, DOMAIN inodes, DOMAIN files)
    BY <1>1 DEF Blocks, Points, Ownership
  <2>2. /\ data \in DOMAIN heap.pool
        /\ Own(DOMAIN heap.pool \ {data}, drive, sb, NULL, DOMAIN inodes, DOMAIN files)
    BY <2>1, OwnFree
  <2>3. HeapOK(kfree(heap, data)) /\ DOMAIN kfree(heap, data).pool = DOMAIN heap.pool \ {data}
    BY <2>1, <2>2, Kfree
  <2> QED
    BY <1>1, <1>2, <1>4, <2>2, <2>3 DEF Blocks, Ownership
<1> QED
  BY <1>1, <1>3, <1>4

(* What one directory entry does to the blocks: nothing, or an inode is    *)
(* made that is kept as the result, or one that is given back at once.     *)
LEMMA EntryCases ==
  ASSUME FAT_readdir_entry, NEW e, e = DirBlock(buf["dir"])[dir_ent],
         NEW m, m = FAT_init_inode(EntCluster(e), e.dir, EntSize(e))
  PROVE  \/ UNCHANGED <<heap, inodes, result>>
         \/ /\ ~e.lfn /\ ~(dir_ent > Len(DirBlock(buf["dir"])))
            /\ \/ heap' = m.heap /\ inodes' = m.inodes /\ result' = m.inode
               \/ heap' = kfree(m.heap, m.inode) /\ UNCHANGED <<inodes, result>>
<1>1. \/ UNCHANGED <<heap, inodes, result>>
      \/ ~e.lfn /\ ~(dir_ent > Len(DirBlock(buf["dir"]))) /\ path_cb(m)
  BY DEF FAT_readdir_entry
<1> QED
  BY <1>1 DEF path_cb

LEMMA Blocks_FAT_readdir_entry ==
  ASSUME Blocks, FAT_readdir_entry
  PROVE  Blocks'
<1>1. /\ UNCHANGED <<drive, sb, data, files, root_inode, cwd, slots, slot>>
      /\ at = "entry"
      /\ (at' = "next" /\ cont' = "dir") \/ UNCHANGED <<at, cont>>
  BY DEF FAT_readdir_entry, At, call, mount, walk, dir, read, caller
<1>2. Points'
  BY <1>1 DEF Blocks, Points, Reading
<1>3. CASE UNCHANGED <<heap, inodes, result>>
  BY <1>1, <1>2, <1>3, Kept DEF Blocks
<1>4. ASSUME NEW ino, NEW is_dir, NEW size,
             LET m == FAT_init_inode(ino, is_dir, size)
             IN \/ heap' = m.heap /\ inodes' = m.inodes /\ result' = m.inode
                \/ heap' = kfree(m.heap, m.inode) /\ UNCHANGED <<inodes, result>>
      PROVE  Ownership' /\ Pointers'
  <2> DEFINE m == FAT_init_inode(ino, is_dir, size)
  <2>0. Made(m, ino, is_dir, size)
    BY NewInode
  <2> HIDE DEF m
  <2>1. /\ HeapOK(m.heap) /\ m.inode \notin DOMAIN heap.pool
        /\ DOMAIN m.heap.pool = DOMAIN heap.pool \cup {m.inode}
        /\ DOMAIN m.inodes = DOMAIN inodes \cup {m.inode}
        /\ Own(DOMAIN m.heap.pool, drive, sb, data, DOMAIN m.inodes, DOMAIN files)
    BY <2>0 DEF Made
  <2>2. \/ heap' = m.heap /\ inodes' = m.inodes /\ result' = m.inode
        \/ heap' = kfree(m.heap, m.inode) /\ UNCHANGED <<inodes, result>>
    BY <1>4 DEF m
  <2>3. CASE heap' = m.heap /\ inodes' = m.inodes /\ result' = m.inode
    BY <1>1, <2>1, <2>3 DEF Blocks, Ownership, Pointers
  <2>4. CASE heap' = kfree(m.heap, m.inode) /\ UNCHANGED <<inodes, result>>
    <3>1. m.inode \in DOMAIN m.heap.pool
      BY <2>1
    <3>2. HeapOK(heap') /\ DOMAIN heap'.pool = DOMAIN m.heap.pool \ {m.inode}
      BY <2>1, <2>4, <3>1, Kfree
    <3>3. DOMAIN heap'.pool = DOMAIN heap.pool
      BY <2>1, <3>2
    <3>4. Own(DOMAIN heap'.pool, drive, sb, data, DOMAIN inodes, DOMAIN files)
      BY <3>3 DEF Blocks, Ownership
    <3>5. Ownership'
      BY <1>1, <2>4, <3>2, <3>4 DEF Ownership
    <3>6. Pointers'
      BY <1>1, <2>4, Kept
    <3> QED
      BY <3>5, <3>6
  <2> QED
    BY <2>2, <2>3, <2>4
<1>5. CASE ~UNCHANGED <<heap, inodes, result>>
  <2> DEFINE e == DirBlock(buf["dir"])[dir_ent]
             m == FAT_init_inode(EntCluster(e), e.dir, EntSize(e))
  <2>1. \/ heap' = m.heap /\ inodes' = m.inodes /\ result' = m.inode
        \/ heap' = kfree(m.heap, m.inode) /\ UNCHANGED <<inodes, result>>
    BY <1>5, EntryCases
  <2>2. Ownership' /\ Pointers'
    BY <1>4, <2>1, Zenon
  <2> QED
    BY <1>2, <2>2 DEF Blocks
<1> QED
  BY <1>3, <1>5

LEMMA Blocks_walk_next ==
  ASSUME Blocks, walk_next
  PROVE  Blocks'
<1>1. /\ UNCHANGED <<heap, drive, sb, data, inodes, files, root_inode, result, slots, slot, cont>>
      /\ at = "walk_next" /\ at' \in {"walked", "walk", "wild"} /\ cwd' \in {cwd, result}
  BY DEF walk_next, At, call, mount, dir, read, caller
<1>2. Pointers'
  BY <1>1 DEF Blocks, Pointers
<1>3. Points'
  BY <1>1 DEF Blocks, Points, Reading
<1> QED
  BY <1>1, <1>2, <1>3, Kept DEF Blocks

-----------------------------------------------------------------------------
(* Open files. *)

LEMMA Blocks_FAT_file_open ==
  ASSUME Blocks, NEW s \in Slots, FAT_file_open(s)
  PROVE  Blocks'
<1> DEFINE m == kmalloc(heap, SizeOfNode)
           new == [inode |-> result, path |-> asked, cursor |-> 0,
                   first_cluster |-> inodes[result].st_ino]
<1>1. /\ UNCHANGED <<drive, sb, data, inodes, root_inode, slot, cont>>
      /\ at = "walked" /\ slots[s] = NULL /\ cwd' = NULL /\ result' = NULL
      /\ \/ /\ result \in DOMAIN inodes /\ at' = "ready"
            /\ heap' = m.heap /\ files' = Put(files, m.block, new)
            /\ slots' = [slots EXCEPT ![s] = m.block]
         \/ at' = "wild" /\ UNCHANGED <<heap, files, slots>>
  BY DEF FAT_file_open, At, call, mount, walk, dir, read, caller
<1>2. Points'
  BY <1>1 DEF Blocks, Points, Reading
<1>3. CASE UNCHANGED <<heap, files, slots>>
  <2>1. Ownership'
    BY <1>1, <1>3, Kept
  <2>2. Pointers'
    BY <1>1, <1>3 DEF Blocks, Pointers
  <2> QED
    BY <1>2, <2>1, <2>2 DEF Blocks
<1>4. CASE /\ result \in DOMAIN inodes
           /\ heap' = m.heap /\ files' = Put(files, m.block, new)
           /\ slots' = [slots EXCEPT ![s] = m.block]
  <2> DEFINE b == m.block
  <2>1. /\ HeapOK(m.heap) /\ b \notin DOMAIN heap.pool /\ b # NULL
        /\ Own(DOMAIN m.heap.pool, drive, sb, data, DOMAIN inodes, DOMAIN files \cup {b})
    BY NewBlock DEF Blocks
  <2>2. files' = Put(files, b, new) /\ slots' = [slots EXCEPT ![s] = b]
    BY <1>4
  <2>3. new = [inode |-> new.inode, path |-> new.path, cursor |-> new.cursor,
               first_cluster |-> new.first_cluster] /\ new.inode = result
    OBVIOUS
  <2>4. b \notin DOMAIN files
    BY <2>1 DEF Blocks, Ownership, Own
  <2> HIDE DEF m, b, new
  <2>5. /\ DOMAIN files' = DOMAIN files \cup {b} /\ files'[b] = new
        /\ \A f \in DOMAIN files : files'[f] = files[f]
    BY <2>2, <2>4 DEF Put
  <2>6. Ownership'
    BY <1>1, <1>4, <2>1, <2>5 DEF Ownership
  <2>7. Pointers'
    <3>1. /\ root_inode' \in DOMAIN inodes' \cup {NULL}
          /\ {cwd', result'} \subseteq DOMAIN inodes' \cup {NULL, Garbage}
      BY <1>1 DEF Blocks, Pointers
    <3>2. slots' \in [Slots -> DOMAIN files' \cup {NULL}]
      BY <2>2, <2>5 DEF Blocks, Pointers
    <3>3. \A x, y \in Slots : slots'[x] # NULL /\ slots'[x] = slots'[y] => x = y
      BY <2>2, <2>4, <2>1 DEF Blocks, Pointers
    <3>4. ASSUME NEW f \in DOMAIN files'
          PROVE  /\ files'[f] = [inode |-> files'[f].inode, path |-> files'[f].path,
                                 cursor |-> files'[f].cursor,
                                 first_cluster |-> files'[f].first_cluster]
                 /\ files'[f].inode \in DOMAIN inodes'
      <4>1. CASE f = b
        BY <1>1, <1>4, <2>3, <2>5, <4>1
      <4>2. CASE f \in DOMAIN files
        <5>1. files'[f] = files[f]
          BY <2>5, <4>2
        <5> QED
          BY <1>1, <4>2, <5>1 DEF Blocks, Pointers
      <4> QED
        BY <2>5, <4>1, <4>2
    <3> QED
      BY <3>1, <3>2, <3>3, <3>4 DEF Pointers
  <2> QED
    BY <1>2, <2>6, <2>7 DEF Blocks
<1> QED
  BY <1>1, <1>3, <1>4

(* A file's cursor moves, and nothing else of it. *)
LEMMA CursorMoved ==
  ASSUME Blocks, NEW s \in Slots, slots[s] # NULL, NEW x, SetCursor(s, x)
  PROVE  /\ DOMAIN files' = DOMAIN files
         /\ files'[slots[s]] = [inode |-> files[slots[s]].inode, path |-> files[slots[s]].path,
                                cursor |-> x,
                                first_cluster |-> files[slots[s]].first_cluster]
         /\ \A f \in DOMAIN files : f # slots[s] => files'[f] = files[f]
<1> DEFINE f == slots[s]
           r == files[f]
<1>1. f \in DOMAIN files
  BY DEF Blocks, Pointers
<1>2. r = [inode |-> r.inode, path |-> r.path, cursor |-> r.cursor,
           first_cluster |-> r.first_cluster]
  BY <1>1 DEF Blocks, Pointers
<1>3. files' = [files EXCEPT ![f] = [r EXCEPT !.cursor = x]]
  BY Zenon DEF SetCursor
<1> HIDE DEF f, r
<1>4. [r EXCEPT !.cursor = x] = [inode |-> r.inode, path |-> r.path, cursor |-> x,
                                 first_cluster |-> r.first_cluster]
  BY <1>2
<1>5. /\ DOMAIN files' = DOMAIN files
      /\ files'[f] = [r EXCEPT !.cursor = x]
      /\ \A g \in DOMAIN files : g # f => files'[g] = files[g]
  BY <1>1, <1>3
<1> QED
  BY <1>4, <1>5 DEF f, r

LEMMA CursorBlocks ==
  ASSUME Blocks, NEW s \in Slots, slots[s] # NULL, NEW x, SetCursor(s, x),
         UNCHANGED <<heap, drive, sb, data, inodes, root_inode, cwd, result, slots>>
  PROVE  Ownership' /\ Pointers'
<1> DEFINE f == slots[s]
<1>1. /\ DOMAIN files' = DOMAIN files
      /\ files'[f] = [inode |-> files[f].inode, path |-> files[f].path, cursor |-> x,
                      first_cluster |-> files[f].first_cluster]
      /\ \A g \in DOMAIN files : g # f => files'[g] = files[g]
  BY CursorMoved
<1> HIDE DEF f
<1>2. Ownership'
  BY <1>1 DEF Blocks, Ownership
<1>3. ASSUME NEW g \in DOMAIN files'
      PROVE  /\ files'[g] = [inode |-> files'[g].inode, path |-> files'[g].path,
                             cursor |-> files'[g].cursor,
                             first_cluster |-> files'[g].first_cluster]
             /\ files'[g].inode \in DOMAIN inodes'
  <2>1. g \in DOMAIN files /\ files[g].inode \in DOMAIN inodes
    BY <1>1 DEF Blocks, Pointers
  <2>2. CASE g = f
    BY <1>1, <2>1, <2>2
  <2>3. CASE g # f
    BY <1>1, <2>1, <2>3 DEF Blocks, Pointers
  <2> QED
    BY <2>2, <2>3
<1>4. Pointers'
  BY <1>1, <1>3 DEF Blocks, Pointers
<1> QED
  BY <1>2, <1>4

LEMMA Blocks_FAT_file_lseek ==
  ASSUME Blocks, NEW s \in Slots, NEW x, FAT_file_lseek(s, x)
  PROVE  Blocks'
<1>1. /\ UNCHANGED <<heap, drive, sb, data, inodes, root_inode, cwd, result, slots, slot, at, cont>>
      /\ SetCursor(s, x) /\ slots[s] # NULL
  BY DEF FAT_file_lseek, call, mount, walk, dir, read, caller
<1>2. Ownership' /\ Pointers'
  BY <1>1, CursorBlocks
<1>3. Points'
  BY <1>1 DEF Blocks, Points, Reading
<1> QED
  BY <1>2, <1>3 DEF Blocks

LEMMA Blocks_FAT_file_close ==
  ASSUME Blocks, NEW s \in Slots, FAT_file_close(s)
  PROVE  Blocks'
<1> DEFINE f == slots[s]
<1>1. /\ UNCHANGED <<drive, sb, data, inodes, root_inode, cwd, result, slot, at, cont>>
      /\ at = "ready" /\ f # NULL
      /\ heap' = kfree(heap, f)
      /\ files' = [g \in DOMAIN files \ {f} |-> files[g]]
      /\ slots' = [slots EXCEPT ![s] = NULL]
  BY DEF FAT_file_close, Called, At, call, mount, walk, dir, read, caller
<1>2. f \in DOMAIN files /\ \A t \in Slots : slots[t] = f => t = s
  BY <1>1 DEF Blocks, Pointers
<1> HIDE DEF f
<1>3. /\ DOMAIN files' = DOMAIN files \ {f}
      /\ \A g \in DOMAIN files' : files'[g] = files[g]
  BY <1>1
<1>4. Ownership'
  <2>1. HeapOK(heap) /\ Own(DOMAIN heap.pool, drive, sb, data, DOMAIN inodes, DOMAIN files)
    BY DEF Blocks, Ownership
  <2>2. /\ f \in DOMAIN heap.pool
        /\ Own(DOMAIN heap.pool \ {f}, drive, sb, data, DOMAIN inodes, DOMAIN files \ {f})
    BY <1>2, <2>1, OwnFree
  <2>3. HeapOK(kfree(heap, f)) /\ DOMAIN kfree(heap, f).pool = DOMAIN heap.pool \ {f}
    BY <2>1, <2>2, Kfree
  <2> QED
    BY <1>1, <1>3, <2>2, <2>3 DEF Ownership
<1>5. slots' \in [Slots -> DOMAIN files' \cup {NULL}]
  <2>1. \A t \in Slots : slots'[t] = IF t = s THEN NULL ELSE slots[t]
    BY <1>1 DEF Blocks, Pointers
  <2>2. \A t \in Slots : slots'[t] \in DOMAIN files' \cup {NULL}
    BY <1>2, <1>3, <2>1 DEF Blocks, Pointers
  <2>3. slots' \in [Slots -> DOMAIN files \cup {NULL}]
    BY <1>1 DEF Blocks, Pointers
  <2> QED
    BY <2>2, <2>3
<1>6. Pointers'
  <2>1. /\ root_inode' \in DOMAIN inodes' \cup {NULL}
        /\ {cwd', result'} \subseteq DOMAIN inodes' \cup {NULL, Garbage}
    BY <1>1 DEF Blocks, Pointers
  <2>2. \A x, y \in Slots : slots'[x] # NULL /\ slots'[x] = slots'[y] => x = y
    BY <1>1 DEF Blocks, Pointers
  <2>3. ASSUME NEW g \in DOMAIN files'
        PROVE  /\ files'[g] = [inode |-> files'[g].inode, path |-> files'[g].path,
                               cursor |-> files'[g].cursor,
                               first_cluster |-> files'[g].first_cluster]
               /\ files'[g].inode \in DOMAIN inodes'
    <3>1. g \in DOMAIN files /\ files'[g] = files[g]
      BY <1>3
    <3> QED
      BY <1>1, <3>1 DEF Blocks, Pointers
  <2> QED
    BY <1>5, <2>1, <2>2, <2>3 DEF Pointers
<1>7. Points'
  BY <1>1 DEF Blocks, Points, Reading
<1> QED
  BY <1>4, <1>6, <1>7 DEF Blocks

LEMMA Blocks_FAT_file_read ==
  ASSUME Blocks, NEW s \in Slots, NEW n, NEW whole, FAT_file_read(s, n, whole)
  PROVE  Blocks'
<1>1. /\ UNCHANGED <<heap, drive, sb, data, inodes, root_inode, cwd, result, slots, cont>>
      /\ at = "ready" /\ at' = "seek" /\ slot' = s /\ slots[s] # NULL
      /\ SetCursor(s, 0) \/ UNCHANGED files
  BY DEF FAT_file_read, Called, At, call, mount, walk, dir, caller
<1>2. Ownership' /\ Pointers'
  <2>1. CASE SetCursor(s, 0)
    BY <1>1, <2>1, CursorBlocks
  <2>2. CASE UNCHANGED files
    BY <1>1, <2>2, Kept
  <2> QED
    BY <1>1, <2>1, <2>2
<1>3. Points'
  BY <1>1 DEF Blocks, Points, Reading
<1> QED
  BY <1>2, <1>3 DEF Blocks

LEMMA Blocks_FAT_file_read_copy ==
  ASSUME Blocks, FAT_file_read_copy
  PROVE  Blocks'
<1> DEFINE x == File(slot).cursor + CopyLength(File(slot).cursor, Inode(slot).st_size)
<1>1. /\ UNCHANGED <<heap, drive, sb, data, inodes, root_inode, cwd, result, slots, slot>>
      /\ at = "copy" /\ at' = "next" /\ cont' = "file" /\ SetCursor(slot, x)
  BY DEF FAT_file_read_copy, Back, mount, walk, dir, caller
<1>2. slot \in Slots /\ slots[slot] # NULL
  BY <1>1 DEF Blocks, Points, Reading
<1> HIDE DEF x
<1>3. Ownership' /\ Pointers'
  BY <1>1, <1>2, CursorBlocks
<1>4. Points'
  BY <1>1, <1>2 DEF Blocks, Points, Reading
<1> QED
  BY <1>3, <1>4 DEF Blocks

LEMMA Blocks_FAT_file_read_end ==
  ASSUME Blocks, FAT_file_read_end
  PROVE  Blocks'
<1>1. /\ UNCHANGED <<heap, drive, sb, data, inodes, root_inode, cwd, result, slots, cont>>
      /\ at = "end" /\ at' = "ready" /\ slot' = NULL
      /\ SetCursor(slot, start) \/ UNCHANGED files
  BY DEF FAT_file_read_end, At, mount, walk, dir
<1>2. slot \in Slots /\ slots[slot] # NULL
  BY <1>1 DEF Blocks, Points, Reading
<1>3. Ownership' /\ Pointers'
  <2>1. CASE SetCursor(slot, start)
    BY <1>1, <1>2, <2>1, CursorBlocks
  <2>2. CASE UNCHANGED files
    BY <1>1, <2>2, Kept
  <2> QED
    BY <1>1, <2>1, <2>2
<1>4. Points'
  BY <1>1 DEF Blocks, Points, Reading
<1> QED
  BY <1>3, <1>4 DEF Blocks

LEMMA Blocks_Init == Init => Blocks
<1> SUFFICES ASSUME Init PROVE Blocks
  OBVIOUS
<1>1. /\ heap = EmptyHeap /\ drive = NULL
      /\ sb = NULL /\ data = NULL /\ inodes = << >> /\ files = << >>
      /\ root_inode = NULL /\ cwd = NULL /\ result = NULL /\ slot = NULL
      /\ at = "probe" /\ cont = "none" /\ slots = [s \in Slots |-> NULL]
  BY DEF Init, AtaInit
<1>2. DOMAIN inodes = {} /\ DOMAIN files = {}
  BY <1>1
<1>3. Ownership
  BY <1>1, <1>2, EmptyHeapOK DEF Ownership, Own
<1>4. Pointers
  BY <1>1, <1>2 DEF Pointers
<1>5. Points
  BY <1>1 DEF Points, Reading
<1> QED
  BY <1>3, <1>4, <1>5 DEF Blocks

LEMMA Blocks_Step ==
  ASSUME Blocks, [Next]_vars
  PROVE  Blocks'
<1>1. CASE Below
  BY <1>1, Blocks_Below
<1>2. CASE Thread
  <2>1. CASE \E s \in Slots : FAT_file_open(s)
    BY <2>1, Blocks_FAT_file_open
  <2>2. CASE \/ parse_MBR_begin \/ parse_MBR \/ parse_partition \/ FS_register \/ FS_probe
             \/ FAT_detect \/ get_FAT_miss \/ get_FAT_fill \/ get_next_cluster_num
    BY <2>2, Blocks_parse_MBR_begin, Blocks_parse_MBR, Blocks_parse_partition, Blocks_FS_register,
       Blocks_FS_probe, Blocks_FAT_detect, Blocks_get_FAT_miss, Blocks_get_FAT_fill,
       Blocks_get_next_cluster_num
  <2>3. CASE \/ FAT_readdir_begin \/ FAT_readdir_cluster \/ FAT_readdir_scan
             \/ FAT_readdir_entry \/ walk_next
    BY <2>3, Blocks_FAT_readdir_begin, Blocks_FAT_readdir_cluster, Blocks_FAT_readdir_scan,
       Blocks_FAT_readdir_entry, Blocks_walk_next
  <2>4. CASE \/ FAT_file_read_seek \/ FAT_file_read_cluster \/ FAT_file_read_copy
             \/ FAT_file_read_end
    BY <2>4, Blocks_FAT_file_read_seek, Blocks_FAT_file_read_cluster, Blocks_FAT_file_read_copy,
       Blocks_FAT_file_read_end
  <2> QED
    BY <1>2, <2>1, <2>2, <2>3, <2>4 DEF Thread
<1>3. CASE Caller
  <2>1. CASE Take
    BY <2>1, Blocks_Take
  <2>2. CASE \E o \in DOMAIN PathOf : FS_inode_for_path(o)
    BY <2>2, Blocks_FS_inode_for_path
  <2>3. ASSUME NEW s \in Slots,
               \/ \E n \in Lengths : FAT_file_read(s, n, FALSE)
               \/ FAT_file_read(s, 0, TRUE)
               \/ \E offset \in 0..Inode(s).st_size : FAT_file_lseek(s, offset)
               \/ FAT_file_close(s)
        PROVE  Blocks'
    BY <2>3, Blocks_FAT_file_read, Blocks_FAT_file_lseek, Blocks_FAT_file_close
  <2> QED
    BY <1>3, <2>1, <2>2, <2>3 DEF Caller
<1>4. CASE UNCHANGED vars
  <2>1. /\ UNCHANGED <<heap, drive, sb, data, inodes, files, root_inode, cwd, result, slots, slot,
                       at, cont>>
    BY <1>4 DEF vars, ataVars, walk, dir, read, caller
  <2>2. Points'
    BY <2>1 DEF Blocks, Points, Reading
  <2> QED
    BY <2>1, <2>2, Kept DEF Blocks
<1> QED
  BY <1>1, <1>2, <1>3, <1>4 DEF Next

LEMMA BlocksSound == Blocks => HeapSound
<1> SUFFICES ASSUME Blocks PROVE HeapSound
  OBVIOUS
<1>1. PoolsSound(heap)
  BY HeapOKSound DEF Blocks, Ownership
<1>2. ASSUME NEW b \in Held PROVE b \in DOMAIN heap.pool
  <2>1. CASE b \in {slots[s] : s \in OpenSlots}
    BY <2>1 DEF OpenSlots, Blocks, Pointers, Ownership, Own
  <2>2. CASE b \in {File(s).inode : s \in OpenSlots}
    BY <2>2 DEF OpenSlots, File, Blocks, Pointers, Ownership, Own
  <2>3. CASE b \in {drive, sb, root_inode, cwd, result, data} \ {NULL, Garbage}
    BY <2>3 DEF Blocks, Pointers, Ownership, Own
  <2> QED
    BY <2>1, <2>2, <2>3 DEF Held
<1>3. \A s, t \in OpenSlots : slots[s] = slots[t] => s = t
  BY DEF OpenSlots, Blocks, Pointers
<1> QED
  BY <1>1, <1>2, <1>3 DEF HeapSound

(* kmalloc's pools stay sound and no block in use is given out twice,      *)
(* freed twice or freed while something points to it: the drive, the       *)
(* superblock, inodes, readdir's buffer, open files.                       *)
THEOREM BlocksStaySound == Spec => []HeapSound
<1>1. Blocks /\ [Next]_vars => Blocks'
  BY Blocks_Step
<1> QED
  BY <1>1, Blocks_Init, BlocksSound, PTL DEF Spec

-----------------------------------------------------------------------------
(* A block number, sent as six digits, is put together again. *)

LEMMA DivDiv ==
  ASSUME NEW a \in Nat, NEW x \in Nat \ {0}, NEW y \in Nat \ {0}
  PROVE  a \div (x * y) = (a \div x) \div y
<1> DEFINE q == a \div x
           r == a % x
           p == q \div y
           s == q % y
<1>1. q \in Nat /\ r \in 0..(x - 1) /\ a = q * x + r
  BY DivMod
<1> HIDE DEF q, r
<1>2. p \in Nat /\ s \in 0..(y - 1) /\ q = p * y + s
  BY <1>1, DivMod
<1> HIDE DEF p, s
<1>3. a = p * (x * y) + (s * x + r)
  BY <1>1, <1>2
<1>4. x * y \in Nat \ {0}
  OBVIOUS
<1>5. s * x \in Nat /\ s * x <= (y - 1) * x
  BY <1>2
<1>6. (y - 1) * x = x * y - x
  OBVIOUS
<1>7. s * x + r \in 0..(x * y - 1)
  BY <1>1, <1>4, <1>5, <1>6
<1>8. a \div (x * y) = p
  BY <1>2, <1>3, <1>4, <1>7, DivModUnique
<1> QED
  BY <1>8 DEF p, q

LEMMA Weights ==
  LET b == ByteBase
  IN /\ Weight[1] = 1 /\ Weight[2] = b /\ Weight[3] = b * b /\ Weight[4] = (b * b) * b
     /\ Weight[5] = ((b * b) * b) * b /\ Weight[6] = (((b * b) * b) * b) * b
BY DEF Weight

LEMMA SixDigits ==
  ASSUME NEW n \in Nat, n < ByteBase * Weight[6]
  PROVE  /\ \A i \in 1..6 : Digit(n, i) \in 0..(ByteBase - 1)
         /\ n = (Digit(n, 1) * Weight[1] + Digit(n, 4) * Weight[4])
                + (Digit(n, 2) * Weight[2] + Digit(n, 5) * Weight[5])
                + (Digit(n, 3) * Weight[3] + Digit(n, 6) * Weight[6])
<1> DEFINE b == ByteBase
           b2 == b * b
           b3 == b2 * b
           b4 == b3 * b
           b5 == b4 * b
           q1 == n \div b
           q2 == q1 \div b
           q3 == q2 \div b
           q4 == q3 \div b
           q5 == q4 \div b
<1>0. b \in Nat /\ b > 0
  BY AtaAssumption
<1>1. /\ Weight[1] = 1 /\ Weight[2] = b /\ Weight[3] = b2 /\ Weight[4] = b3
      /\ Weight[5] = b4 /\ Weight[6] = b5
  BY Weights
<1> HIDE DEF b
<1>2. b2 \in Nat /\ b2 > 0
  BY <1>0
<1> HIDE DEF b2
<1>3. b3 \in Nat /\ b3 > 0
  BY <1>0, <1>2
<1> HIDE DEF b3
<1>4. b4 \in Nat /\ b4 > 0
  BY <1>0, <1>3
<1> HIDE DEF b4
<1>5. b5 \in Nat /\ b5 > 0
  BY <1>0, <1>4
<1> HIDE DEF b5
<1>6. /\ q1 \in Nat /\ n % b \in 0..(b - 1) /\ n = q1 * b + (n % b)
  BY <1>0, DivMod
<1> HIDE DEF q1
<1>7. /\ q2 \in Nat /\ q1 % b \in 0..(b - 1) /\ q1 = q2 * b + (q1 % b)
  BY <1>0, <1>6, DivMod
<1>8. n \div b2 = q2
  <2>0. b \in Nat \ {0}
    BY <1>0
  <2>1. n \div (b * b) = (n \div b) \div b
    BY <2>0, DivDiv, Zenon
  <2> QED
    BY <2>1, Zenon DEF b2, q1
<1> HIDE DEF q2
<1>9. /\ q3 \in Nat /\ q2 % b \in 0..(b - 1) /\ q2 = q3 * b + (q2 % b)
  BY <1>0, <1>7, DivMod
<1>10. n \div b3 = q3
  BY <1>0, <1>2, <1>8, DivDiv DEF b3
<1> HIDE DEF q3
<1>11. /\ q4 \in Nat /\ q3 % b \in 0..(b - 1) /\ q3 = q4 * b + (q3 % b)
  BY <1>0, <1>9, DivMod
<1>12. n \div b4 = q4
  BY <1>0, <1>3, <1>10, DivDiv DEF b4
<1> HIDE DEF q4
<1>13. /\ q5 \in Nat /\ q4 % b \in 0..(b - 1) /\ q4 = q5 * b + (q4 % b)
  BY <1>0, <1>11, DivMod
<1>14. n \div b5 = q5
  BY <1>0, <1>4, <1>12, DivDiv DEF b5
<1> HIDE DEF q5
<1>15. q5 < b
  <2>1. n \div b5 \in Nat /\ n % b5 \in 0..(b5 - 1) /\ n = (n \div b5) * b5 + (n % b5)
    BY <1>5, DivMod
  <2>2. n = q5 * b5 + (n % b5)
    BY <1>14, <2>1
  <2>3. n < b * b5
    BY <1>1 DEF b
  <2>4. q5 >= b => q5 * b5 >= b * b5
    BY <1>0, <1>5, <1>13
  <2>5. q5 * b5 \in Int /\ b * b5 \in Int
    BY <1>0, <1>5, <1>13
  <2> QED
    BY <1>0, <1>13, <2>1, <2>2, <2>3, <2>4, <2>5
<1>16. q5 % b = q5
  BY <1>0, <1>13, <1>15
<1>17. /\ Digit(n, 1) = n % b /\ Digit(n, 2) = q1 % b /\ Digit(n, 3) = q2 % b
       /\ Digit(n, 4) = q3 % b /\ Digit(n, 5) = q4 % b /\ Digit(n, 6) = q5
  <2>1. n \div 1 = n
    OBVIOUS
  <2> QED
    BY <1>1, <1>8, <1>10, <1>12, <1>14, <1>16, <2>1 DEF Digit, q1, b
<1> DEFINE d1 == n % b
           d2 == q1 % b
           d3 == q2 % b
           d4 == q3 % b
           d5 == q4 % b
<1>18. /\ d1 \in Nat /\ d2 \in Nat /\ d3 \in Nat /\ d4 \in Nat /\ d5 \in Nat
       /\ n = q1 * b + d1 /\ q1 = q2 * b + d2 /\ q2 = q3 * b + d3 /\ q3 = q4 * b + d4
       /\ q4 = q5 * b + d5
  BY <1>6, <1>7, <1>9, <1>11, <1>13, <1>0
<1> HIDE DEF d1, d2, d3, d4, d5
<1>19. n = q2 * b2 + (d1 + d2 * b)
  BY <1>0, <1>7, <1>18 DEF b2
<1>20. n = q3 * b3 + (d1 + d2 * b + d3 * b2)
  <2>1. q2 * b2 = q3 * b3 + d3 * b2
    BY <1>0, <1>2, <1>9, <1>18 DEF b3
  <2> QED
    BY <1>0, <1>2, <1>3, <1>9, <1>18, <1>19, <2>1
<1>21. n = q4 * b4 + (d1 + d2 * b + d3 * b2 + d4 * b3)
  <2>1. q3 * b3 = q4 * b4 + d4 * b3
    BY <1>0, <1>3, <1>11, <1>18 DEF b4
  <2> QED
    BY <1>0, <1>2, <1>3, <1>4, <1>11, <1>18, <1>20, <2>1
<1>22. n = q5 * b5 + (d1 + d2 * b + d3 * b2 + d4 * b3 + d5 * b4)
  <2>1. q4 * b4 = q5 * b5 + d5 * b4
    BY <1>0, <1>4, <1>13, <1>18 DEF b5
  <2> QED
    BY <1>0, <1>2, <1>3, <1>4, <1>5, <1>13, <1>18, <1>21, <2>1
<1>23. n = (d1 * 1 + d4 * b3) + (d2 * b + d5 * b4) + (d3 * b2 + q5 * b5)
  BY <1>0, <1>2, <1>3, <1>4, <1>5, <1>13, <1>18, <1>22
<1>24. \A i \in 1..6 : Digit(n, i) \in 0..(b - 1)
  <2>1. \A i \in 1..6 : i = 1 \/ i = 2 \/ i = 3 \/ i = 4 \/ i = 5 \/ i = 6
    OBVIOUS
  <2>2. q5 \in 0..(b - 1)
    BY <1>0, <1>13, <1>15
  <2> QED
    BY <1>6, <1>7, <1>9, <1>11, <1>13, <1>17, <2>1, <2>2
<1> QED
  BY <1>1, <1>17, <1>23, <1>24 DEF b, d1, d2, d3, d4, d5

-----------------------------------------------------------------------------
(* Clusters and the table. *)

LEMMA Geometry ==
  /\ reserved_sectors \in Nat \ {0} /\ num_fats \in Nat \ {0} /\ sectors_per_fat \in Nat \ {0}
  /\ EntsPerFat \in Nat \ {0} /\ DirEnts \in Nat \ {0} /\ ClusterSize \in Nat \ {0}
  /\ sectors_per_fat * num_fats \in Nat /\ sectors_per_fat <= sectors_per_fat * num_fats
  /\ PartStart \in Nat /\ PartLen \in Nat /\ NumSectors \in Nat /\ PartStart + PartLen <= NumSectors
  /\ reserved_sectors + sectors_per_fat * num_fats <= PartLen
  /\ EntryMod \in Nat \ {0} /\ TABLE_VAL_MAX \in 1..EOC /\ EOC \in 0..(EntryMod - 1)
<1>1. /\ reserved_sectors \in Nat \ {0} /\ num_fats \in Nat \ {0}
      /\ sectors_per_fat \in Nat \ {0} /\ EntsPerFat \in Nat \ {0} /\ DirEnts \in Nat \ {0}
      /\ ClusterSize \in Nat \ {0}
  BY FsAssumption
<1>2. /\ PartStart \in Nat /\ PartLen \in Nat /\ PartStart + PartLen <= NumSectors
      /\ reserved_sectors + sectors_per_fat * num_fats <= PartLen
      /\ EntryMod \in Nat /\ TABLE_VAL_MAX \in 1..(EntryMod - 1)
  BY FsAssumption
<1>3. NumSectors \in Nat
  <2>1. ByteBase * Weight[6] \in Int
    BY AtaAssumption, Weights
  <2> QED
    BY <2>1, AtaAssumption
<1>4. sectors_per_fat * num_fats \in Nat /\ sectors_per_fat <= sectors_per_fat * num_fats
  BY <1>1
<1>5. EntryMod \in Nat \ {0} /\ TABLE_VAL_MAX \in 1..EOC /\ EOC \in 0..(EntryMod - 1)
  BY <1>2 DEF EOC
<1> QED
  BY <1>1, <1>2, <1>3, <1>4, <1>5

LEMMA ClusterFacts ==
  ASSUME layout \in Layouts, NEW c \in Clusters
  PROVE  /\ c \in 2..(TABLE_VAL_MAX - 1) /\ c # EOC
         /\ c < sectors_per_fat * EntsPerFat /\ cluster_to_sector(c) < PartLen
<1>1. WellPlaced(layout)
  BY FsAssumption
<1>2. PICK o \in Objects : c \in Range(layout[o])
  BY DEF Clusters
<1>3. layout[o] \in Seq(2..(TABLE_VAL_MAX - 1))
  BY <1>1 DEF WellPlaced
<1>4. PICK i \in 1..Len(layout[o]) : c = layout[o][i]
  BY <1>2, <1>3 DEF Range
<1>5. c \in 2..(TABLE_VAL_MAX - 1)
  BY <1>3, <1>4, ElementOfSeq, Zenon
<1>6. c < sectors_per_fat * EntsPerFat /\ cluster_to_sector(c) < PartLen
  BY <1>1, <1>4 DEF WellPlaced
<1> QED
  BY <1>5, <1>6, Geometry

LEMMA FirstClusterFacts ==
  ASSUME layout \in Layouts, NEW o \in Objects
  PROVE  FirstCluster(o) \in Clusters \cup {0}
<1>1. layout[o] \in Seq(2..(TABLE_VAL_MAX - 1))
  BY FsAssumption DEF WellPlaced
<1>2. CASE layout[o] = << >>
  BY <1>2 DEF FirstCluster
<1>3. CASE layout[o] # << >>
  <2>1. 1 \in DOMAIN layout[o]
    BY <1>1, <1>3
  <2>2. layout[o][1] \in Range(layout[o])
    BY <2>1 DEF Range
  <2> QED
    BY <1>3, <2>2 DEF FirstCluster, Clusters
<1> QED
  BY <1>2, <1>3

LEMMA SectorFacts ==
  ASSUME layout \in Layouts, NEW c \in Clusters \cup {0}
  PROVE  /\ c \in Nat /\ c # EOC
         /\ c \div EntsPerFat \in 0..(sectors_per_fat - 1)
         /\ reserved_sectors + c \div EntsPerFat \in 1..(PartLen - 1)
         /\ cluster_to_sector(c) \in 0..(PartLen - 1)
<1> DEFINE q == c \div EntsPerFat
           r == c % EntsPerFat
<1>1. /\ EntsPerFat \in Nat \ {0} /\ sectors_per_fat \in Nat \ {0}
      /\ reserved_sectors \in Nat \ {0} /\ PartLen \in Nat
      /\ reserved_sectors + sectors_per_fat * num_fats <= PartLen
      /\ sectors_per_fat * num_fats \in Nat /\ sectors_per_fat <= sectors_per_fat * num_fats
  BY Geometry
<1>2. c \in Nat /\ c < sectors_per_fat * EntsPerFat /\ c # EOC
  <2>1. sectors_per_fat * EntsPerFat > 0 /\ sectors_per_fat * EntsPerFat \in Nat
    BY <1>1
  <2>2. CASE c = 0
    BY <2>1, <2>2, Geometry
  <2>3. CASE c \in Clusters
    BY <2>3, ClusterFacts, Geometry
  <2> QED
    BY <2>2, <2>3
<1>3. q \in Nat /\ r \in 0..(EntsPerFat - 1) /\ c = q * EntsPerFat + r
  BY <1>1, <1>2, DivMod
<1> HIDE DEF q, r
<1>4. q < sectors_per_fat
  <2>1. q >= sectors_per_fat => q * EntsPerFat >= sectors_per_fat * EntsPerFat
    BY <1>1, <1>3
  <2>2. q * EntsPerFat \in Nat /\ sectors_per_fat * EntsPerFat \in Nat
    BY <1>1, <1>3
  <2> QED
    BY <1>1, <1>2, <1>3, <2>1, <2>2
<1>5. reserved_sectors + q \in 1..(PartLen - 1)
  BY <1>1, <1>3, <1>4
<1>6. cluster_to_sector(c) \in 0..(PartLen - 1)
  <2>1. CASE c = 0
    BY <1>1, <2>1 DEF cluster_to_sector
  <2>2. CASE c \in Clusters
    BY <1>1, <2>2, ClusterFacts, Geometry DEF cluster_to_sector
  <2> QED
    BY <2>1, <2>2
<1> QED
  BY <1>1, <1>2, <1>3, <1>4, <1>5, <1>6 DEF q

(* What get_next_cluster_num takes out of the sector it needs. *)
LEMMA NextFacts ==
  ASSUME layout \in Layouts, cluster_num \in Clusters \cup {0},
         buf["fat"] = PartStart + fat_sector
  PROVE  next_cluster = FatValue(cluster_num) /\ next_cluster \in Clusters \cup {EOC}
<1> DEFINE c == cluster_num
           q == c \div EntsPerFat
           r == c % EntsPerFat
           v == FatValue(c)
           b == buf["fat"]
<1>1. /\ c \in Nat /\ q \in 0..(sectors_per_fat - 1)
  BY SectorFacts
<1>2. r \in 0..(EntsPerFat - 1) /\ c = q * EntsPerFat + r
  BY <1>1, Geometry, DivMod
<1>3. b = Fat0 + q
  BY <1>1, Geometry DEF fat_sector, Fat0
<1>4. v \in Clusters \cup {EOC}
  BY DEF FatValue
<1>5. v \in 0..(EntryMod - 1)
  BY <1>4, ClusterFacts, Geometry
<1>6. c % 2 \in Nat
  BY <1>1
<1> HIDE DEF c, q, r, v, b
<1>7. /\ b \in Fat0..(Data0 - 1) /\ b - Fat0 = q
  <2>1. Fat0 \in Nat /\ Data0 = Fat0 + sectors_per_fat * num_fats
    BY Geometry DEF Fat0, Data0
  <2> QED
    BY <1>1, <1>3, <2>1, Geometry
<1>8. (b - Fat0) % sectors_per_fat = q
  BY <1>1, <1>7, Geometry
<1>9. FatEntry(b, r) = v + (c % 2) * EntryMod
  BY <1>2, <1>7, <1>8 DEF FatEntry, v
<1>10. ((c % 2) * EntryMod + v) % EntryMod = v
  BY <1>5, <1>6, Geometry, DivModUnique
<1>11. v + (c % 2) * EntryMod = (c % 2) * EntryMod + v
  BY <1>5, <1>6, Geometry
<1>12. next_cluster = FatEntry(b, r) % EntryMod
  BY Zenon DEF next_cluster, b, r, c
<1>13. next_cluster = v
  BY <1>9, <1>10, <1>11, <1>12, Zenon
<1> QED
  BY <1>4, <1>13 DEF v, c

-----------------------------------------------------------------------------
(* Devices, block reads, clusters and cursors. *)

Mounting == {"probe", "mbr", "part", "register", "detect", "detected", "stopped", "wild"}
Early == {"probe", "mbr", "part", "register", "stopped", "wild"}

DriveRec(t) == [type |-> "MASS_STORAGE", tot_len |-> t, lba_offset |-> 0, num_sectors |-> 0]
PartRec == [type |-> "PARTITION", tot_len |-> NumSectors, lba_offset |-> PartStart,
            num_sectors |-> PartLen]

(* The devices say of themselves what the disk says. *)
Devices ==
    /\ probe = "found" => /\ drive \in DOMAIN devs
                          /\ devs[drive] \in {DriveRec(0), DriveRec(NumSectors)}
    /\ at \notin {"probe", "stopped"} => probe = "found"
    /\ at \notin {"probe", "mbr", "stopped"} => devs[drive] = DriveRec(NumSectors)
    /\ at = "mbr" /\ (rd.pc \in {"poll", "poll2", "data"} \/ buf["mbr"] # NULL)
          => devs[drive] = DriveRec(NumSectors)
    /\ at = "probe" => buf["mbr"] = NULL
    /\ at \in {"probe", "mbr", "part"} => DOMAIN devs \subseteq DOMAIN heap.pool
    /\ partitions \in Seq(Nat \cup {NULL})
    /\ at \in {"probe", "mbr", "stopped"} => partitions = << >>
    /\ partitions # << >> /\ partitions[1] # NULL =>
          partitions[1] \in DOMAIN devs /\ devs[partitions[1]] = PartRec
    /\ at \notin {"probe", "mbr", "part", "stopped"} => partitions # << >>
    /\ at \notin Early => partitions[1] # NULL
    /\ at \notin Mounting => root_inode # NULL

(* The block that is read at each point, and the buffer it goes to. *)
Target ==
    IF at = "mbr" THEN 0
    ELSE IF at = "detected" THEN PartStart
    ELSE IF at = "fill" THEN PartStart + fat_sector
    ELSE PartStart + cluster_to_sector(cluster_num)
Dest ==
    IF at = "mbr" THEN "mbr"
    ELSE IF at = "detected" THEN "sb"
    ELSE IF at = "fill" THEN "fat"
    ELSE IF at = "scan" THEN "dir"
    ELSE "file"

(* The drive's registers mean that block while the driver polls, and the   *)
(* buffer has it when the read has returned.                               *)
Transfer ==
    /\ rd = [pc |-> rd.pc, dst |-> rd.dst, ret |-> rd.ret]
    /\ rd.pc # "idle" => at \in {"mbr", "detected", "fill", "scan", "copy"}
    /\ rd.pc \in {"poll", "poll2", "data"} => Addressed = Target /\ rd.dst = Dest
    /\ rd.pc = "back" /\ at # "mbr" => buf[Dest] = Target

(* Cluster numbers in use are clusters of the disk, none, or the end. *)
Chains ==
    /\ layout \in Layouts
    /\ cached_sector \in Nat /\ dir_ent \in Nat \ {0}
    /\ cluster_num \in Clusters \cup {0, EOC}
    /\ at \in {"scan", "entry", "next", "fill", "copy"} => cluster_num # EOC
    /\ \A b \in DOMAIN inodes : /\ inodes[b].st_ino \in Clusters \cup {0}
                                /\ inodes[b].st_size \in 0..(OffMod - 1)
    /\ \A f \in DOMAIN files : files[f].first_cluster \in Clusters \cup {0}
    /\ at = "walk" => cwd \in DOMAIN inodes

Bytes == (0..(NumSectors - 1) \cup {NULL}) \X Nat

Cursors ==
    /\ lookups \in 0..MaxLookups
    /\ Reading => /\ start \in 0..Inode(slot).st_size
                  /\ len \in Nat /\ skip \in Nat
                  /\ dst \in Seq(Bytes) /\ Len(dst) <= len
    /\ \A s \in OpenSlots : File(s).cursor \in 0..Inode(s).st_size

DInv == AtaTypeOK /\ Devices /\ Transfer /\ Chains /\ Cursors /\ CacheCoherent

LEMMA KeptTypes ==
  ASSUME AtaTypeOK, UNCHANGED <<kind, work, status, regs, probe, buf>>, rd' \in {rd, Idle}
  PROVE  AtaTypeOK'
BY DEF AtaTypeOK, Idle

LEMMA KeptDevices ==
  ASSUME Devices, UNCHANGED <<probe, drive, devs, partitions, root_inode>>,
         at \notin {"probe", "mbr", "part", "stopped"},
         at' \notin {"probe", "mbr", "part", "stopped"},
         at' \notin Mounting => at \notin Mounting, at' \notin Early => at \notin Early
  PROVE  Devices'
BY DEF Devices

LEMMA KeptTransfer ==
  ASSUME Transfer, rd' \in {rd, Idle}, rd'.pc = "idle"
  PROVE  Transfer'
BY DEF Transfer, Idle

LEMMA KeptClusters ==
  ASSUME UNCHANGED layout
  PROVE  Clusters' = Clusters
BY DEF Clusters

LEMMA KeptChains ==
  ASSUME Chains,
         UNCHANGED <<layout, cached_sector, cluster_num, inodes, files, cwd, dir_ent>>,
         at' \in {"scan", "entry", "next", "fill", "copy"} => cluster_num # EOC,
         at' = "walk" => cwd \in DOMAIN inodes
  PROVE  Chains'
BY KeptClusters DEF Chains, EOC

LEMMA KeptCursors ==
  ASSUME Cursors,
         UNCHANGED <<lookups, slot, slots, start, len, skip, dst, files, inodes>>,
         Reading' => Reading
  PROVE  Cursors'
BY DEF Cursors, OpenSlots, File, Inode

LEMMA KeptCache ==
  ASSUME CacheCoherent, UNCHANGED cached_sector, buf'["fat"] = buf["fat"],
         at # "fill" \/ at' = "fill"
  PROVE  CacheCoherent'
BY DEF CacheCoherent

LEMMA AddressSent ==
  ASSUME NEW n \in 0..(NumSectors - 1), SendAddress(n)
  PROVE  /\ Addressed' = n
         /\ regs' \in [{"num", "low", "high"} -> (0..(ByteBase - 1)) \X (0..(ByteBase - 1))]
<1>1. n \in Nat /\ n < ByteBase * Weight[6]
  <2>1. ByteBase * Weight[6] \in Int
    BY AtaAssumption, Weights
  <2> QED
    BY <2>1, AtaAssumption
<1>2. \A i \in 1..6 : Digit(n, i) \in 0..(ByteBase - 1)
  BY <1>1, SixDigits
<1>3. n = (Digit(n, 1) * Weight[1] + Digit(n, 4) * Weight[4])
          + (Digit(n, 2) * Weight[2] + Digit(n, 5) * Weight[5])
          + (Digit(n, 3) * Weight[3] + Digit(n, 6) * Weight[6])
  BY <1>1, SixDigits
<1>4. /\ regs'["num"] = <<Digit(n, 4), Digit(n, 1)>>
      /\ regs'["low"] = <<Digit(n, 5), Digit(n, 2)>>
      /\ regs'["high"] = <<Digit(n, 6), Digit(n, 3)>>
  BY DEF SendAddress
<1>5. regs' \in [{"num", "low", "high"} -> (0..(ByteBase - 1)) \X (0..(ByteBase - 1))]
  <2>1. \A i, j \in 1..6 : <<Digit(n, i), Digit(n, j)>> \in (0..(ByteBase - 1)) \X (0..(ByteBase - 1))
    BY <1>2
  <2>2. regs' = [r \in {"num", "low", "high"} |-> regs'[r]]
    BY DEF SendAddress
  <2> QED
    BY <1>4, <2>1, <2>2
<1>6. Addressed' = (regs'["num"][2] * Weight[1] + regs'["num"][1] * Weight[1 + 3])
                   + (regs'["low"][2] * Weight[2] + regs'["low"][1] * Weight[2 + 3])
                   + (regs'["high"][2] * Weight[3] + regs'["high"][1] * Weight[3 + 3])
  BY Zenon DEF Addressed
<1>7. 1 + 3 = 4 /\ 2 + 3 = 5 /\ 3 + 3 = 6
  OBVIOUS
<1>8. /\ regs'["num"][1] = Digit(n, 4) /\ regs'["num"][2] = Digit(n, 1)
      /\ regs'["low"][1] = Digit(n, 5) /\ regs'["low"][2] = Digit(n, 2)
      /\ regs'["high"][1] = Digit(n, 6) /\ regs'["high"][2] = Digit(n, 3)
  BY <1>4
<1>9. Addressed' = n
  BY <1>3, <1>6, <1>7, <1>8, Zenon
<1> QED
  BY <1>5, <1>9

(* A block of the partition is asked for. *)
LEMMA PartRead ==
  ASSUME AtaTypeOK, Devices, at \notin Early, NEW n \in 0..(PartLen - 1), NEW b,
         read_block(partitions[1], n, b)
  PROVE  /\ rd' = [pc |-> "poll", dst |-> b, ret |-> 0]
         /\ Addressed' = PartStart + n
         /\ UNCHANGED <<probe, drive, buf>>
         /\ AtaTypeOK'
<1> DEFINE d == partitions[1]
<1>1. devs[d] = PartRec
  BY DEF Devices, Early
<1>2. /\ devs[d].type = "PARTITION" /\ devs[d].tot_len = NumSectors
      /\ devs[d].lba_offset = PartStart /\ devs[d].num_sectors = PartLen
  BY <1>1 DEF PartRec
<1>3. part_read_block(d, n, b) /\ UNCHANGED <<kind, probe, drive, buf>>
  BY <1>2 DEF read_block
<1>4. ATA_read_block(d, n + PartStart, b)
  BY <1>2, <1>3, Geometry DEF part_read_block
<1>5. n + PartStart \in 0..(NumSectors - 1) /\ n + PartStart = PartStart + n
  BY Geometry
<1>6. /\ SendAddress(n + PartStart) /\ work' = "read" /\ status' = {"BSY"}
      /\ rd' = [pc |-> "poll", dst |-> b, ret |-> 0]
  BY <1>2, <1>4, <1>5, Geometry DEF ATA_read_block
<1>7. /\ Addressed' = n + PartStart
      /\ regs' \in [{"num", "low", "high"} -> (0..(ByteBase - 1)) \X (0..(ByteBase - 1))]
  BY <1>5, <1>6, AddressSent
<1>8. AtaTypeOK'
  BY <1>3, <1>6, <1>7 DEF AtaTypeOK
<1> QED
  BY <1>3, <1>5, <1>6, <1>7, <1>8

LEMMA TargetFacts ==
  ASSUME Chains, at \in {"mbr", "detected", "fill", "scan", "copy"}
  PROVE  Target \in 0..(NumSectors - 1) /\ Dest \in Buffers /\ (Dest = "fat" <=> at = "fill")
<1>1. Dest \in Buffers /\ (Dest = "fat" <=> at = "fill")
  BY FsAssumption DEF Dest
<1>2. CASE at \in {"mbr", "detected"}
  BY <1>1, <1>2, Geometry DEF Target
<1>3. CASE at \in {"fill", "scan", "copy"}
  <2>1. layout \in Layouts /\ cluster_num \in Clusters \cup {0}
    BY <1>3 DEF Chains
  <2>2. fat_sector \in 0..(PartLen - 1) /\ cluster_to_sector(cluster_num) \in 0..(PartLen - 1)
    BY <2>1, SectorFacts, Geometry DEF fat_sector
  <2> QED
    BY <1>1, <1>3, <2>2, Geometry DEF Target
<1> QED
  BY <1>1, <1>2, <1>3

LEMMA DInv_ATA_probe ==
  ASSUME DInv, Below, ATA_probe
  PROVE  AtaTypeOK' /\ Devices' /\ Transfer' /\ CacheCoherent'
<1>1. /\ probe = "start" /\ at \in {"probe", "stopped"} /\ rd.pc = "idle"
  BY DEF ATA_probe, DInv, Devices, Transfer
<1>2. /\ UNCHANGED <<kind, drive, devs, rd, buf, heap, at, partitions, root_inode, cached_sector>>
      /\ probe' \in {"none", "busy"}
      /\ work' \in {work, "identify"} /\ status' \in {status, {"BSY"}}
      /\ regs' = regs \/ regs' = [r \in DOMAIN regs |-> <<regs[r][2], 0>>]
  BY <1>1 DEF ATA_probe, Below
<1>3. regs' \in [{"num", "low", "high"} -> (0..(ByteBase - 1)) \X (0..(ByteBase - 1))]
  <2>1. 0 \in 0..(ByteBase - 1)
    BY AtaAssumption
  <2> QED
    BY <1>2, <2>1 DEF DInv, AtaTypeOK
<1>4. AtaTypeOK'
  BY <1>2, <1>3 DEF DInv, AtaTypeOK
<1>5. Devices'
  BY <1>1, <1>2 DEF DInv, Devices, Early, Mounting
<1>6. Transfer' /\ CacheCoherent'
  BY <1>1, <1>2, KeptTransfer, KeptCache DEF DInv
<1> QED
  BY <1>4, <1>5, <1>6

LEMMA DInv_ATA_identify ==
  ASSUME Blocks, DInv, Below, NEW lba48, NEW sectors \in {0, NumSectors}, ATA_identify(lba48, sectors)
  PROVE  AtaTypeOK' /\ Devices' /\ Transfer' /\ CacheCoherent'
<1> DEFINE m == kmalloc(heap, SizeOfDev)
<1>1. /\ probe = "busy" /\ at \in {"probe", "stopped"} /\ rd.pc = "idle"
  BY DEF ATA_identify, DInv, Devices, Transfer
<1>2. /\ UNCHANGED <<kind, regs, rd, buf, at, partitions, root_inode, cached_sector>>
      /\ status' = {} /\ work' = "none"
      /\ \/ probe' = "none" /\ UNCHANGED <<drive, devs, heap>>
         \/ /\ probe' = "found" /\ heap' = m.heap /\ drive' = m.block
            /\ devs' = Put(devs, m.block, DriveRec(sectors))
  BY DEF ATA_identify, Below, DriveRec
<1>3. AtaTypeOK'
  BY <1>2 DEF DInv, AtaTypeOK
<1>4. Transfer' /\ CacheCoherent'
  BY <1>1, <1>2, KeptTransfer, KeptCache DEF DInv
<1>5. DOMAIN m.heap.pool = DOMAIN heap.pool \cup {m.block}
  BY NewBlock DEF Blocks
<1> HIDE DEF m
<1>6. CASE probe' = "none" /\ UNCHANGED <<drive, devs, heap>>
  <2>1. Devices'
    BY <1>1, <1>2, <1>6 DEF DInv, Devices, Early, Mounting
  <2> QED
    BY <1>3, <1>4, <2>1
<1>7. CASE /\ probe' = "found" /\ heap' = m.heap /\ drive' = m.block
           /\ devs' = Put(devs, m.block, DriveRec(sectors))
  <2>1. /\ DOMAIN devs' = DOMAIN devs \cup {m.block}
        /\ devs'[m.block] = DriveRec(sectors)
    BY <1>7 DEF Put
  <2>2. DOMAIN devs \subseteq DOMAIN heap.pool \/ at = "stopped"
    BY <1>1 DEF DInv, Devices
  <2>3. drive' \in DOMAIN devs' /\ devs'[drive'] \in {DriveRec(0), DriveRec(NumSectors)}
    BY <1>7, <2>1
  <2>4. at' = "stopped" \/ DOMAIN devs' \subseteq DOMAIN heap'.pool
    BY <1>2, <1>5, <1>7, <2>1, <2>2
  <2>5. /\ at' \in {"probe", "stopped"} /\ partitions' = << >>
        /\ at' = "probe" => buf'["mbr"] = NULL
    BY <1>1, <1>2 DEF DInv, Devices
  <2>6. << >> \in Seq(Nat \cup {NULL})
    OBVIOUS
  <2>7. Devices'
    BY <2>3, <2>4, <2>5, <2>6 DEF Devices, Early, Mounting
  <2> QED
    BY <1>3, <1>4, <2>7
<1> QED
  BY <1>2, <1>3, <1>4, <1>6, <1>7

LEMMA DInv_ATA_poll ==
  ASSUME DInv, Below, ATA_poll
  PROVE  AtaTypeOK' /\ Devices' /\ Transfer' /\ CacheCoherent'
<1>1. /\ UNCHANGED <<kind, work, status, regs, probe, drive, devs, buf, heap, at, partitions,
                     root_inode, cached_sector, cluster_num>>
      /\ rd.pc \in {"poll", "poll2"}
      /\ \E p \in {"poll2", "panic", "data"} : rd' = [rd EXCEPT !.pc = p]
  BY DEF ATA_poll, Below
<1>2. PICK p \in {"poll2", "panic", "data"} : rd' = [rd EXCEPT !.pc = p]
  BY <1>1
<1>3. rd' = [pc |-> p, dst |-> rd.dst, ret |-> rd.ret]
  BY <1>2 DEF DInv, Transfer
<1>4. AtaTypeOK'
  BY <1>1, <1>3 DEF DInv, AtaTypeOK
<1>5. Devices'
  BY <1>1, <1>3 DEF DInv, Devices
<1>6. Addressed' = Addressed /\ Target' = Target /\ Dest' = Dest
  BY <1>1 DEF Addressed, Target, Dest, fat_sector
<1>7. Transfer'
  BY <1>1, <1>3, <1>6 DEF DInv, Transfer
<1>8. CacheCoherent'
  BY <1>1, KeptCache DEF DInv
<1> QED
  BY <1>4, <1>5, <1>7, <1>8

LEMMA DInv_ATA_transfer ==
  ASSUME DInv, Below, NEW bad_status, ATA_transfer(bad_status)
  PROVE  AtaTypeOK' /\ Devices' /\ Transfer' /\ CacheCoherent'
<1>1. /\ rd.pc = "data" /\ at \in {"mbr", "detected", "fill", "scan", "copy"}
      /\ Addressed = Target /\ rd.dst = Dest
  BY DEF ATA_transfer, DInv, Transfer
<1>2. /\ UNCHANGED <<kind, work, probe, drive, devs, heap, at, partitions, root_inode,
                     cached_sector, cluster_num>>
      /\ buf' = [buf EXCEPT ![Dest] = Target]
      /\ status' = {} /\ regs' = [r \in DOMAIN regs |-> <<0, 0>>]
      /\ rd'.pc = "back" /\ rd' = [pc |-> rd'.pc, dst |-> rd'.dst, ret |-> rd'.ret]
  BY <1>1 DEF ATA_transfer, Below, Returned
<1>3. Target \in 0..(NumSectors - 1) /\ Dest \in Buffers /\ (Dest = "fat" <=> at = "fill")
  BY <1>1, TargetFacts DEF DInv
<1>4. Target' = Target /\ Dest' = Dest
  BY <1>2 DEF Target, Dest, fat_sector
<1>5. buf \in [Buffers -> 0..(NumSectors - 1) \cup {NULL}]
  BY DEF DInv, AtaTypeOK
<1>6. /\ buf' \in [Buffers -> 0..(NumSectors - 1) \cup {NULL}] /\ buf'[Dest] = Target
      /\ at # "fill" => buf'["fat"] = buf["fat"]
  BY <1>2, <1>3, <1>5, FsAssumption
<1>7. AtaTypeOK'
  <2>1. 0 \in 0..(ByteBase - 1)
    BY AtaAssumption
  <2> QED
    BY <1>2, <1>6, <2>1 DEF DInv, AtaTypeOK
<1>8. Devices'
  BY <1>1, <1>2 DEF DInv, Devices
<1>9. Transfer'
  BY <1>1, <1>2, <1>4, <1>6 DEF Transfer
<1>10. CacheCoherent'
  BY <1>2, <1>6 DEF DInv, CacheCoherent
<1> QED
  BY <1>7, <1>8, <1>9, <1>10

LEMMA DInv_drive ==
  ASSUME DInv, Below, drive_not_busy \/ \E failed \in BOOLEAN : drive_done(failed)
  PROVE  AtaTypeOK' /\ Devices' /\ Transfer' /\ CacheCoherent'
<1>1. /\ UNCHANGED <<kind, regs, probe, drive, devs, rd, buf, heap, at, partitions,
                     root_inode, cached_sector, cluster_num>>
      /\ work' \in {work, "none"} /\ status' \in SUBSET {"BSY", "DRQ", "ERR"}
  BY DEF drive_not_busy, drive_done, Below
<1>2. AtaTypeOK'
  BY <1>1 DEF DInv, AtaTypeOK
<1>3. Devices'
  BY <1>1 DEF DInv, Devices
<1>4. Addressed' = Addressed /\ Target' = Target /\ Dest' = Dest
  BY <1>1 DEF Addressed, Target, Dest, fat_sector
<1>5. Transfer' /\ CacheCoherent'
  BY <1>1, <1>4, KeptCache DEF DInv, Transfer
<1> QED
  BY <1>2, <1>3, <1>5

LEMMA DInv_Below ==
  ASSUME Blocks, DInv, Below
  PROVE  DInv'
<1>1. AtaTypeOK' /\ Devices' /\ Transfer' /\ CacheCoherent'
  <2>1. CASE ATA_probe
    BY <2>1, DInv_ATA_probe
  <2>2. CASE \E lba48 \in BOOLEAN, sectors \in {0, NumSectors} : ATA_identify(lba48, sectors)
    BY <2>2, DInv_ATA_identify
  <2>3. CASE ATA_poll
    BY <2>3, DInv_ATA_poll
  <2>4. CASE \E bad_status \in BOOLEAN : ATA_transfer(bad_status)
    BY <2>4, DInv_ATA_transfer
  <2>5. CASE drive_not_busy \/ \E failed \in BOOLEAN : drive_done(failed)
    BY <2>5, DInv_drive
  <2> QED
    BY <2>1, <2>2, <2>3, <2>4, <2>5 DEF Below, AtaNext
<1>2. UNCHANGED <<layout, cached_sector, cluster_num, inodes, files, cwd, dir_ent, lookups, slot,
                  slots, start, len, skip, dst, at, cont>>
  BY DEF Below, disk, walk, dir, read, caller
<1>3. Chains'
  BY <1>2, KeptChains DEF DInv, Chains
<1>4. Cursors'
  BY <1>2, KeptCursors DEF DInv, Reading
<1> QED
  BY <1>1, <1>3, <1>4 DEF DInv

(* Mounting. *)

LEMMA DInv_parse_MBR_begin ==
  ASSUME DInv, parse_MBR_begin
  PROVE  DInv'
<1>1. /\ UNCHANGED <<layout, cached_sector, cluster_num, inodes, files, cwd, dir_ent, lookups,
                     slot, slots, start, len, skip, dst, cont, devs, heap, partitions, root_inode>>
      /\ at = "probe" /\ rd.pc = "idle"
      /\ \/ probe = "none" /\ at' = "stopped" /\ UNCHANGED call
         \/ probe = "found" /\ at' = "mbr" /\ read_block(drive, 0, "mbr")
  BY DEF parse_MBR_begin, At, disk, mount, walk, dir, read, caller
<1>2. Chains' /\ Cursors'
  BY <1>1, KeptChains, KeptCursors DEF DInv, Reading
<1>3. CASE probe = "none" /\ at' = "stopped" /\ UNCHANGED call
  <2>1. UNCHANGED <<kind, work, status, regs, probe, drive, rd, buf>>
    BY <1>3 DEF call
  <2>2. AtaTypeOK' /\ Transfer' /\ CacheCoherent'
    BY <1>1, <2>1, KeptTypes, KeptTransfer, KeptCache DEF DInv
  <2>3. Devices'
    BY <1>1, <1>3, <2>1 DEF DInv, Devices, Early, Mounting
  <2> QED
    BY <1>2, <2>2, <2>3 DEF DInv
<1>4. CASE probe = "found" /\ at' = "mbr" /\ read_block(drive, 0, "mbr")
  <2>1. devs[drive] \in {DriveRec(0), DriveRec(NumSectors)}
    BY <1>4 DEF DInv, Devices
  <2>2. /\ devs[drive].type # "PARTITION" /\ devs[drive].tot_len \in {0, NumSectors}
        /\ devs[drive].tot_len = NumSectors => devs[drive] = DriveRec(NumSectors)
    BY <2>1 DEF DriveRec
  <2>3. ATA_read_block(drive, 0, "mbr") /\ UNCHANGED <<kind, probe, drive, buf>>
    BY <1>4, <2>2 DEF read_block
  <2>4. CacheCoherent'
    BY <1>1, <2>3, KeptCache DEF DInv
  <2>5. /\ drive \in DOMAIN devs /\ DOMAIN devs \subseteq DOMAIN heap.pool
        /\ buf["mbr"] = NULL /\ partitions = << >>
    BY <1>1, <1>4 DEF DInv, Devices
  <2>6. << >> \in Seq(Nat \cup {NULL})
    OBVIOUS
  <2>7. CASE 0 >= devs[drive].tot_len
    <3>1. rd' = Returned(-1) /\ UNCHANGED <<work, status, regs>>
      BY <2>3, <2>7 DEF ATA_read_block
    <3>2. AtaTypeOK'
      BY <2>3, <3>1 DEF DInv, AtaTypeOK, Returned
    <3>3. Transfer'
      BY <1>4, <3>1 DEF Transfer, Returned
    <3>4. rd'.pc = "back"
      BY <3>1 DEF Returned
    <3>5. Devices'
      BY <1>1, <1>4, <2>1, <2>3, <2>5, <2>6, <3>4 DEF Devices, Early, Mounting
    <3> QED
      BY <1>2, <2>4, <3>2, <3>3, <3>5 DEF DInv
  <2>8. CASE ~(0 >= devs[drive].tot_len)
    <3>1. /\ SendAddress(0) /\ work' = "read" /\ status' = {"BSY"}
          /\ rd' = [pc |-> "poll", dst |-> "mbr", ret |-> 0]
      BY <2>3, <2>8 DEF ATA_read_block
    <3>2. 0 \in 0..(NumSectors - 1) /\ devs[drive] = DriveRec(NumSectors)
      BY <2>2, <2>8, Geometry
    <3>3. /\ Addressed' = 0
          /\ regs' \in [{"num", "low", "high"} -> (0..(ByteBase - 1)) \X (0..(ByteBase - 1))]
      BY <3>1, <3>2, AddressSent
    <3>4. AtaTypeOK'
      BY <2>3, <3>1, <3>3 DEF DInv, AtaTypeOK
    <3>5. Transfer'
      BY <1>4, <3>1, <3>3 DEF Transfer, Target, Dest
    <3>6. Devices'
      BY <1>1, <1>4, <2>3, <2>5, <2>6, <3>2 DEF Devices, Early, Mounting
    <3> QED
      BY <1>2, <2>4, <3>4, <3>5, <3>6 DEF DInv
  <2> QED
    BY <2>7, <2>8
<1> QED
  BY <1>1, <1>3, <1>4

LEMMA DInv_parse_MBR ==
  ASSUME DInv, parse_MBR
  PROVE  DInv'
<1>1. /\ UNCHANGED <<layout, cached_sector, cluster_num, inodes, files, cwd, dir_ent, lookups,
                     slot, slots, start, len, skip, dst, cont, devs, heap, partitions, root_inode,
                     kind, work, status, regs, probe, drive, buf>>
      /\ at = "mbr" /\ rd' = Idle
      /\ at' = "stopped" \/ (at' = "part" /\ buf["mbr"] = 0)
  BY DEF parse_MBR, Back, disk, mount, walk, dir, read, caller
<1>2. Chains' /\ Cursors'
  BY <1>1, KeptChains, KeptCursors DEF DInv, Reading
<1>3. AtaTypeOK' /\ Transfer' /\ CacheCoherent'
  BY <1>1, KeptTypes, KeptTransfer, KeptCache DEF DInv, Idle
<1>4. at' = "part" => devs[drive] = DriveRec(NumSectors)
  BY <1>1, AtaAssumption DEF DInv, Devices
<1>5. Devices'
  BY <1>1, <1>4 DEF DInv, Devices, Early, Mounting
<1> QED
  BY <1>2, <1>3, <1>5 DEF DInv

LEMMA DInv_parse_partition ==
  ASSUME Blocks, DInv, parse_partition
  PROVE  DInv'
<1> DEFINE m == kmalloc(heap, SizeOfDev)
           n == kmalloc(m.heap, SizeOfNode)
           new == [devs[drive] EXCEPT !.type = "PARTITION", !.lba_offset = PartStart,
                                      !.num_sectors = PartLen]
<1>1. /\ UNCHANGED <<layout, cached_sector, cluster_num, inodes, files, cwd, dir_ent, lookups,
                     slot, slots, start, len, skip, dst, cont, root_inode,
                     kind, work, status, regs, probe, drive, rd, buf>>
      /\ at = "part" /\ rd.pc = "idle"
      /\ at' = IF Len(partitions') = 4 THEN "register" ELSE "part"
      /\ \/ /\ heap' = n.heap /\ partitions' = Append(partitions, m.block)
            /\ devs' = Put(devs, m.block, new)
         \/ partitions' = Append(partitions, NULL) /\ UNCHANGED <<heap, devs>>
  BY DEF parse_partition, At, call, disk, walk, dir, read, caller
<1>2. Chains' /\ Cursors'
  BY <1>1, KeptChains, KeptCursors DEF DInv, Reading
<1>3. AtaTypeOK' /\ Transfer' /\ CacheCoherent'
  BY <1>1, KeptTypes, KeptTransfer, KeptCache DEF DInv
<1>4. /\ partitions \in Seq(Nat \cup {NULL}) /\ devs[drive] = DriveRec(NumSectors)
      /\ drive \in DOMAIN devs /\ DOMAIN devs \subseteq DOMAIN heap.pool /\ probe = "found"
      /\ partitions # << >> /\ partitions[1] # NULL =>
            partitions[1] \in DOMAIN devs /\ devs[partitions[1]] = PartRec
  BY <1>1 DEF DInv, Devices
<1>5. new = PartRec
  <2> DEFINE r1 == [devs[drive] EXCEPT !.type = "PARTITION"]
             r2 == [r1 EXCEPT !.lba_offset = PartStart]
  <2>1. new = [r2 EXCEPT !.num_sectors = PartLen]
    BY Zenon
  <2>2. r1 = [type |-> "PARTITION", tot_len |-> NumSectors, lba_offset |-> 0, num_sectors |-> 0]
    BY <1>4 DEF DriveRec
  <2> HIDE DEF r1, new
  <2>3. r2 = [type |-> "PARTITION", tot_len |-> NumSectors, lba_offset |-> PartStart,
              num_sectors |-> 0]
    BY <2>2
  <2> HIDE DEF r2
  <2> QED
    BY <2>1, <2>3 DEF PartRec
<1>6. /\ HeapOK(m.heap) /\ m.block \in Nat /\ m.block \notin DOMAIN heap.pool
      /\ DOMAIN m.heap.pool = DOMAIN heap.pool \cup {m.block}
  BY NewBlock DEF Blocks
<1> HIDE DEF m, new
<1>7. DOMAIN n.heap.pool = DOMAIN m.heap.pool \cup {n.block}
  BY <1>6, Kmalloc, FsAssumption
<1> HIDE DEF n
<1>8. CASE /\ heap' = n.heap /\ partitions' = Append(partitions, m.block)
           /\ devs' = Put(devs, m.block, new)
  <2>1. /\ DOMAIN devs' = DOMAIN devs \cup {m.block} /\ devs'[m.block] = PartRec
        /\ \A d \in DOMAIN devs : devs'[d] = devs[d]
    BY <1>4, <1>5, <1>6, <1>8 DEF Put
  <2>2. /\ partitions' \in Seq(Nat \cup {NULL}) /\ partitions' # << >>
        /\ partitions = << >> => partitions'[1] = m.block
        /\ partitions # << >> => partitions'[1] = partitions[1]
    BY <1>4, <1>6, <1>8
  <2>3. DOMAIN devs' \subseteq DOMAIN heap'.pool
    BY <1>4, <1>6, <1>7, <1>8, <2>1
  <2>4. drive' \in DOMAIN devs' /\ devs'[drive'] = DriveRec(NumSectors) /\ probe' = "found"
    BY <1>1, <1>4, <2>1
  <2>5. partitions'[1] # NULL => partitions'[1] \in DOMAIN devs' /\ devs'[partitions'[1]] = PartRec
    BY <1>4, <2>1, <2>2
  <2>6. at' \in {"register", "part"}
    BY <1>1
  <2>7. Devices'
    BY <2>2, <2>3, <2>4, <2>5, <2>6 DEF Devices, Early, Mounting
  <2> QED
    BY <1>2, <1>3, <2>7 DEF DInv
<1>9. CASE partitions' = Append(partitions, NULL) /\ UNCHANGED <<heap, devs>>
  <2>1. /\ partitions' \in Seq(Nat \cup {NULL}) /\ partitions' # << >>
        /\ partitions = << >> => partitions'[1] = NULL
        /\ partitions # << >> => partitions'[1] = partitions[1]
    BY <1>4, <1>9
  <2>2. at' \in {"register", "part"}
    BY <1>1
  <2>3. partitions'[1] # NULL => partitions'[1] \in DOMAIN devs' /\ devs'[partitions'[1]] = PartRec
    BY <1>4, <1>9, <2>1
  <2>4. /\ drive' \in DOMAIN devs' /\ devs'[drive'] = DriveRec(NumSectors) /\ probe' = "found"
        /\ DOMAIN devs' \subseteq DOMAIN heap'.pool
    BY <1>1, <1>4, <1>9
  <2>5. Devices'
    BY <2>1, <2>2, <2>3, <2>4 DEF Devices, Early, Mounting
  <2> QED
    BY <1>2, <1>3, <2>5 DEF DInv
<1> QED
  BY <1>1, <1>8, <1>9

LEMMA DInv_FS_register ==
  ASSUME DInv, FS_register
  PROVE  DInv'
<1>1. /\ UNCHANGED <<layout, cached_sector, cluster_num, inodes, files, cwd, dir_ent, lookups,
                     slot, slots, start, len, skip, dst, cont, root_inode, devs, partitions,
                     kind, work, status, regs, probe, drive, rd, buf>>
      /\ at = "register" /\ rd.pc = "idle"
      /\ at' = IF partitions[1] = NULL THEN "wild" ELSE "detect"
  BY DEF FS_register, At, call, disk, mount, walk, dir, read, caller
<1>2. Chains' /\ Cursors'
  BY <1>1, KeptChains, KeptCursors DEF DInv, Reading
<1>3. AtaTypeOK' /\ Transfer' /\ CacheCoherent'
  BY <1>1, KeptTypes, KeptTransfer, KeptCache DEF DInv
<1>4. Devices'
  BY <1>1 DEF DInv, Devices, Early, Mounting
<1> QED
  BY <1>2, <1>3, <1>4 DEF DInv

LEMMA DInv_FS_probe ==
  ASSUME DInv, FS_probe
  PROVE  DInv'
<1>1. /\ UNCHANGED <<layout, cached_sector, cluster_num, inodes, files, cwd, dir_ent, lookups,
                     slot, slots, start, len, skip, dst, cont, root_inode, devs, partitions>>
      /\ at = "detect" /\ at' = "detected"
      /\ read_block(partitions[1], 0, "sb")
  BY DEF FS_probe, At, disk, mount, walk, dir, read, caller
<1>2. Chains' /\ Cursors'
  BY <1>1, KeptChains, KeptCursors DEF DInv, Reading
<1>3. /\ rd' = [pc |-> "poll", dst |-> "sb", ret |-> 0] /\ Addressed' = PartStart + 0
      /\ UNCHANGED <<probe, drive, buf>> /\ AtaTypeOK'
  <2>1. 0 \in 0..(PartLen - 1) /\ at \notin Early
    BY <1>1, Geometry DEF Early
  <2> QED
    BY <1>1, <2>1, PartRead DEF DInv
<1>4. Transfer'
  <2>1. PartStart + 0 = PartStart
    BY Geometry
  <2> QED
    BY <1>1, <1>3, <2>1 DEF Transfer, Target, Dest
<1>5. Devices' /\ CacheCoherent'
  BY <1>1, <1>3, KeptDevices, KeptCache DEF DInv, Early, Mounting
<1> QED
  BY <1>2, <1>3, <1>4, <1>5 DEF DInv

(* More inodes do not change the ones that are open. *)
LEMMA MoreInodes ==
  ASSUME Blocks, Cursors, UNCHANGED <<lookups, slot, slots, start, len, skip, dst, files>>,
         Reading' => Reading, DOMAIN inodes \subseteq DOMAIN inodes',
         \A b \in DOMAIN inodes : inodes'[b] = inodes[b]
  PROVE  Cursors'
<1>1. \A s \in OpenSlots : Inode(s)' = Inode(s) /\ File(s)' = File(s)
  BY DEF Blocks, Pointers, OpenSlots, Inode, File
<1>2. Reading => slot \in OpenSlots
  BY DEF Blocks, Points, OpenSlots
<1>3. OpenSlots' = OpenSlots
  BY DEF OpenSlots
<1>4. Reading => inodes'[files'[slots'[slot']].inode] = inodes[files[slots[slot]].inode]
  BY <1>1, <1>2 DEF Inode, File
<1> QED
  BY <1>1, <1>3, <1>4 DEF Cursors, Inode, File

LEMMA DInv_FAT_detect ==
  ASSUME Blocks, DInv, FAT_detect
  PROVE  DInv'
<1> DEFINE m == FAT_init_inode(FirstCluster(Root), TRUE, 0)
<1>1. /\ UNCHANGED <<layout, cached_sector, cluster_num, files, cwd, dir_ent, lookups,
                     slot, slots, start, len, skip, dst, cont, devs, partitions,
                     kind, work, status, regs, probe, drive, buf>>
      /\ at = "detected" /\ rd' = Idle
      /\ \/ inodes' = m.inodes /\ root_inode' = m.inode /\ at' = "ready"
         \/ at' = "detect" /\ UNCHANGED <<inodes, root_inode>>
  BY DEF FAT_detect, Back, disk, walk, dir, read, caller
<1>2. AtaTypeOK' /\ Transfer' /\ CacheCoherent'
  BY <1>1, KeptTypes, KeptTransfer, KeptCache DEF DInv, Idle
<1>3. CASE at' = "detect" /\ UNCHANGED <<inodes, root_inode>>
  <2>1. Chains' /\ Cursors' /\ Devices'
    BY <1>1, <1>3, KeptChains, KeptCursors, KeptDevices DEF DInv, Reading, Early, Mounting
  <2> QED
    BY <1>2, <2>1 DEF DInv
<1>4. CASE inodes' = m.inodes /\ root_inode' = m.inode /\ at' = "ready"
  <2>1. Made(m, FirstCluster(Root), TRUE, 0)
    BY NewInode
  <2> HIDE DEF m
  <2>2. /\ m.inode # NULL /\ DOMAIN inodes' = DOMAIN inodes \cup {m.inode}
        /\ inodes'[m.inode].st_ino = FirstCluster(Root) /\ inodes'[m.inode].st_size = 0
        /\ \A b \in DOMAIN inodes : inodes'[b] = inodes[b]
    BY <1>4, <2>1 DEF Made
  <2>3. Cursors'
    BY <1>1, <1>4, <2>2, MoreInodes DEF DInv, Reading
  <2>4. Devices'
    BY <1>1, <1>4, <2>2 DEF DInv, Devices, Early, Mounting
  <2>5. FirstCluster(Root) \in Clusters \cup {0} /\ 0 \in 0..(OffMod - 1)
    BY FirstClusterFacts, FsAssumption DEF DInv, Chains
  <2>6. \A b \in DOMAIN inodes' : /\ inodes'[b].st_ino \in Clusters \cup {0}
                                  /\ inodes'[b].st_size \in 0..(OffMod - 1)
    BY <2>2, <2>5 DEF DInv, Chains
  <2>7. Clusters' = Clusters
    BY <1>1, KeptClusters
  <2>8. Chains'
    BY <1>1, <1>4, <2>6, <2>7 DEF DInv, Chains
  <2> QED
    BY <1>2, <2>3, <2>4, <2>8 DEF DInv
<1> QED
  BY <1>1, <1>3, <1>4

(* The table. *)

LEMMA DInv_get_FAT_miss ==
  ASSUME DInv, get_FAT_miss
  PROVE  DInv'
<1>1. /\ UNCHANGED <<layout, cached_sector, cluster_num, inodes, files, cwd, dir_ent, lookups,
                     slot, slots, start, len, skip, dst, cont, root_inode, devs, partitions>>
      /\ at = "next" /\ at' = "fill"
      /\ read_block(partitions[1], fat_sector, "fat")
  BY DEF get_FAT_miss, At, disk, mount, walk, dir, read, caller
<1>2. Chains' /\ Cursors'
  BY <1>1, KeptChains, KeptCursors DEF DInv, Chains, Reading
<1>3. fat_sector \in 0..(PartLen - 1) /\ fat_sector' = fat_sector
  BY <1>1, SectorFacts DEF DInv, Chains, fat_sector
<1>4. /\ rd' = [pc |-> "poll", dst |-> "fat", ret |-> 0] /\ Addressed' = PartStart + fat_sector
      /\ UNCHANGED <<probe, drive, buf>> /\ AtaTypeOK'
  BY <1>1, <1>3, PartRead DEF DInv, Early
<1>5. Transfer'
  BY <1>1, <1>3, <1>4 DEF Transfer, Target, Dest
<1>6. Devices' /\ CacheCoherent'
  BY <1>1, <1>4, KeptDevices, KeptCache DEF DInv, Early, Mounting
<1> QED
  BY <1>2, <1>4, <1>5, <1>6 DEF DInv

LEMMA DInv_get_FAT_fill ==
  ASSUME DInv, get_FAT_fill
  PROVE  DInv'
<1>1. /\ UNCHANGED <<layout, cluster_num, inodes, files, cwd, dir_ent, lookups,
                     slot, slots, start, len, skip, dst, cont, root_inode, devs, partitions,
                     kind, work, status, regs, probe, drive, buf>>
      /\ at = "fill" /\ at' = "next" /\ rd.pc = "back" /\ rd' = Idle
      /\ cached_sector' = fat_sector
  BY DEF get_FAT_fill, Back, disk, mount, walk, dir, read, caller
<1>2. fat_sector \in Nat
  BY <1>1, SectorFacts DEF DInv, Chains, fat_sector
<1>3. Chains'
  BY <1>1, <1>2, KeptClusters DEF DInv, Chains, EOC
<1>4. AtaTypeOK' /\ Transfer' /\ Cursors' /\ Devices'
  BY <1>1, KeptTypes, KeptTransfer, KeptCursors, KeptDevices DEF DInv, Idle, Reading, Early, Mounting
<1>5. buf["fat"] = PartStart + fat_sector
  BY <1>1 DEF DInv, Transfer, Target, Dest
<1>6. CacheCoherent'
  BY <1>1, <1>5 DEF CacheCoherent
<1> QED
  BY <1>3, <1>4, <1>6 DEF DInv

LEMMA DInv_get_next_cluster_num ==
  ASSUME Blocks, DInv, get_next_cluster_num
  PROVE  DInv'
<1>1. /\ UNCHANGED <<layout, cached_sector, inodes, files, cwd, dir_ent, lookups,
                     slot, slots, start, len, skip, dst, root_inode, devs, partitions,
                     kind, work, status, regs, probe, drive, rd, buf>>
      /\ at = "next" /\ rd.pc = "idle" /\ at' = cont /\ cont' = "none"
      /\ cached_sector = fat_sector /\ cluster_num' = next_cluster
  BY DEF get_next_cluster_num, At, call, disk, mount, walk, dir, read, caller
<1>2. cont \in {"dir", "seek", "file"}
  BY <1>1 DEF Blocks, Points
<1>3. layout \in Layouts /\ cluster_num \in Clusters \cup {0}
  BY <1>1 DEF DInv, Chains
<1>4. buf["fat"] = PartStart + fat_sector
  <2>1. fat_sector # 0
    BY <1>3, SectorFacts DEF fat_sector
  <2> QED
    BY <1>1, <2>1 DEF DInv, CacheCoherent
<1>5. cluster_num' \in Clusters \cup {EOC}
  BY <1>1, <1>3, <1>4, NextFacts
<1>6. Chains'
  BY <1>1, <1>2, <1>5, KeptClusters DEF DInv, Chains, EOC
<1>7. AtaTypeOK' /\ Transfer' /\ CacheCoherent'
  BY <1>1, KeptTypes, KeptTransfer, KeptCache DEF DInv
<1>8. Cursors'
  BY <1>1, <1>2, KeptCursors DEF DInv, Reading
<1>9. Devices'
  BY <1>1, <1>2, KeptDevices DEF DInv, Early, Mounting
<1> QED
  BY <1>6, <1>7, <1>8, <1>9 DEF DInv

(* The path walk. *)

LEMMA DInv_FS_inode_for_path ==
  ASSUME Blocks, DInv, NEW o, FS_inode_for_path(o)
  PROVE  DInv'
<1>1. /\ UNCHANGED <<layout, cached_sector, cluster_num, inodes, files, dir_ent,
                     slot, slots, start, len, skip, dst, cont, root_inode, devs, partitions,
                     kind, work, status, regs, probe, drive, rd, buf>>
      /\ at = "ready" /\ rd.pc = "idle" /\ at' = "walk" /\ cwd' = root_inode
      /\ lookups < MaxLookups /\ lookups' = lookups + 1
  BY DEF FS_inode_for_path, Called, At, call, disk, mount, dir, read, caller
<1>2. root_inode \in DOMAIN inodes
  BY <1>1 DEF Blocks, Pointers, DInv, Devices, Mounting
<1>3. Chains'
  BY <1>1, <1>2, KeptClusters DEF DInv, Chains, EOC
<1>4. Cursors'
  <2>1. lookups' \in 0..MaxLookups
    BY <1>1, FsAssumption DEF DInv, Cursors
  <2>2. ~Reading'
    BY <1>1 DEF Blocks, Points, Reading
  <2> QED
    BY <1>1, <2>1, <2>2 DEF DInv, Cursors, OpenSlots, Inode, File
<1>5. AtaTypeOK' /\ Transfer' /\ CacheCoherent' /\ Devices'
  BY <1>1, KeptTypes, KeptTransfer, KeptCache, KeptDevices DEF DInv, Early, Mounting
<1> QED
  BY <1>3, <1>4, <1>5 DEF DInv

LEMMA DInv_FAT_readdir_begin ==
  ASSUME DInv, FAT_readdir_begin
  PROVE  DInv'
<1>1. /\ UNCHANGED <<layout, cached_sector, inodes, files, cwd, dir_ent, lookups,
                     slot, slots, start, len, skip, dst, cont, root_inode, devs, partitions,
                     kind, work, status, regs, probe, drive, rd, buf>>
      /\ at = "walk" /\ rd.pc = "idle" /\ at' \in {"dir", "walked"}
      /\ cluster_num' \in {cluster_num, inodes[cwd].st_ino}
  BY DEF FAT_readdir_begin, At, call, disk, mount, walk, dir, read, caller
<1>2. inodes[cwd].st_ino \in Clusters \cup {0}
  BY <1>1 DEF DInv, Chains
<1>3. Chains'
  BY <1>1, <1>2, KeptClusters DEF DInv, Chains, EOC
<1>4. AtaTypeOK' /\ Transfer' /\ CacheCoherent'
  BY <1>1, KeptTypes, KeptTransfer, KeptCache DEF DInv
<1>5. Cursors' /\ Devices'
  BY <1>1, KeptCursors, KeptDevices DEF DInv, Reading, Early, Mounting
<1> QED
  BY <1>3, <1>4, <1>5 DEF DInv

(* A buffer is given up. *)
LEMMA Forgotten ==
  ASSUME AtaTypeOK, Devices, Transfer, CacheCoherent, NEW b \in Buffers \ {"fat"}, Forget(b),
         UNCHANGED <<kind, work, status, regs, probe, drive, rd, cached_sector, devs, partitions,
                     root_inode>>,
         rd.pc = "idle", at \notin Mounting, at' \notin Mounting, at # "fill"
  PROVE  AtaTypeOK' /\ Devices' /\ Transfer' /\ CacheCoherent'
<1>1. buf' = [buf EXCEPT ![b] = NULL]
  BY DEF Forget
<1>2. buf' \in [Buffers -> 0..(NumSectors - 1) \cup {NULL}] /\ buf'["fat"] = buf["fat"]
  BY <1>1, FsAssumption DEF AtaTypeOK
<1>3. AtaTypeOK'
  BY <1>2 DEF AtaTypeOK
<1> QED
  BY <1>2, <1>3, KeptDevices, KeptTransfer, KeptCache DEF Early, Mounting

LEMMA DInv_FAT_readdir_cluster ==
  ASSUME DInv, FAT_readdir_cluster
  PROVE  DInv'
<1>1. /\ UNCHANGED <<layout, cached_sector, inodes, files, cwd, dir_ent, lookups,
                     slot, slots, start, len, skip, dst, cont, root_inode, devs, partitions>>
      /\ at = "dir" /\ rd.pc = "idle"
      /\ \/ /\ cluster_num < TABLE_VAL_MAX /\ FAT_read_cluster("dir") /\ at' = "scan"
            /\ UNCHANGED cluster_num
         \/ /\ Forget("dir") /\ at' = "walk_next"
            /\ UNCHANGED <<kind, work, status, regs, probe, drive, rd>>
  BY DEF FAT_readdir_cluster, At, disk, mount, walk, dir, read, caller
<1>2. Cursors'
  BY <1>1, KeptCursors DEF DInv, Reading
<1>3. CASE /\ cluster_num < TABLE_VAL_MAX /\ FAT_read_cluster("dir") /\ at' = "scan"
           /\ UNCHANGED cluster_num
  <2>1. cluster_num # EOC
    BY <1>3, Geometry
  <2>2. layout \in Layouts /\ cluster_num \in Clusters \cup {0}
    BY <2>1 DEF DInv, Chains
  <2>3. cluster_to_sector(cluster_num) \in 0..(PartLen - 1)
    BY <2>2, SectorFacts
  <2>4. /\ rd' = [pc |-> "poll", dst |-> "dir", ret |-> 0]
        /\ Addressed' = PartStart + cluster_to_sector(cluster_num)
        /\ UNCHANGED <<probe, drive, buf>> /\ AtaTypeOK'
    BY <1>1, <1>3, <2>3, PartRead DEF DInv, Early, FAT_read_cluster
  <2>5. Transfer'
    BY <1>3, <2>4 DEF Transfer, Target, Dest, cluster_to_sector
  <2>6. Devices' /\ CacheCoherent'
    BY <1>1, <1>3, <2>4, KeptDevices, KeptCache DEF DInv, Early, Mounting
  <2>7. Chains'
    BY <1>1, <1>3, <2>1, KeptChains DEF DInv
  <2> QED
    BY <1>2, <2>4, <2>5, <2>6, <2>7 DEF DInv
<1>4. CASE /\ Forget("dir") /\ at' = "walk_next"
           /\ UNCHANGED <<kind, work, status, regs, probe, drive, rd>>
  <2>1. AtaTypeOK' /\ Devices' /\ Transfer' /\ CacheCoherent'
    BY <1>1, <1>4, Forgotten, FsAssumption DEF DInv, Mounting
  <2>2. Chains'
    BY <1>1, <1>4, KeptClusters DEF DInv, Chains, Forget, EOC
  <2> QED
    BY <1>2, <2>1, <2>2 DEF DInv
<1> QED
  BY <1>1, <1>3, <1>4

LEMMA DInv_FAT_readdir_scan ==
  ASSUME DInv, FAT_readdir_scan
  PROVE  DInv'
<1>1. /\ UNCHANGED <<layout, cached_sector, cluster_num, inodes, files, cwd, lookups,
                     slot, slots, start, len, skip, dst, cont, root_inode, devs, partitions,
                     kind, work, status, regs, probe, drive, buf>>
      /\ at = "scan" /\ rd' = Idle /\ at' = "entry" /\ dir_ent' = 1
  BY DEF FAT_readdir_scan, Back, disk, mount, walk, dir, read, caller
<1>2. Chains'
  BY <1>1, KeptClusters DEF DInv, Chains, EOC
<1>3. AtaTypeOK' /\ Transfer' /\ CacheCoherent'
  BY <1>1, KeptTypes, KeptTransfer, KeptCache DEF DInv, Idle
<1>4. Cursors' /\ Devices'
  BY <1>1, KeptCursors, KeptDevices DEF DInv, Reading, Early, Mounting
<1> QED
  BY <1>2, <1>3, <1>4 DEF DInv

(* What a directory entry names exists. *)
LEMMA EntryFacts ==
  ASSUME Chains, NEW b, NEW e, e = DirBlock(b)[dir_ent], ~(dir_ent > Len(DirBlock(b))), ~e.lfn
  PROVE  EntCluster(e) \in Clusters \cup {0} /\ EntSize(e) \in 0..(OffMod - 1)
<1> DEFINE H(o) == \E i \in DOMAIN layout[o] : Data0 + layout[o][i] - 2 = b
           o == CHOOSE o \in DOMAIN Dirs : H(o)
           i == CHOOSE i \in DOMAIN layout[o] : Data0 + layout[o][i] - 2 = b
           m == (i - 1) * DirEnts + 1
           n == Smaller(i * DirEnts, Len(Dirs[o]))
<1>1. dir_ent \in Nat \ {0} /\ layout \in Layouts
  BY DEF Chains
<1>2. \E d \in DOMAIN Dirs : H(d)
  <2>1. ~(\E d \in DOMAIN Dirs : H(d)) => DirBlock(b) = << >>
    BY Zenon DEF DirBlock
  <2>2. Len(<< >>) = 0
    OBVIOUS
  <2> QED
    BY <1>1, <2>1, <2>2
<1>3. DirBlock(b) = SubSeq(Dirs[o], m, n)
  BY <1>2, Zenon DEF DirBlock
<1>4. o \in DOMAIN Dirs /\ H(o)
  BY <1>2, Zenon
<1>5. i \in DOMAIN layout[o]
  BY <1>4, Zenon
<1> HIDE DEF o, i
<1>6. /\ o \in Objects /\ Dirs[o] \in Seq(Range(Dirs[o]))
      /\ \A x \in Range(Dirs[o]) : ~x.lfn => x.object \in Objects \cup {NULL}
  BY <1>4, FsAssumption
<1>7. i \in Nat \ {0}
  <2>1. layout[o] \in Seq(2..(TABLE_VAL_MAX - 1))
    BY <1>1, <1>6, FsAssumption DEF WellPlaced
  <2> QED
    BY <1>5, <2>1
<1>8. /\ m \in Nat \ {0} /\ n \in Nat /\ n <= Len(Dirs[o])
  <2>1. DirEnts \in Nat \ {0} /\ Len(Dirs[o]) \in Nat
    BY <1>6, Geometry
  <2>2. i * DirEnts \in Nat /\ (i - 1) * DirEnts \in Nat
    BY <1>7, <2>1
  <2> QED
    BY <2>1, <2>2 DEF Smaller
<1> HIDE DEF m, n
<1> DEFINE S == Range(Dirs[o])
<1>9. \A j \in m..n : Dirs[o][j] \in S
  BY <1>6, <1>8, ElementOfSeq
<1>10. /\ SubSeq(Dirs[o], m, n) \in Seq(S)
  BY <1>8, <1>9, SubSeqProperties
<1>11. dir_ent \in 1..Len(DirBlock(b))
  BY <1>1, <1>3, <1>10
<1>12. e \in S
  BY <1>3, <1>10, <1>11, ElementOfSeq
<1>13. e.object \in Objects \cup {NULL}
  BY <1>6, <1>12
<1>14. CASE e.object = NULL
  <2>1. 0 \in 0..(OffMod - 1)
    BY FsAssumption
  <2> QED
    BY <1>14, <2>1 DEF EntCluster, EntSize
<1>15. CASE e.object # NULL
  BY <1>1, <1>13, <1>15, FirstClusterFacts, FsAssumption DEF EntCluster, EntSize
<1> QED
  BY <1>14, <1>15

LEMMA DInv_FAT_readdir_entry ==
  ASSUME Blocks, DInv, FAT_readdir_entry
  PROVE  DInv'
<1> DEFINE e == DirBlock(buf["dir"])[dir_ent]
           m == FAT_init_inode(EntCluster(e), e.dir, EntSize(e))
<1>1. /\ UNCHANGED <<layout, cached_sector, cluster_num, files, cwd, lookups,
                     slot, slots, start, len, skip, dst, root_inode, devs, partitions,
                     kind, work, status, regs, probe, drive, rd, buf>>
      /\ at = "entry" /\ rd.pc = "idle"
      /\ (at' = "next" /\ cont' = "dir") \/ UNCHANGED <<at, cont>>
      /\ dir_ent' \in {dir_ent, dir_ent + 1}
  BY DEF FAT_readdir_entry, At, call, disk, mount, walk, dir, read, caller
<1>2. \/ UNCHANGED inodes
      \/ ~e.lfn /\ ~(dir_ent > Len(DirBlock(buf["dir"]))) /\ inodes' = m.inodes
  BY EntryCases
<1>3. AtaTypeOK' /\ Transfer' /\ CacheCoherent'
  BY <1>1, KeptTypes, KeptTransfer, KeptCache DEF DInv
<1>4. Devices'
  BY <1>1, KeptDevices DEF DInv, Early, Mounting
<1>5. Reading' => Reading
  BY <1>1 DEF Reading
<1>6. dir_ent' \in Nat \ {0} /\ Clusters' = Clusters /\ at' # "walk"
  BY <1>1, KeptClusters DEF DInv, Chains
<1>7. CASE UNCHANGED inodes
  <2>1. Cursors'
    BY <1>1, <1>5, <1>7, KeptCursors DEF DInv
  <2>2. Chains'
    BY <1>1, <1>6, <1>7 DEF DInv, Chains, EOC
  <2> QED
    BY <1>3, <1>4, <2>1, <2>2 DEF DInv
<1>8. CASE ~e.lfn /\ ~(dir_ent > Len(DirBlock(buf["dir"]))) /\ inodes' = m.inodes
  <2>1. EntCluster(e) \in Clusters \cup {0} /\ EntSize(e) \in 0..(OffMod - 1)
    BY <1>8, EntryFacts DEF DInv
  <2>2. Made(m, EntCluster(e), e.dir, EntSize(e))
    BY NewInode
  <2> HIDE DEF m, e
  <2>3. /\ DOMAIN inodes' = DOMAIN inodes \cup {m.inode}
        /\ inodes'[m.inode].st_ino = EntCluster(e) /\ inodes'[m.inode].st_size = EntSize(e)
        /\ \A b \in DOMAIN inodes : inodes'[b] = inodes[b]
    BY <1>8, <2>2 DEF Made
  <2>4. Cursors'
    BY <1>1, <1>5, <2>3, MoreInodes DEF DInv
  <2>5. \A b \in DOMAIN inodes' : /\ inodes'[b].st_ino \in Clusters \cup {0}
                                  /\ inodes'[b].st_size \in 0..(OffMod - 1)
    BY <2>1, <2>3 DEF DInv, Chains
  <2>6. Chains'
    BY <1>1, <1>6, <2>5 DEF DInv, Chains, EOC
  <2> QED
    BY <1>3, <1>4, <2>4, <2>6 DEF DInv
<1> QED
  BY <1>2, <1>7, <1>8

LEMMA DInv_walk_next ==
  ASSUME Blocks, DInv, walk_next
  PROVE  DInv'
<1>1. /\ UNCHANGED <<layout, cached_sector, cluster_num, inodes, files, dir_ent, lookups,
                     slot, slots, start, len, skip, dst, cont, root_inode, devs, partitions,
                     kind, work, status, regs, probe, drive, rd, buf>>
      /\ at = "walk_next" /\ rd.pc = "idle"
      /\ at' \in {"walked", "walk", "wild"} /\ (at' = "walk" => cwd' \in DOMAIN inodes)
  BY DEF walk_next, At, call, disk, mount, walk, dir, read, caller
<1>3. Chains'
  BY <1>1, KeptClusters DEF DInv, Chains, EOC
<1>4. AtaTypeOK' /\ Transfer' /\ CacheCoherent'
  BY <1>1, KeptTypes, KeptTransfer, KeptCache DEF DInv
<1>5. Cursors' /\ Devices'
  BY <1>1, KeptCursors, KeptDevices DEF DInv, Reading, Early, Mounting
<1> QED
  BY <1>3, <1>4, <1>5 DEF DInv

LEMMA DInv_FAT_file_open ==
  ASSUME Blocks, DInv, NEW s \in Slots, FAT_file_open(s)
  PROVE  DInv'
<1> DEFINE m == kmalloc(heap, SizeOfNode)
           new == [inode |-> result, path |-> asked, cursor |-> 0,
                   first_cluster |-> inodes[result].st_ino]
<1>1. /\ UNCHANGED <<layout, cached_sector, cluster_num, inodes, lookups,
                     slot, start, len, skip, dst, cont, root_inode, devs, partitions,
                     kind, work, status, regs, probe, drive, rd, buf>>
      /\ at = "walked" /\ rd.pc = "idle" /\ at' \in {"ready", "wild"} /\ dir_ent' = 1
      /\ \/ /\ result \in DOMAIN inodes
            /\ files' = Put(files, m.block, new)
            /\ slots' = [slots EXCEPT ![s] = m.block]
         \/ UNCHANGED <<files, slots>>
  BY DEF FAT_file_open, At, call, disk, mount, walk, dir, read, caller
<1>2. AtaTypeOK' /\ Transfer' /\ CacheCoherent' /\ Devices'
  BY <1>1, KeptTypes, KeptTransfer, KeptCache, KeptDevices DEF DInv, Early, Mounting
<1>3. Clusters' = Clusters /\ ~Reading'
  BY <1>1, KeptClusters DEF Reading, Blocks, Points
<1>4. CASE UNCHANGED <<files, slots>>
  <2>1. Chains'
    BY <1>1, <1>3, <1>4 DEF DInv, Chains, EOC
  <2>2. Cursors'
    BY <1>1, <1>3, <1>4, KeptCursors DEF DInv
  <2> QED
    BY <1>2, <2>1, <2>2 DEF DInv
<1>5. CASE /\ result \in DOMAIN inodes
           /\ files' = Put(files, m.block, new)
           /\ slots' = [slots EXCEPT ![s] = m.block]
  <2> DEFINE b == m.block
  <2>1. b \notin DOMAIN heap.pool /\ b # NULL
    BY NewBlock DEF Blocks
  <2>2. files' = Put(files, b, new) /\ slots' = [slots EXCEPT ![s] = b]
    BY <1>5
  <2>3. /\ new.inode = result /\ new.cursor = 0 /\ new.first_cluster = inodes[result].st_ino
    OBVIOUS
  <2>4. b \notin DOMAIN files
    BY <2>1 DEF Blocks, Ownership, Own
  <2> HIDE DEF m, b, new
  <2>5. /\ DOMAIN files' = DOMAIN files \cup {b} /\ files'[b] = new
        /\ \A f \in DOMAIN files : files'[f] = files[f]
    BY <2>2, <2>4 DEF Put
  <2>6. inodes[result].st_ino \in Clusters \cup {0} /\ inodes[result].st_size \in Nat
    BY <1>5 DEF DInv, Chains
  <2>7. \A f \in DOMAIN files' : files'[f].first_cluster \in Clusters \cup {0}
    BY <2>3, <2>5, <2>6 DEF DInv, Chains
  <2>8. Chains'
    BY <1>1, <1>3, <2>7 DEF DInv, Chains, EOC
  <2>9. ASSUME NEW t \in OpenSlots'
        PROVE  files'[slots'[t]].cursor \in 0..inodes'[files'[slots'[t]].inode].st_size
    <3>1. CASE t = s
      <4>1. slots'[t] = b
        BY <2>2, <3>1 DEF Blocks, Pointers
      <4> QED
        BY <1>1, <2>3, <2>5, <2>6, <4>1
    <3>2. CASE t # s
      <4>1. slots'[t] = slots[t] /\ t \in OpenSlots
        BY <2>2, <3>2 DEF Blocks, Pointers, OpenSlots
      <4>2. files'[slots'[t]] = files[slots[t]]
        BY <2>5, <4>1 DEF Blocks, Pointers, OpenSlots
      <4>3. File(t).cursor \in 0..Inode(t).st_size
        BY <4>1 DEF DInv, Cursors
      <4> QED
        BY <1>1, <4>2, <4>3 DEF Inode, File
    <3> QED
      BY <3>1, <3>2
  <2>10. Cursors'
    BY <1>1, <1>3, <2>9 DEF DInv, Cursors, Inode, File
  <2> QED
    BY <1>2, <2>8, <2>10 DEF DInv
<1> QED
  BY <1>1, <1>4, <1>5

(* Open files. *)

LEMMA CursorChains ==
  ASSUME Blocks, Chains, Cursors, NEW s \in Slots, slots[s] # NULL,
         NEW x \in 0..Inode(s).st_size, SetCursor(s, x),
         UNCHANGED <<layout, slots, inodes>>
  PROVE  /\ \A f \in DOMAIN files' : files'[f].first_cluster \in Clusters \cup {0}
         /\ \A t \in OpenSlots : /\ files'[slots[t]].inode = files[slots[t]].inode
                                 /\ files'[slots[t]].cursor \in 0..Inode(t).st_size
         /\ OpenSlots' = OpenSlots
<1> DEFINE f == slots[s]
<1>1. /\ DOMAIN files' = DOMAIN files
      /\ files'[f] = [inode |-> files[f].inode, path |-> files[f].path, cursor |-> x,
                      first_cluster |-> files[f].first_cluster]
      /\ \A g \in DOMAIN files : g # f => files'[g] = files[g]
  BY CursorMoved
<1>2. \A t \in OpenSlots : slots[t] \in DOMAIN files /\ (slots[t] = f => t = s)
  BY DEF OpenSlots, Blocks, Pointers
<1>3. f \in DOMAIN files
  BY DEF Blocks, Pointers
<1> HIDE DEF f
<1>4. /\ files'[f].inode = files[f].inode /\ files'[f].cursor = x
      /\ files'[f].first_cluster = files[f].first_cluster
  BY <1>1
<1>5. \A g \in DOMAIN files' : files'[g].first_cluster \in Clusters \cup {0}
  BY <1>1, <1>3, <1>4 DEF Chains
<1>6. ASSUME NEW t \in OpenSlots
      PROVE  /\ files'[slots[t]].inode = files[slots[t]].inode
             /\ files'[slots[t]].cursor \in 0..Inode(t).st_size
  <2>1. CASE slots[t] = f
    BY <1>2, <1>4, <2>1
  <2>2. CASE slots[t] # f
    BY <1>1, <1>2, <2>2 DEF Cursors, File
  <2> QED
    BY <2>1, <2>2
<1>7. OpenSlots' = OpenSlots
  BY DEF OpenSlots
<1> QED
  BY <1>5, <1>6, <1>7

LEMMA DInv_FAT_file_lseek ==
  ASSUME Blocks, DInv, NEW s \in Slots, NEW x \in 0..Inode(s).st_size, FAT_file_lseek(s, x)
  PROVE  DInv'
<1>1. /\ UNCHANGED <<layout, cached_sector, cluster_num, inodes, cwd, dir_ent, lookups,
                     slot, slots, start, len, skip, dst, at, cont, root_inode, devs, partitions,
                     kind, work, status, regs, probe, drive, rd, buf>>
      /\ at = "ready" /\ rd.pc = "idle" /\ SetCursor(s, x) /\ slots[s] # NULL
  BY DEF FAT_file_lseek, Called, At, call, disk, mount, walk, dir, read, caller
<1>2. /\ \A f \in DOMAIN files' : files'[f].first_cluster \in Clusters \cup {0}
      /\ \A t \in OpenSlots : /\ files'[slots[t]].inode = files[slots[t]].inode
                              /\ files'[slots[t]].cursor \in 0..Inode(t).st_size
      /\ OpenSlots' = OpenSlots
  BY <1>1, CursorChains DEF DInv
<1>3. Chains'
  BY <1>1, <1>2, KeptClusters DEF DInv, Chains, EOC
<1>4. ~Reading'
  BY <1>1 DEF Blocks, Points, Reading
<1>5. Cursors'
  BY <1>1, <1>2, <1>4 DEF DInv, Cursors, Inode, File
<1>6. AtaTypeOK' /\ Transfer' /\ CacheCoherent' /\ Devices'
  BY <1>1, KeptTypes, KeptTransfer, KeptCache, KeptDevices DEF DInv, Early, Mounting
<1> QED
  BY <1>3, <1>5, <1>6 DEF DInv

LEMMA DInv_FAT_file_close ==
  ASSUME Blocks, DInv, NEW s \in Slots, FAT_file_close(s)
  PROVE  DInv'
<1> DEFINE f == slots[s]
<1>1. /\ UNCHANGED <<layout, cached_sector, cluster_num, inodes, cwd, dir_ent, lookups,
                     slot, start, len, skip, dst, at, cont, root_inode, devs, partitions,
                     kind, work, status, regs, probe, drive, rd, buf>>
      /\ at = "ready" /\ rd.pc = "idle"
      /\ files' = [g \in DOMAIN files \ {f} |-> files[g]]
      /\ slots' = [slots EXCEPT ![s] = NULL] /\ f # NULL
  BY DEF FAT_file_close, Called, At, call, disk, mount, walk, dir, read, caller
<1>2. AtaTypeOK' /\ Transfer' /\ CacheCoherent' /\ Devices'
  BY <1>1, KeptTypes, KeptTransfer, KeptCache, KeptDevices DEF DInv, Early, Mounting
<1>3. /\ DOMAIN files' \subseteq DOMAIN files
      /\ \A g \in DOMAIN files \ {f} : files'[g] = files[g]
      /\ \A g \in DOMAIN files' : files'[g] = files[g]
  BY <1>1
<1>4. Chains'
  BY <1>1, <1>3, KeptClusters DEF DInv, Chains, EOC
<1>5. ~Reading'
  BY <1>1 DEF Blocks, Points, Reading
<1>6. ASSUME NEW t \in OpenSlots'
      PROVE  files'[slots'[t]].cursor \in 0..inodes'[files'[slots'[t]].inode].st_size
  <2>1. t \in Slots /\ t # s /\ slots'[t] = slots[t] /\ t \in OpenSlots
    BY <1>1 DEF OpenSlots, Blocks, Pointers
  <2>2. slots[t] \in DOMAIN files \ {f}
    BY <1>1, <2>1 DEF OpenSlots, Blocks, Pointers
  <2>3. File(t).cursor \in 0..Inode(t).st_size
    BY <2>1 DEF DInv, Cursors
  <2> QED
    BY <1>1, <1>3, <2>1, <2>2, <2>3 DEF Inode, File
<1>7. Cursors'
  BY <1>1, <1>5, <1>6 DEF DInv, Cursors, Inode, File
<1> QED
  BY <1>2, <1>4, <1>7 DEF DInv

LEMMA DInv_FAT_file_read ==
  ASSUME Blocks, DInv, NEW s \in Slots, NEW n \in Nat, NEW whole \in BOOLEAN,
         FAT_file_read(s, n, whole)
  PROVE  DInv'
<1>1. /\ UNCHANGED <<layout, cached_sector, inodes, cwd, dir_ent, lookups,
                     slots, cont, root_inode, devs, partitions,
                     kind, work, status, regs, probe, drive, rd, buf>>
      /\ at = "ready" /\ rd.pc = "idle" /\ at' = "seek" /\ slots[s] # NULL
      /\ slot' = s /\ start' = File(s).cursor /\ dst' = << >>
      /\ len' \in {Inode(s).st_size, n}
      /\ \/ SetCursor(s, 0) /\ skip' = 0
         \/ skip' = File(s).cursor \div ClusterSize /\ UNCHANGED files
      /\ cluster_num' = File(s).first_cluster
  BY DEF FAT_file_read, Called, At, call, disk, mount, walk, dir, caller
<1>2. AtaTypeOK' /\ Transfer' /\ CacheCoherent' /\ Devices'
  BY <1>1, KeptTypes, KeptTransfer, KeptCache, KeptDevices DEF DInv, Early, Mounting
<1>3. /\ s \in OpenSlots /\ slots[s] \in DOMAIN files /\ files[slots[s]].inode \in DOMAIN inodes
  BY <1>1 DEF OpenSlots, Blocks, Pointers
<1>4. Inode(s).st_size \in Nat /\ File(s).cursor \in 0..Inode(s).st_size
  BY <1>3 DEF DInv, Chains, Cursors, Inode, File
<1>5. /\ \A f \in DOMAIN files' : files'[f].first_cluster \in Clusters \cup {0}
      /\ \A t \in OpenSlots : /\ files'[slots[t]].inode = files[slots[t]].inode
                              /\ files'[slots[t]].cursor \in 0..Inode(t).st_size
      /\ OpenSlots' = OpenSlots
  <2>1. CASE SetCursor(s, 0)
    <3>1. 0 \in 0..Inode(s).st_size
      BY <1>4
    <3> QED
      BY <1>1, <2>1, <3>1, CursorChains DEF DInv
  <2>2. CASE UNCHANGED files
    BY <1>1, <2>2 DEF DInv, Chains, Cursors, OpenSlots, Inode, File
  <2> QED
    BY <1>1, <2>1, <2>2
<1>6. cluster_num' \in Clusters \cup {0}
  BY <1>1, <1>3 DEF DInv, Chains, File
<1>7. Chains'
  BY <1>1, <1>5, <1>6, KeptClusters DEF DInv, Chains, EOC
<1>8. len' \in Nat /\ skip' \in Nat /\ dst' \in Seq(Bytes') /\ Len(dst') <= len'
  <2>1. len' \in Nat /\ dst' \in Seq(Bytes') /\ Len(dst') = 0
    BY <1>1, <1>4
  <2>2. File(s).cursor \in Nat
    BY <1>4
  <2>3. File(s).cursor \div ClusterSize \in Nat
    BY <2>2, Geometry, DivMod
  <2> QED
    BY <1>1, <2>1, <2>3
<1>9. start' \in 0..inodes'[files'[slots'[slot']].inode].st_size
  BY <1>1, <1>3, <1>4, <1>5 DEF Inode, File
<1>10. Cursors'
  BY <1>1, <1>5, <1>8, <1>9 DEF DInv, Cursors, Inode, File
<1> QED
  BY <1>2, <1>7, <1>10 DEF DInv

LEMMA DInv_FAT_file_read_seek ==
  ASSUME Blocks, DInv, FAT_file_read_seek
  PROVE  DInv'
<1>1. /\ UNCHANGED <<layout, cached_sector, cluster_num, inodes, files, cwd, dir_ent, lookups,
                     slot, slots, start, len, dst, root_inode, devs, partitions,
                     kind, work, status, regs, probe, drive, rd, buf>>
      /\ at = "seek" /\ rd.pc = "idle"
      /\ \/ at' \in {"file", "end"} /\ UNCHANGED skip
         \/ /\ skip # 0 /\ ~(cluster_num >= TABLE_VAL_MAX) /\ at' = "next" /\ cont' = "seek"
            /\ skip' = skip - 1
  BY DEF FAT_file_read_seek, At, call, disk, mount, walk, dir, caller
<1>2. AtaTypeOK' /\ Transfer' /\ CacheCoherent' /\ Devices'
  BY <1>1, KeptTypes, KeptTransfer, KeptCache, KeptDevices DEF DInv, Early, Mounting
<1>3. at' = "next" => cluster_num # EOC
  BY <1>1, Geometry
<1>4. Chains'
  BY <1>1, <1>3, KeptChains DEF DInv
<1>5. skip' \in Nat /\ Reading
  BY <1>1 DEF DInv, Cursors, Reading
<1>6. Cursors'
  BY <1>1, <1>5 DEF DInv, Cursors, OpenSlots, Inode, File, Bytes
<1> QED
  BY <1>2, <1>4, <1>6 DEF DInv

LEMMA DInv_FAT_file_read_cluster ==
  ASSUME DInv, FAT_file_read_cluster
  PROVE  DInv'
<1>1. /\ UNCHANGED <<layout, cached_sector, cluster_num, inodes, files, cwd, dir_ent, lookups,
                     slot, slots, start, len, skip, dst, cont, root_inode, devs, partitions>>
      /\ at = "file" /\ rd.pc = "idle"
      /\ \/ cluster_num < TABLE_VAL_MAX /\ FAT_read_cluster("file") /\ at' = "copy"
         \/ at' = "end" /\ UNCHANGED call
  BY DEF FAT_file_read_cluster, At, disk, mount, walk, dir, read, caller
<1>2. Cursors'
  BY <1>1, KeptCursors DEF DInv, Reading
<1>3. CASE cluster_num < TABLE_VAL_MAX /\ FAT_read_cluster("file") /\ at' = "copy"
  <2>1. cluster_num # EOC
    BY <1>3, Geometry
  <2>2. layout \in Layouts /\ cluster_num \in Clusters \cup {0}
    BY <2>1 DEF DInv, Chains
  <2>3. cluster_to_sector(cluster_num) \in 0..(PartLen - 1)
    BY <2>2, SectorFacts
  <2>4. /\ rd' = [pc |-> "poll", dst |-> "file", ret |-> 0]
        /\ Addressed' = PartStart + cluster_to_sector(cluster_num)
        /\ UNCHANGED <<probe, drive, buf>> /\ AtaTypeOK'
    BY <1>1, <1>3, <2>3, PartRead DEF DInv, Early, FAT_read_cluster
  <2>5. Transfer'
    BY <1>1, <1>3, <2>4 DEF Transfer, Target, Dest, cluster_to_sector
  <2>6. Devices' /\ CacheCoherent'
    BY <1>1, <1>3, <2>4, KeptDevices, KeptCache DEF DInv, Early, Mounting
  <2>7. Chains'
    BY <1>1, <1>3, <2>1, KeptChains DEF DInv
  <2> QED
    BY <1>2, <2>4, <2>5, <2>6, <2>7 DEF DInv
<1>4. CASE at' = "end" /\ UNCHANGED call
  <2>1. AtaTypeOK' /\ Transfer' /\ CacheCoherent' /\ Devices'
    BY <1>1, <1>4, KeptTypes, KeptTransfer, KeptCache, KeptDevices DEF DInv, Early, Mounting, call
  <2>2. Chains'
    BY <1>1, <1>4, KeptChains DEF DInv
  <2> QED
    BY <1>2, <2>1, <2>2 DEF DInv
<1> QED
  BY <1>1, <1>3, <1>4

(* What is copied fits into the request, the cluster and the file. *)
LEMMA CopyFacts ==
  ASSUME len \in Nat, NEW l \in Nat, Len(dst) = l, l <= len,
         NEW size \in 0..(OffMod - 1), NEW c \in 0..size
  PROVE  LET n == CopyLength(c, size)
         IN /\ n \in Nat /\ l + n <= len /\ c + n <= size
            /\ (c % ClusterSize) + n <= ClusterSize
            /\ \/ l + n = len \/ c + n = size \/ (c % ClusterSize) + n = ClusterSize
<1> DEFINE r == c % ClusterSize
<1>1. ClusterSize \in Nat \ {0} /\ OffMod \in Nat
  BY Geometry, FsAssumption
<1>2. r \in 0..(ClusterSize - 1)
  BY <1>1, DivMod
<1>3. (size - c) % OffMod = size - c
  BY <1>1
<1> DEFINE n == CopyLength(c, size)
<1>4. n = Smaller(len - l, Smaller(ClusterSize - r, size - c))
  BY <1>3, Zenon DEF CopyLength
<1> HIDE DEF n, r
<1>5. /\ n \in Nat /\ l + n <= len /\ c + n <= size /\ r + n <= ClusterSize
      /\ \/ l + n = len \/ c + n = size \/ r + n = ClusterSize
  BY <1>1, <1>2, <1>4 DEF Smaller
<1> QED
  BY <1>5 DEF n, r

LEMMA DInv_FAT_file_read_copy ==
  ASSUME Blocks, DInv, FAT_file_read_copy
  PROVE  DInv'
<1> DEFINE c == File(slot).cursor
           size == Inode(slot).st_size
           n == CopyLength(c, size)
           piece == [k \in 1..n |-> <<buf["file"], (c % ClusterSize) + k - 1>>]
<1>1. /\ UNCHANGED <<layout, cached_sector, cluster_num, inodes, cwd, dir_ent, lookups,
                     slot, slots, start, len, skip, root_inode, devs, partitions,
                     kind, work, status, regs, probe, drive, buf>>
      /\ at = "copy" /\ rd' = Idle /\ at' = "next" /\ cont' = "file"
      /\ dst' = dst \o piece /\ SetCursor(slot, c + n)
  BY DEF FAT_file_read_copy, Back, disk, mount, walk, dir, caller
<1>2. AtaTypeOK' /\ Transfer' /\ CacheCoherent' /\ Devices'
  BY <1>1, KeptTypes, KeptTransfer, KeptCache, KeptDevices DEF DInv, Early, Mounting, Idle
<1>3. /\ slot \in Slots /\ slots[slot] # NULL /\ slot \in OpenSlots /\ Reading
      /\ files[slots[slot]].inode \in DOMAIN inodes
  BY <1>1 DEF Blocks, Points, Reading, OpenSlots, Pointers
<1>4. size \in 0..(OffMod - 1) /\ c \in 0..size
  BY <1>3 DEF DInv, Chains, Cursors, Inode, File
<1>5. len \in Nat /\ dst \in Seq(Bytes) /\ Len(dst) \in Nat /\ Len(dst) <= len
  BY <1>3 DEF DInv, Cursors
<1> HIDE DEF c, size
<1>6. n \in Nat /\ Len(dst) + n <= len /\ c + n <= size
  BY <1>4, <1>5, CopyFacts
<1>7. c % ClusterSize \in Nat
  BY <1>4, Geometry, DivMod, FsAssumption
<1>8. buf["file"] \in 0..(NumSectors - 1) \cup {NULL}
  BY FsAssumption DEF DInv, AtaTypeOK
<1> HIDE DEF n
<1>9. piece \in Seq(Bytes) /\ Len(piece) = n
  BY <1>6, <1>7, <1>8 DEF Bytes
<1> HIDE DEF piece
<1>10. dst' \in Seq(Bytes) /\ Len(dst') <= len
  BY <1>1, <1>5, <1>6, <1>9
<1>11. c + n \in 0..size
  BY <1>4, <1>6, FsAssumption
<1>12. /\ \A f \in DOMAIN files' : files'[f].first_cluster \in Clusters \cup {0}
       /\ \A t \in OpenSlots : /\ files'[slots[t]].inode = files[slots[t]].inode
                               /\ files'[slots[t]].cursor \in 0..Inode(t).st_size
       /\ OpenSlots' = OpenSlots
  BY <1>1, <1>3, <1>11, CursorChains DEF DInv, size
<1>13. Chains'
  BY <1>1, <1>12, KeptClusters DEF DInv, Chains, EOC
<1>14. Cursors'
  <2>1. start' \in 0..inodes'[files'[slots'[slot']].inode].st_size /\ len' \in Nat /\ skip' \in Nat
    BY <1>1, <1>3, <1>12 DEF DInv, Cursors, Inode, File
  <2>2. Bytes' = Bytes
    BY DEF Bytes
  <2> QED
    BY <1>1, <1>10, <1>12, <2>1, <2>2 DEF DInv, Cursors, Inode, File
<1> QED
  BY <1>2, <1>13, <1>14 DEF DInv

LEMMA DInv_FAT_file_read_end ==
  ASSUME Blocks, DInv, FAT_file_read_end
  PROVE  DInv'
<1>1. /\ UNCHANGED <<layout, cached_sector, inodes, cwd, dir_ent, lookups,
                     slots, cont, root_inode, devs, partitions,
                     kind, work, status, regs, probe, drive, rd>>
      /\ at = "end" /\ rd.pc = "idle" /\ at' = "ready" /\ Forget("file")
      /\ SetCursor(slot, start) \/ UNCHANGED files
  BY DEF FAT_file_read_end, At, disk, mount, walk, dir, caller
<1>2. AtaTypeOK' /\ Devices' /\ Transfer' /\ CacheCoherent'
  BY <1>1, Forgotten, FsAssumption DEF DInv, Mounting
<1>3. /\ slot \in Slots /\ slots[slot] # NULL /\ Reading /\ ~Reading'
  BY <1>1 DEF Blocks, Points, Reading
<1>4. /\ \A f \in DOMAIN files' : files'[f].first_cluster \in Clusters \cup {0}
      /\ \A t \in OpenSlots : /\ files'[slots[t]].inode = files[slots[t]].inode
                              /\ files'[slots[t]].cursor \in 0..Inode(t).st_size
      /\ OpenSlots' = OpenSlots
  <2>1. CASE SetCursor(slot, start)
    <3>1. start \in 0..Inode(slot).st_size
      BY <1>3 DEF DInv, Cursors
    <3> QED
      BY <1>1, <1>3, <2>1, <3>1, CursorChains DEF DInv
  <2>2. CASE UNCHANGED files
    BY <1>1, <2>2 DEF DInv, Chains, Cursors, OpenSlots, Inode, File
  <2> QED
    BY <1>1, <2>1, <2>2
<1>5. Chains'
  BY <1>1, <1>4, KeptClusters DEF DInv, Chains, EOC, Forget
<1>6. Cursors'
  BY <1>1, <1>3, <1>4 DEF DInv, Cursors, Inode, File
<1> QED
  BY <1>2, <1>5, <1>6 DEF DInv

LEMMA DInv_Take ==
  ASSUME DInv, Take
  PROVE  DInv'
<1>1. /\ UNCHANGED <<layout, cached_sector, cluster_num, inodes, files, cwd, dir_ent, lookups,
                     slot, slots, start, len, skip, dst, at, cont, root_inode, devs, partitions,
                     kind, work, status, regs, probe, drive, rd, buf>>
      /\ at = "ready" /\ rd.pc = "idle"
  BY DEF Take, At, call, disk, mount, walk, dir, read, caller
<1>2. AtaTypeOK' /\ Transfer' /\ CacheCoherent' /\ Devices'
  BY <1>1, KeptTypes, KeptTransfer, KeptCache, KeptDevices DEF DInv, Early, Mounting
<1>3. Chains' /\ Cursors'
  BY <1>1, KeptChains, KeptCursors DEF DInv, Reading
<1> QED
  BY <1>2, <1>3 DEF DInv

LEMMA DInv_Init == Init => DInv
<1> SUFFICES ASSUME Init PROVE DInv
  OBVIOUS
<1>1. /\ kind \in DriveKinds /\ work = "none" /\ status = {}
      /\ regs = [r \in {"num", "low", "high"} |-> <<0, 0>>]
      /\ probe = "start" /\ devs = << >> /\ rd = Idle /\ buf = [b \in Buffers |-> NULL]
      /\ layout \in Layouts /\ at = "probe" /\ cont = "none" /\ partitions = << >>
      /\ inodes = << >> /\ files = << >> /\ lookups = 0 /\ dir_ent = 1 /\ cluster_num = 0
      /\ cached_sector = 0 /\ slots = [s \in Slots |-> NULL]
  BY DEF Init, AtaInit
<1>2. AtaTypeOK
  <2>1. 0 \in 0..(ByteBase - 1)
    BY AtaAssumption
  <2> QED
    BY <1>1, <2>1 DEF AtaTypeOK, Idle
<1>3. Devices
  <2>1. DOMAIN devs = {} /\ << >> \in Seq(Nat \cup {NULL}) /\ buf["mbr"] = NULL
    BY <1>1, FsAssumption
  <2> QED
    BY <1>1, <2>1 DEF Devices, Early, Mounting
<1>4. Transfer
  BY <1>1 DEF Transfer, Idle
<1>5. Chains
  <2>1. DOMAIN inodes = {} /\ DOMAIN files = {}
    BY <1>1
  <2> QED
    BY <1>1, <2>1 DEF Chains
<1>6. Cursors
  BY <1>1, FsAssumption DEF Cursors, OpenSlots, Reading
<1>7. CacheCoherent
  BY <1>1 DEF CacheCoherent
<1> QED
  BY <1>2, <1>3, <1>4, <1>5, <1>6, <1>7 DEF DInv

LEMMA DInv_Step ==
  ASSUME Blocks, DInv, [Next]_vars
  PROVE  DInv'
<1>1. CASE Below
  BY <1>1, DInv_Below
<1>2. CASE Thread
  <2>1. CASE \E s \in Slots : FAT_file_open(s)
    BY <2>1, DInv_FAT_file_open
  <2>2. CASE \/ parse_MBR_begin \/ parse_MBR \/ parse_partition \/ FS_register \/ FS_probe
             \/ FAT_detect \/ get_FAT_miss \/ get_FAT_fill \/ get_next_cluster_num
    BY <2>2, DInv_parse_MBR_begin, DInv_parse_MBR, DInv_parse_partition, DInv_FS_register,
       DInv_FS_probe, DInv_FAT_detect, DInv_get_FAT_miss, DInv_get_FAT_fill,
       DInv_get_next_cluster_num
  <2>3. CASE \/ FAT_readdir_begin \/ FAT_readdir_cluster \/ FAT_readdir_scan
             \/ FAT_readdir_entry \/ walk_next
    BY <2>3, DInv_FAT_readdir_begin, DInv_FAT_readdir_cluster, DInv_FAT_readdir_scan,
       DInv_FAT_readdir_entry, DInv_walk_next
  <2>4. CASE \/ FAT_file_read_seek \/ FAT_file_read_cluster \/ FAT_file_read_copy
             \/ FAT_file_read_end
    BY <2>4, DInv_FAT_file_read_seek, DInv_FAT_file_read_cluster, DInv_FAT_file_read_copy,
       DInv_FAT_file_read_end
  <2> QED
    BY <1>2, <2>1, <2>2, <2>3, <2>4 DEF Thread
<1>3. CASE Caller
  <2>1. CASE Take
    BY <2>1, DInv_Take
  <2>2. CASE \E o \in DOMAIN PathOf : FS_inode_for_path(o)
    BY <2>2, DInv_FS_inode_for_path
  <2>3. ASSUME NEW s \in Slots,
               \/ \E n \in Lengths : FAT_file_read(s, n, FALSE)
               \/ FAT_file_read(s, 0, TRUE)
               \/ \E offset \in 0..Inode(s).st_size : FAT_file_lseek(s, offset)
               \/ FAT_file_close(s)
        PROVE  DInv'
    <3>1. Lengths \subseteq Nat
      BY FsAssumption
    <3> QED
      BY <2>3, <3>1, DInv_FAT_file_read, DInv_FAT_file_lseek, DInv_FAT_file_close
  <2> QED
    BY <1>3, <2>1, <2>2, <2>3 DEF Caller
<1>4. CASE UNCHANGED vars
  <2>1. UNCHANGED <<layout, cached_sector, cluster_num, inodes, files, cwd, dir_ent, lookups,
                    slot, slots, start, len, skip, dst, at, cont, root_inode, devs, partitions,
                    kind, work, status, regs, probe, drive, rd, buf, heap>>
    BY <1>4 DEF vars, ataVars, disk, walk, dir, read, caller
  <2>2. AtaTypeOK' /\ Devices' /\ CacheCoherent'
    BY <2>1 DEF DInv, AtaTypeOK, Devices, CacheCoherent
  <2>3. Addressed' = Addressed /\ Target' = Target /\ Dest' = Dest
    BY <2>1 DEF Addressed, Target, Dest, fat_sector
  <2>4. Transfer'
    BY <2>1, <2>3 DEF DInv, Transfer
  <2>5. Chains' /\ Cursors'
    BY <2>1, KeptChains, KeptCursors DEF DInv, Chains, Reading
  <2> QED
    BY <2>2, <2>4, <2>5 DEF DInv
<1> QED
  BY <1>1, <1>2, <1>3, <1>4 DEF Next

LEMMA DInvTypes == Blocks /\ DInv => TypeOK
<1> SUFFICES ASSUME Blocks, DInv PROVE TypeOK
  OBVIOUS
<1>1. cluster_num \in 0..(EntryMod - 1)
  BY ClusterFacts, Geometry DEF DInv, Chains
<1> QED
  BY <1>1 DEF DInv, Cursors, Blocks, Points, TypeOK

(* Driver, partition, table and readers keep their types, and a cursor     *)
(* never leaves its file (FAT_file_read's unsigned minimum): on every      *)
(* sound disk, whatever paths are asked for, until a pointer that was      *)
(* never set is followed.                                                  *)
THEOREM TypeCorrect == Spec => []TypeOK
<1>1. Init => Blocks /\ DInv
  BY Blocks_Init, DInv_Init
<1>2. Blocks /\ DInv /\ [Next]_vars => Blocks' /\ DInv'
  BY Blocks_Step, DInv_Step
<1> QED
  BY <1>1, <1>2, DInvTypes, PTL DEF Spec

(* The cached sector of the table is the one get_FAT takes it for, on      *)
(* every sound disk and however many files and directories take turns at   *)
(* it.                                                                     *)
THEOREM CacheIsCoherent == Spec => []CacheCoherent
<1>1. Init => Blocks /\ DInv
  BY Blocks_Init, DInv_Init
<1>2. Blocks /\ DInv /\ [Next]_vars => Blocks' /\ DInv'
  BY Blocks_Step, DInv_Step
<1>3. DInv => CacheCoherent
  BY DEF DInv
<1> QED
  BY <1>1, <1>2, <1>3, PTL DEF Spec

-----------------------------------------------------------------------------
(* Open files are the files of their paths. *)

(* The cluster n places into a file, or the end. *)
ClusterAt(o, n) == IF n < Len(layout[o]) THEN layout[o][n + 1] ELSE EOC

LEMMA LayoutFacts ==
  ASSUME layout \in Layouts, NEW o \in Objects
  PROVE  /\ layout[o] \in Seq(2..(TABLE_VAL_MAX - 1)) /\ Len(layout[o]) \in Nat
         /\ Sizes[o] \in Nat /\ Sizes[o] \in 0..(OffMod - 1)
         /\ Sizes[o] <= Len(layout[o]) * ClusterSize
         /\ \A i \in 1..Len(layout[o]) : layout[o][i] \in Clusters
         /\ \A p \in Objects : \A i \in 1..Len(layout[o]), j \in 1..Len(layout[p]) :
               layout[o][i] = layout[p][j] => o = p /\ i = j
<1>1. WellPlaced(layout)
  BY FsAssumption
<1>2. layout[o] \in Seq(2..(TABLE_VAL_MAX - 1))
  BY <1>1 DEF WellPlaced
<1>3. \A i \in 1..Len(layout[o]) : layout[o][i] \in Clusters
  <2>1. \A i \in 1..Len(layout[o]) : layout[o][i] \in Range(layout[o])
    BY <1>2 DEF Range
  <2> QED
    BY <2>1 DEF Clusters
<1>4. Sizes[o] \in 0..(OffMod - 1)
  BY FsAssumption
<1>5. Sizes[o] <= Len(layout[o]) * ClusterSize
  BY <1>1 DEF WellPlaced
<1>6. \A p \in Objects : \A i \in 1..Len(layout[o]), j \in 1..Len(layout[p]) :
         layout[o][i] = layout[p][j] => o = p /\ i = j
  BY <1>1 DEF WellPlaced
<1> QED
  BY <1>2, <1>3, <1>4, <1>5, <1>6

LEMMA ChainNext ==
  ASSUME layout \in Layouts, NEW o \in Objects, NEW n \in Nat, n < Len(layout[o])
  PROVE  FatValue(ClusterAt(o, n)) = ClusterAt(o, n + 1)
<1> DEFINE i == n + 1
           c == layout[o][i]
<1>1. i \in 1..Len(layout[o]) /\ Len(layout[o]) \in Nat
  BY LayoutFacts
<1>2. ClusterAt(o, n) = c
  BY DEF ClusterAt
<1>3. \A p \in Objects : \A j \in 1..Len(layout[p]) : layout[p][j] = c => p = o /\ j = i
  BY <1>1, LayoutFacts
<1>4. \A d : Follows(c, d) => i \in 1..(Len(layout[o]) - 1) /\ d = layout[o][i + 1]
  <2> SUFFICES ASSUME NEW d, Follows(c, d)
               PROVE  i \in 1..(Len(layout[o]) - 1) /\ d = layout[o][i + 1]
    OBVIOUS
  <2>1. PICK p \in Objects : \E j \in 1..Len(layout[p]) - 1 :
                                layout[p][j] = c /\ layout[p][j + 1] = d
    BY DEF Follows
  <2>2. PICK j \in 1..Len(layout[p]) - 1 : layout[p][j] = c /\ layout[p][j + 1] = d
    BY <2>1
  <2>3. j \in 1..Len(layout[p])
    BY <2>2, LayoutFacts
  <2> QED
    BY <1>3, <2>2, <2>3
<1>5. CASE i < Len(layout[o])
  <2> DEFINE e == layout[o][i + 1]
  <2>1. e \in Clusters /\ ClusterAt(o, n + 1) = e
    BY <1>1, <1>5, LayoutFacts DEF ClusterAt
  <2>2. Follows(c, e)
    <3>1. i \in 1..Len(layout[o]) - 1
      BY <1>1, <1>5
    <3> QED
      BY <3>1 DEF Follows
  <2> HIDE DEF e
  <2>3. \A d \in Clusters : Follows(c, d) => d = e
    BY <1>4 DEF e
  <2>4. (CHOOSE d \in Clusters : Follows(c, d)) = e
    BY <2>1, <2>2, <2>3
  <2>5. FatValue(c) = e
    BY <2>1, <2>2, <2>4 DEF FatValue
  <2> QED
    BY <1>2, <2>1, <2>5
<1>6. CASE ~(i < Len(layout[o]))
  <2>1. ~(\E d \in Clusters : Follows(c, d))
    BY <1>1, <1>4, <1>6
  <2>2. FatValue(c) = EOC
    BY <2>1 DEF FatValue
  <2> QED
    BY <1>2, <1>6, <2>2 DEF ClusterAt
<1> QED
  BY <1>5, <1>6

(* A position inside a file lies in one of its clusters. *)
LEMMA Within ==
  ASSUME layout \in Layouts, NEW o \in Objects, NEW x \in 0..Sizes[o]
  PROVE  /\ x \div ClusterSize \in Nat /\ x % ClusterSize \in 0..(ClusterSize - 1)
         /\ x = (x \div ClusterSize) * ClusterSize + (x % ClusterSize)
         /\ x \div ClusterSize <= Len(layout[o])
         /\ x < Sizes[o] => x \div ClusterSize < Len(layout[o])
<1> DEFINE q == x \div ClusterSize
           r == x % ClusterSize
           l == Len(layout[o])
<1>1. /\ l \in Nat /\ Sizes[o] \in Nat /\ Sizes[o] <= l * ClusterSize
      /\ ClusterSize \in Nat /\ ClusterSize > 0 /\ x \in Nat
  BY LayoutFacts, Geometry
<1>2. q \in Nat /\ r \in 0..(ClusterSize - 1) /\ x = q * ClusterSize + r
  BY <1>1, DivMod
<1> HIDE DEF q, r, l
<1>3. q * ClusterSize \in Nat /\ l * ClusterSize \in Nat
  BY <1>1, <1>2
<1>4. q >= l + 1 => q * ClusterSize >= l * ClusterSize + ClusterSize
  <2>1. q >= l + 1 => q * ClusterSize >= (l + 1) * ClusterSize
    BY <1>1, <1>2
  <2>2. (l + 1) * ClusterSize = l * ClusterSize + ClusterSize
    BY <1>1
  <2> QED
    BY <2>1, <2>2
<1>5. q <= l
  BY <1>1, <1>2, <1>3, <1>4
<1>6. x < Sizes[o] => q < l
  <2>1. q >= l => q * ClusterSize >= l * ClusterSize
    BY <1>1, <1>2
  <2> QED
    BY <1>1, <1>2, <1>3, <2>1
<1> QED
  BY <1>2, <1>5, <1>6 DEF q, r, l

LEMMA InChain ==
  ASSUME layout \in Layouts, NEW o \in Objects, NEW n \in Nat, n < Len(layout[o])
  PROVE  ClusterAt(o, n) < TABLE_VAL_MAX /\ ClusterAt(o, n) \in Nat
<1>1. n + 1 \in 1..Len(layout[o])
  BY LayoutFacts
<1>2. layout[o][n + 1] \in 2..(TABLE_VAL_MAX - 1)
  BY <1>1, LayoutFacts, ElementOfSeq
<1> QED
  BY <1>2, Geometry DEF ClusterAt

(* The bytes of a cluster, as far as they are read, are bytes of the file. *)
LEMMA Piece ==
  ASSUME layout \in Layouts, NEW o \in Objects, NEW c \in 0..Sizes[o], NEW k \in Nat \ {0},
         c + k <= Sizes[o], (c % ClusterSize) + k <= ClusterSize
  PROVE  Content(o)[c + k] =
            <<PartStart + cluster_to_sector(ClusterAt(o, c \div ClusterSize)),
              (c % ClusterSize) + k - 1>>
<1> DEFINE q == c \div ClusterSize
           r == c % ClusterSize
<1>1. /\ q \in Nat /\ r \in 0..(ClusterSize - 1) /\ c = q * ClusterSize + r
      /\ c < Sizes[o] => q < Len(layout[o])
  BY Within
<1>2. Sizes[o] \in Nat /\ ClusterSize \in Nat \ {0}
  BY LayoutFacts, Geometry
<1> HIDE DEF q, r
<1>3. c + k - 1 = q * ClusterSize + (r + k - 1) /\ r + k - 1 \in 0..(ClusterSize - 1)
  <2>1. q * ClusterSize \in Nat
    BY <1>1, <1>2
  <2>2. r + k <= ClusterSize
    BY DEF r
  <2> QED
    BY <1>1, <1>2, <2>1, <2>2
<1>4. (c + k - 1) \div ClusterSize = q /\ (c + k - 1) % ClusterSize = r + k - 1
  <2> DEFINE t == r + k - 1
  <2>1. t \in 0..(ClusterSize - 1) /\ c + k - 1 = q * ClusterSize + t
    BY <1>3
  <2> HIDE DEF t
  <2>2. (q * ClusterSize + t) \div ClusterSize = q /\ (q * ClusterSize + t) % ClusterSize = t
    BY <1>1, <1>2, <2>1, DivModUnique
  <2>3. (c + k - 1) \div ClusterSize = q /\ (c + k - 1) % ClusterSize = t
    BY <2>1, <2>2, Zenon
  <2> QED
    BY <2>3 DEF t
<1>5. q < Len(layout[o])
  BY <1>1, <1>2
<1>6. ClusterAt(o, q) = layout[o][q + 1] /\ ClusterAt(o, q) \in Nat
  BY <1>1, <1>5, InChain DEF ClusterAt
<1>7. c + k \in 1..Sizes[o]
  BY <1>2
<1>8. Content(o)[c + k] = <<Data0 + layout[o][((c + k - 1) \div ClusterSize) + 1] - 2,
                            (c + k - 1) % ClusterSize>>
  BY <1>7 DEF Content
<1>9. Data0 + ClusterAt(o, q) - 2 = PartStart + cluster_to_sector(ClusterAt(o, q))
  <2>1. num_fats * sectors_per_fat = sectors_per_fat * num_fats
    BY Geometry
  <2> QED
    BY <1>6, <2>1, Geometry DEF Data0, Fat0, cluster_to_sector
<1> QED
  BY <1>4, <1>6, <1>8, <1>9 DEF q, r

(* Open files have the size and the first cluster of the path they were    *)
(* opened under; a walk is for a path there is.                            *)
Named ==
    /\ at \in {"walk", "dir", "scan", "entry", "walk_next", "walked"} \/ cont = "dir"
          => asked \in DOMAIN PathOf
    /\ \A f \in DOMAIN files :
          /\ files[f].path \in DOMAIN PathOf
          /\ inodes[files[f].inode].st_size = Sizes[files[f].path]
          /\ Sizes[files[f].path] > 0 => files[f].first_cluster = FirstCluster(files[f].path)

Base == IF mmap THEN 0 ELSE start

(* cluster_num is where it should be, n clusters into file o. *)
Here(o, n) == Sizes[o] > 0 => cluster_num = ClusterAt(o, n)

(* A read in the middle: what it has is what the file says from Base on,   *)
(* and the cluster at hand is the one the cursor is in, or the one before. *)
Gathered(o, c) ==
    /\ c = Base + Len(dst)
    /\ \A k \in 1..Len(dst) : dst[k] = Content(o)[Base + k]
    /\ IF mmap THEN len = Sizes[o] ELSE len \in Lengths

Placing(o, c) ==
    /\ at = "seek" => /\ dst = << >> /\ skip <= Base \div ClusterSize
                      /\ Here(o, (Base \div ClusterSize) - skip)
    /\ cont = "seek" => /\ dst = << >> /\ skip < Base \div ClusterSize
                        /\ Here(o, (Base \div ClusterSize) - skip - 1)
    /\ at = "file" => Len(dst) = len \/ c = Sizes[o] \/ Here(o, c \div ClusterSize)
    /\ at = "copy" => Len(dst) < len /\ (c = Sizes[o] \/ Here(o, c \div ClusterSize))
    /\ cont = "file" => \/ Len(dst) = len \/ c = Sizes[o]
                        \/ c % ClusterSize = 0 /\ c > 0 /\ Here(o, (c \div ClusterSize) - 1)
    /\ at = "end" => Len(dst) = len \/ c = Sizes[o]

Progress ==
    Reading => /\ Gathered(File(slot).path, File(slot).cursor)
               /\ Placing(File(slot).path, File(slot).cursor)

(* A walk ends at the file it was for. *)
PathsResolve ==
    at = "walked" /\ result \in DOMAIN inodes =>
        /\ inodes[result].st_size = Sizes[asked]
        /\ Sizes[asked] > 0 => inodes[result].st_ino = FirstCluster(asked)

-----------------------------------------------------------------------------
(* What a read has gathered, from step to step. *)

LEMMA FirstAt ==
  ASSUME layout \in Layouts, NEW o \in Objects, Sizes[o] > 0
  PROVE  FirstCluster(o) = ClusterAt(o, 0)
<1>1. Len(layout[o]) \in Nat /\ Sizes[o] \in Nat /\ Sizes[o] <= Len(layout[o]) * ClusterSize
  BY LayoutFacts
<1>2. Len(layout[o]) # 0
  BY <1>1, Geometry
<1>3. layout[o] # << >>
  BY <1>2
<1> QED
  BY <1>1, <1>2, <1>3 DEF FirstCluster, ClusterAt

(* A file that is being read. *)
LEMMA BeingRead ==
  ASSUME Blocks, DInv, Named, Reading, NEW o, o = File(slot).path
  PROVE  /\ slot \in Slots /\ slots[slot] # NULL /\ slots[slot] \in DOMAIN files
         /\ o \in Objects /\ o \in DOMAIN PathOf /\ layout \in Layouts
         /\ Inode(slot).st_size = Sizes[o] /\ Sizes[o] \in 0..(OffMod - 1) /\ Sizes[o] \in Nat
         /\ File(slot).cursor \in 0..Sizes[o] /\ File(slot).cursor \in Nat
         /\ start \in 0..Sizes[o] /\ start \in Nat
         /\ len \in Nat /\ skip \in Nat /\ dst \in Seq(Bytes) /\ Len(dst) \in Nat
         /\ Len(dst) <= len
<1>1. slot \in Slots /\ slots[slot] # NULL /\ slots[slot] \in DOMAIN files
  BY DEF Blocks, Points, Pointers
<1>2. layout \in Layouts /\ slot \in OpenSlots
  BY <1>1 DEF DInv, Chains, OpenSlots
<1>3. o \in DOMAIN PathOf /\ Inode(slot).st_size = Sizes[o]
  BY <1>1 DEF Named, File, Inode
<1>4. o \in Objects
  BY <1>3, FsAssumption
<1>5. Sizes[o] \in 0..(OffMod - 1) /\ Sizes[o] \in Nat
  BY <1>2, <1>4, LayoutFacts
<1>6. File(slot).cursor \in 0..Sizes[o] /\ start \in 0..Sizes[o]
  BY <1>2, <1>3 DEF DInv, Cursors
<1>7. len \in Nat /\ skip \in Nat /\ dst \in Seq(Bytes) /\ Len(dst) <= len
  BY DEF DInv, Cursors
<1> QED
  BY <1>1, <1>2, <1>3, <1>4, <1>5, <1>6, <1>7

Walking == at \in {"walk", "dir", "scan", "entry", "walk_next", "walked"} \/ cont = "dir"

LEMMA KeptNamed ==
  ASSUME Blocks, Named, UNCHANGED layout,
         Walking' => asked' \in DOMAIN PathOf,
         DOMAIN files' \subseteq DOMAIN files,
         \A f \in DOMAIN files' : /\ files'[f].path = files[f].path
                                  /\ files'[f].inode = files[f].inode
                                  /\ files'[f].first_cluster = files[f].first_cluster,
         \A b \in DOMAIN inodes : inodes'[b] = inodes[b]
  PROVE  Named'
<1> SUFFICES ASSUME NEW f \in DOMAIN files'
             PROVE  /\ files'[f].path \in DOMAIN PathOf
                    /\ inodes'[files'[f].inode].st_size = Sizes[files'[f].path]
                    /\ Sizes[files'[f].path] > 0 =>
                          files'[f].first_cluster = FirstCluster(files[f].path)'
  BY DEF Named, Walking
<1>1. f \in DOMAIN files /\ files[f].inode \in DOMAIN inodes
  BY DEF Blocks, Pointers
<1>2. /\ files[f].path \in DOMAIN PathOf
      /\ inodes[files[f].inode].st_size = Sizes[files[f].path]
      /\ Sizes[files[f].path] > 0 => files[f].first_cluster = FirstCluster(files[f].path)
  BY <1>1 DEF Named
<1>3. FirstCluster(files[f].path)' = FirstCluster(files[f].path)
  BY <1>1 DEF FirstCluster
<1> QED
  BY <1>1, <1>2, <1>3

LEMMA KeptProgress ==
  ASSUME Progress, UNCHANGED <<layout, slots, files, slot, skip, len, dst, start, mmap, cluster_num, cont>>,
         at' = at \/ {at, at'} \subseteq {"next", "fill"}
  PROVE  Progress'
<1>1. Reading' <=> Reading
  BY DEF Reading
<1> QED
  BY <1>1 DEF Progress, Gathered, Placing, Here, Base, ClusterAt, Content, File

LEMMA ProgressNext ==
  ASSUME NEW o, NEW x, files'[slots'[slot']].path = o, files'[slots'[slot']].cursor = x,
         Gathered(o, x)', Placing(o, x)'
  PROVE  Progress'
BY DEF Progress, File

LEMMA Progress_FAT_file_read_seek ==
  ASSUME Blocks, DInv, Named, Progress, FAT_file_read_seek
  PROVE  Progress'
<1> PICK o : o = File(slot).path
  OBVIOUS
<1> PICK c : c = File(slot).cursor
  OBVIOUS
<1> PICK q : q = Base \div ClusterSize
  OBVIOUS
<1>1. /\ UNCHANGED <<layout, files, slots, slot, len, dst, start, mmap, cluster_num>>
      /\ at = "seek"
      /\ \/ skip = 0 /\ at' = "file" /\ UNCHANGED <<skip, cont>>
         \/ skip # 0 /\ cluster_num >= TABLE_VAL_MAX /\ at' = "end" /\ UNCHANGED <<skip, cont>>
         \/ skip # 0 /\ at' = "next" /\ cont' = "seek" /\ skip' = skip - 1
  BY DEF FAT_file_read_seek, disk, At, caller
<1>2. Reading /\ cont = "none"
  BY <1>1 DEF Reading, Blocks, Points
<1>3. /\ o \in Objects /\ layout \in Layouts /\ Sizes[o] \in Nat /\ c \in 0..Sizes[o]
      /\ start \in 0..Sizes[o] /\ skip \in Nat /\ Len(dst) \in Nat /\ len \in Nat
  BY <1>2, BeingRead
<1>4. /\ Gathered(o, c) /\ dst = << >> /\ skip <= q /\ Here(o, q - skip)
  BY <1>1, <1>2 DEF Progress, Placing
<1>5. c = Base /\ Len(dst) = 0
  <2>1. Base \in Nat
    BY <1>3 DEF Base
  <2> QED
    BY <1>3, <1>4, <2>1 DEF Gathered
<1>6. q \in Nat /\ q <= Len(layout[o]) /\ Len(layout[o]) \in Nat
  BY <1>3, <1>5, Within, LayoutFacts
<1>7. Gathered(o, c)'
  BY <1>1, <1>4 DEF Gathered, Base, Content
<1>8. Base' = Base /\ \A n : Here(o, n)' <=> Here(o, n)
  BY <1>1 DEF Base, Here, ClusterAt
<1>9. CASE skip = 0 /\ at' = "file" /\ UNCHANGED <<skip, cont>>
  <2>1. Here(o, c \div ClusterSize)
    BY <1>4, <1>5, <1>6, <1>9
  <2>2. Placing(o, c)'
    BY <1>2, <1>8, <1>9, <2>1 DEF Placing
  <2> QED
    BY <1>1, <1>7, <2>2, ProgressNext DEF File
<1>10. CASE skip # 0 /\ cluster_num >= TABLE_VAL_MAX /\ at' = "end" /\ UNCHANGED <<skip, cont>>
  <2>1. q - skip \in Nat /\ q - skip < Len(layout[o])
    BY <1>3, <1>4, <1>6, <1>10
  <2>2. ClusterAt(o, q - skip) < TABLE_VAL_MAX /\ ClusterAt(o, q - skip) \in Nat
    BY <1>3, <2>1, InChain
  <2>3. ~(Sizes[o] > 0)
    BY <1>4, <1>10, <2>2, Geometry DEF Here
  <2>4. c = Sizes[o]
    BY <1>3, <2>3
  <2>5. Placing(o, c)'
    BY <1>2, <1>10, <2>4 DEF Placing
  <2> QED
    BY <1>1, <1>7, <2>5, ProgressNext DEF File
<1>11. CASE skip # 0 /\ at' = "next" /\ cont' = "seek" /\ skip' = skip - 1
  <2>1. q - skip' - 1 = q - skip /\ skip' < q
    BY <1>3, <1>4, <1>6, <1>11
  <2>2. Here(o, q - skip' - 1)
    BY <1>4, <2>1
  <2>3. Here(o, (Base \div ClusterSize) - skip - 1)'
    BY <1>1, <1>8, <2>2 DEF Here, ClusterAt
  <2>4. Placing(o, c)'
    BY <1>1, <1>4, <1>8, <1>11, <2>1, <2>3 DEF Placing
  <2> QED
    BY <1>1, <1>7, <2>4, ProgressNext DEF File
<1> QED
  BY <1>1, <1>9, <1>10, <1>11

LEMMA Progress_FAT_file_read_cluster ==
  ASSUME Blocks, DInv, Named, Progress, FAT_file_read_cluster
  PROVE  Progress'
<1> PICK o : o = File(slot).path
  OBVIOUS
<1> PICK c : c = File(slot).cursor
  OBVIOUS
<1>1. /\ UNCHANGED <<layout, files, slots, slot, len, dst, start, mmap, skip, cluster_num, cont>>
      /\ at = "file"
      /\ \/ cluster_num < TABLE_VAL_MAX /\ Len(dst) < len /\ at' = "copy"
         \/ ~(cluster_num < TABLE_VAL_MAX /\ Len(dst) < len) /\ at' = "end"
  BY DEF FAT_file_read_cluster, disk, read, At, caller
<1>2. Reading /\ cont = "none"
  BY <1>1 DEF Reading, Blocks, Points
<1>3. /\ o \in Objects /\ layout \in Layouts /\ Sizes[o] \in Nat /\ c \in 0..Sizes[o]
      /\ Len(dst) \in Nat /\ len \in Nat /\ Len(dst) <= len
  BY <1>2, BeingRead
<1>4. /\ Gathered(o, c)
      /\ Len(dst) = len \/ c = Sizes[o] \/ Here(o, c \div ClusterSize)
  BY <1>1, <1>2 DEF Progress, Placing
<1>5. Gathered(o, c)'
  BY <1>1, <1>4 DEF Gathered, Base, Content
<1>6. \A n : Here(o, n)' <=> Here(o, n)
  BY <1>1 DEF Here, ClusterAt
<1>7. CASE cluster_num < TABLE_VAL_MAX /\ Len(dst) < len /\ at' = "copy"
  <2>1. Len(dst') < len' /\ (c = Sizes[o] \/ Here(o, c \div ClusterSize))
    BY <1>1, <1>3, <1>4, <1>7
  <2>2. Placing(o, c)'
    BY <1>1, <1>2, <1>6, <1>7, <2>1 DEF Placing
  <2> QED
    BY <1>1, <1>5, <2>2, ProgressNext DEF File
<1>8. CASE ~(cluster_num < TABLE_VAL_MAX /\ Len(dst) < len) /\ at' = "end"
  <2>1. Len(dst) = len \/ c = Sizes[o]
    <3> SUFFICES ASSUME Len(dst) # len, c # Sizes[o]
                 PROVE  FALSE
      OBVIOUS
    <3>1. c < Sizes[o] /\ ~(cluster_num < TABLE_VAL_MAX)
      BY <1>3, <1>8
    <3>2. c \div ClusterSize \in Nat /\ c \div ClusterSize < Len(layout[o])
      BY <1>3, <3>1, Within
    <3>3. cluster_num = ClusterAt(o, c \div ClusterSize)
      BY <1>3, <1>4, <3>1 DEF Here
    <3> QED
      BY <1>3, <3>1, <3>2, <3>3, InChain
  <2>2. Placing(o, c)'
    BY <1>1, <1>2, <1>8, <2>1 DEF Placing
  <2> QED
    BY <1>1, <1>5, <2>2, ProgressNext DEF File
<1> QED
  BY <1>1, <1>7, <1>8

LEMMA Progress_get_next_cluster_num ==
  ASSUME Blocks, DInv, Named, Progress, get_next_cluster_num
  PROVE  Progress'
<1> PICK o : o = File(slot).path
  OBVIOUS
<1> PICK c : c = File(slot).cursor
  OBVIOUS
<1>1. /\ UNCHANGED <<layout, files, slots, slot, len, dst, start, mmap, skip, buf>>
      /\ at = "next" /\ at' = cont /\ cont' = "none"
      /\ cached_sector = fat_sector /\ cluster_num' = next_cluster
  BY DEF get_next_cluster_num, At, call, disk, read, caller
<1>2. cont \in {"dir", "seek", "file"}
  BY <1>1 DEF Blocks, Points
<1>3. CASE cont = "dir"
  BY <1>1, <1>3 DEF Progress, Reading
<1>4. CASE cont \in {"seek", "file"}
  <2>1. /\ o \in Objects /\ layout \in Layouts /\ Sizes[o] \in Nat /\ c \in 0..Sizes[o]
        /\ start \in 0..Sizes[o] /\ skip \in Nat /\ Len(dst) \in Nat /\ len \in Nat
    BY <1>4, BeingRead DEF Reading
  <2>2. Gathered(o, c) /\ Placing(o, c)
    BY <1>4 DEF Progress, Reading
  <2>3. cluster_num' = FatValue(cluster_num)
    <3>1. cluster_num \in Clusters \cup {0}
      BY <1>1 DEF DInv, Chains
    <3>2. fat_sector # 0
      BY <2>1, <3>1, SectorFacts DEF fat_sector
    <3>3. buf["fat"] = PartStart + fat_sector
      BY <1>1, <3>2 DEF DInv, CacheCoherent
    <3> QED
      BY <1>1, <2>1, <3>1, <3>3, NextFacts
  <2>4. Gathered(o, c)'
    BY <1>1, <2>2 DEF Gathered, Base, Content
  <2>5. Base' = Base /\ \A n : ClusterAt(o, n)' = ClusterAt(o, n)
    BY <1>1 DEF Base, ClusterAt
  <2>6. ASSUME NEW n \in Nat, n < Len(layout[o]), cluster_num = ClusterAt(o, n)
        PROVE  cluster_num' = ClusterAt(o, n + 1)
    BY <2>1, <2>3, <2>6, ChainNext
  <2>7. CASE cont = "seek"
    <3> PICK q : q = Base \div ClusterSize
      OBVIOUS
    <3>1. dst = << >> /\ skip < q /\ Here(o, q - skip - 1)
      BY <2>2, <2>7 DEF Placing
    <3>2. Base \in Nat /\ Base \in 0..Sizes[o]
      BY <2>1 DEF Base
    <3>3. q \in Nat /\ q <= Len(layout[o]) /\ Len(layout[o]) \in Nat
      BY <2>1, <3>2, Within, LayoutFacts
    <3>4. /\ q - skip - 1 \in Nat /\ q - skip - 1 < Len(layout[o])
          /\ (q - skip - 1) + 1 = q - skip
      BY <2>1, <3>1, <3>3
    <3>5. Sizes[o] > 0 => cluster_num' = ClusterAt(o, q - skip)
      BY <2>6, <3>1, <3>4 DEF Here
    <3>6. Here(o, (Base \div ClusterSize) - skip)'
      BY <1>1, <2>5, <3>5 DEF Here
    <3>7. Placing(o, c)'
      BY <1>1, <2>1, <2>5, <2>7, <3>1, <3>3, <3>6 DEF Placing
    <3> QED
      BY <1>1, <2>4, <3>7, ProgressNext DEF File
  <2>8. CASE cont = "file"
    <3> PICK q : q = c \div ClusterSize
      OBVIOUS
    <3>1. \/ Len(dst) = len \/ c = Sizes[o]
          \/ c % ClusterSize = 0 /\ c > 0 /\ Here(o, q - 1)
      BY <2>2, <2>8 DEF Placing
    <3>2. /\ q \in Nat /\ Len(layout[o]) \in Nat
          /\ c < Sizes[o] => q < Len(layout[o])
          /\ c = q * ClusterSize + (c % ClusterSize)
      BY <2>1, Within, LayoutFacts
    <3>3. Len(dst) = len \/ c = Sizes[o] \/ cluster_num' = ClusterAt(o, q)
      <4> SUFFICES ASSUME Len(dst) # len, c # Sizes[o]
                   PROVE  cluster_num' = ClusterAt(o, q)
        OBVIOUS
      <4>1. c < Sizes[o] /\ c > 0 /\ c % ClusterSize = 0
        BY <2>1, <3>1
      <4>2. q # 0
        <5>1. c = q * ClusterSize + 0
          BY <3>2, <4>1, Zenon
        <5>2. 0 * ClusterSize + 0 = 0
          BY Geometry
        <5> QED
          BY <4>1, <5>1, <5>2
      <4>3. q - 1 \in Nat /\ q - 1 < Len(layout[o]) /\ (q - 1) + 1 = q
        BY <3>2, <4>1, <4>2
      <4>4. cluster_num = ClusterAt(o, q - 1)
        BY <2>1, <3>1, <4>1 DEF Here
      <4> QED
        BY <2>6, <4>3, <4>4
    <3>4. Len(dst') = len' \/ c = Sizes[o] \/ Here(o, c \div ClusterSize)'
      BY <1>1, <2>5, <3>3 DEF Here
    <3>5. Placing(o, c)'
      BY <1>1, <2>8, <3>4 DEF Placing
    <3> QED
      BY <1>1, <2>4, <3>5, ProgressNext DEF File
  <2> QED
    BY <1>4, <2>7, <2>8
<1> QED
  BY <1>2, <1>3, <1>4

LEMMA Progress_FAT_file_read ==
  ASSUME Blocks, DInv, Named, NEW s \in Slots, NEW n, NEW whole \in BOOLEAN,
         whole \/ n \in Lengths, FAT_file_read(s, n, whole)
  PROVE  Progress'
<1> PICK o : o = File(s).path
  OBVIOUS
<1> PICK c : c = File(s).cursor
  OBVIOUS
<1>1. /\ UNCHANGED <<layout, slots, cont>>
      /\ at = "ready" /\ at' = "seek" /\ slots[s] # NULL
      /\ slot' = s /\ start' = c /\ mmap' = whole /\ dst' = << >>
      /\ len' = IF whole THEN Inode(s).st_size ELSE n
      /\ IF whole THEN SetCursor(s, 0) /\ skip' = 0
                  ELSE skip' = c \div ClusterSize /\ UNCHANGED files
      /\ cluster_num' = File(s).first_cluster
  BY DEF FAT_file_read, Called, At, disk, caller
<1>2. slots[s] \in DOMAIN files /\ s \in OpenSlots /\ cont = "none" /\ layout \in Layouts
  BY <1>1 DEF Blocks, Pointers, Points, OpenSlots, DInv, Chains
<1>3. /\ o \in DOMAIN PathOf /\ Inode(s).st_size = Sizes[o]
      /\ Sizes[o] > 0 => File(s).first_cluster = FirstCluster(o)
  BY <1>2 DEF Named, File, Inode
<1>4. o \in Objects
  BY <1>3, FsAssumption
<1>5. c \in 0..Sizes[o] /\ Sizes[o] \in Nat
  BY <1>2, <1>3, <1>4, LayoutFacts DEF DInv, Cursors
<1>6. \A k : ClusterAt(o, k)' = ClusterAt(o, k)
  BY <1>1 DEF ClusterAt
<1>7. Sizes[o] > 0 => cluster_num' = ClusterAt(o, 0)
  BY <1>1, <1>2, <1>3, <1>4, FirstAt
<1>8. Len(dst') = 0 /\ dst' = << >>
  BY <1>1
<1>9. CASE whole
  <2>1. files'[slots'[slot']].path = o /\ files'[slots'[slot']].cursor = 0
    <3>1. SetCursor(s, 0)
      BY <1>1, <1>9
    <3>2. files'[slots[s]] = [inode |-> files[slots[s]].inode, path |-> files[slots[s]].path,
                              cursor |-> 0, first_cluster |-> files[slots[s]].first_cluster]
      BY <1>1, <3>1, CursorMoved
    <3> QED
      BY <1>1, <3>2 DEF File
  <2>2. Base' = 0 /\ 0 \div ClusterSize = 0 /\ skip' = 0 /\ 0 - 0 = 0
    BY <1>1, <1>9, Geometry DEF Base
  <2>3. Gathered(o, 0)'
    BY <1>1, <1>3, <1>8, <1>9, <2>2 DEF Gathered
  <2>4. Here(o, (Base \div ClusterSize) - skip)'
    BY <1>6, <1>7, <2>2 DEF Here
  <2>5. Placing(o, 0)'
    BY <1>1, <1>2, <1>8, <2>2, <2>4 DEF Placing
  <2> QED
    BY <2>1, <2>3, <2>5, ProgressNext
<1>10. CASE ~whole
  <2>1. files'[slots'[slot']].path = o /\ files'[slots'[slot']].cursor = c
    BY <1>1, <1>10 DEF File
  <2>2. Base' = c /\ skip' = c \div ClusterSize /\ skip' \in Nat
    BY <1>1, <1>2, <1>4, <1>5, <1>10, Within DEF Base
  <2>3. Gathered(o, c)'
    BY <1>1, <1>5, <1>8, <1>10, <2>2 DEF Gathered
  <2>4. (Base' \div ClusterSize) - skip' = 0
    BY <2>2
  <2>5. Here(o, (Base \div ClusterSize) - skip)'
    BY <1>6, <1>7, <2>4 DEF Here
  <2>6. Placing(o, c)'
    BY <1>1, <1>2, <1>8, <2>2, <2>5 DEF Placing
  <2> QED
    BY <2>1, <2>3, <2>6, ProgressNext
<1> QED
  BY <1>9, <1>10

LEMMA Progress_FAT_file_read_copy ==
  ASSUME Blocks, DInv, Named, Progress, FAT_file_read_copy
  PROVE  Progress'
<1>a. PICK o : o = File(slot).path
  OBVIOUS
<1>b. PICK c : c = File(slot).cursor
  OBVIOUS
<1>c. PICK n : n = CopyLength(c, Inode(slot).st_size)
  OBVIOUS
<1>d. PICK l : l = Len(dst)
  OBVIOUS
<1> DEFINE piece == [k \in 1..n |-> <<buf["file"], (c % ClusterSize) + k - 1>>]
<1>1. /\ UNCHANGED <<layout, inodes, cluster_num, slot, slots, start, len, skip, mmap, buf>>
      /\ at = "copy" /\ rd.pc = "back" /\ at' = "next" /\ cont' = "file"
      /\ dst' = dst \o piece /\ SetCursor(slot, c + n)
  BY <1>b, <1>c DEF FAT_file_read_copy, Back, disk, mount, walk, dir, caller
<1>2. Reading /\ cont = "none"
  BY <1>1 DEF Reading, Blocks, Points
<1>3. /\ slot \in Slots /\ slots[slot] # NULL
      /\ o \in Objects /\ layout \in Layouts /\ Inode(slot).st_size = Sizes[o]
      /\ Sizes[o] \in 0..(OffMod - 1) /\ Sizes[o] \in Nat /\ c \in 0..Sizes[o] /\ c \in Nat
      /\ start \in Nat /\ len \in Nat /\ dst \in Seq(Bytes) /\ l \in Nat /\ l <= len
  BY <1>2, <1>a, <1>b, <1>d, BeingRead
<1>4. Gathered(o, c) /\ (c = Sizes[o] \/ Here(o, c \div ClusterSize))
  BY <1>a, <1>b, <1>1, <1>2 DEF Progress, Placing
<1>e. PICK r : r = c % ClusterSize
  OBVIOUS
<1>f. PICK q : q = c \div ClusterSize
  OBVIOUS
<1>5. /\ n \in Nat /\ l + n <= len /\ c + n <= Sizes[o] /\ r + n <= ClusterSize
      /\ l + n = len \/ c + n = Sizes[o] \/ r + n = ClusterSize
  BY <1>3, <1>c, <1>d, <1>e, CopyFacts
<1>6. /\ q \in Nat /\ r \in 0..(ClusterSize - 1) /\ c = q * ClusterSize + r
      /\ ClusterSize \in Nat \ {0}
  BY <1>3, <1>e, <1>f, Within, Geometry
<1>7. c < Sizes[o] => cluster_num = ClusterAt(o, q)
  BY <1>3, <1>4, <1>f DEF Here
<1>8. buf["file"] = PartStart + cluster_to_sector(cluster_num)
  BY <1>1 DEF DInv, Transfer, Target, Dest
<1>9. ASSUME NEW k \in 1..n
      PROVE  <<buf["file"], r + k - 1>> = Content(o)[c + k]
  <2>1. k \in Nat \ {0} /\ c + k <= Sizes[o] /\ r + k <= ClusterSize /\ c < Sizes[o]
    BY <1>3, <1>5, <1>6
  <2>2. Content(o)[c + k] = <<PartStart + cluster_to_sector(ClusterAt(o, q)), r + k - 1>>
    BY <1>3, <1>e, <1>f, <2>1, Piece
  <2> QED
    BY <1>7, <1>8, <2>1, <2>2
<1>10. /\ Len(dst') = l + n
       /\ \A k \in 1..l : dst'[k] = dst[k]
       /\ \A k \in 1..n : dst'[l + k] = <<buf["file"], r + k - 1>>
  <2>1. piece \in Seq(Bytes) /\ Len(piece) = n
    <3>1. buf["file"] \in 0..(NumSectors - 1) \cup {NULL}
      BY FsAssumption DEF DInv, AtaTypeOK
    <3>2. c % ClusterSize \in Nat
      BY <1>e, <1>6
    <3> QED
      BY <1>5, <3>1, <3>2 DEF Bytes
  <2>2. \A k \in 1..n : piece[k] = <<buf["file"], r + k - 1>>
    BY <1>e
  <2> HIDE DEF piece
  <2>3. /\ Len(dst \o piece) = l + n
        /\ \A k \in 1..l : (dst \o piece)[k] = dst[k]
        /\ \A k \in 1..n : (dst \o piece)[l + k] = piece[k]
    BY <1>3, <1>5, <1>d, <2>1
  <2> QED
    BY <1>1, <2>2, <2>3
<1> HIDE DEF piece
<1>11. /\ c = Base + l /\ Base \in Nat /\ Base' = Base
       /\ \A k \in 1..l : dst[k] = Content(o)[Base + k]
       /\ IF mmap THEN len = Sizes[o] ELSE len \in Lengths
  BY <1>d, <1>1, <1>3, <1>4 DEF Gathered, Base
<1>12. Content(o)' = Content(o) /\ \A k : ClusterAt(o, k)' = ClusterAt(o, k)
  BY <1>1 DEF Content, ClusterAt
<1>13. ASSUME NEW k \in 1..(l + n)
       PROVE  dst'[k] = Content(o)[Base + k]
  <2>1. CASE k \in 1..l
    BY <1>10, <1>11, <2>1
  <2>2. CASE ~(k \in 1..l)
    <3>1. PICK j : j = k - l
      OBVIOUS
    <3>2. j \in 1..n /\ k = l + j /\ Base + k = c + j
      BY <1>3, <1>5, <1>11, <2>2, <3>1
    <3>3. dst'[l + j] = Content(o)[c + j]
      BY <1>9, <1>10, <3>2
    <3> QED
      BY <3>2, <3>3
  <2> QED
    BY <2>1, <2>2
<1>g. PICK x : x = c + n
  OBVIOUS
<1>14. Gathered(o, x)'
  <2>1. x = Base' + Len(dst')
    BY <1>g, <1>3, <1>5, <1>10, <1>11
  <2>2. \A k \in 1..Len(dst') : dst'[k] = Content(o)'[Base' + k]
    BY <1>10, <1>11, <1>12, <1>13
  <2>3. IF mmap' THEN len' = Sizes[o] ELSE len' \in Lengths
    BY <1>1, <1>11
  <2> QED
    BY <2>1, <2>2, <2>3 DEF Gathered
<1>15. \/ Len(dst') = len' \/ x = Sizes[o]
       \/ x % ClusterSize = 0 /\ x > 0 /\ Here(o, (x \div ClusterSize) - 1)'
  <2> SUFFICES ASSUME Len(dst') # len', x # Sizes[o]
               PROVE  x % ClusterSize = 0 /\ x > 0 /\ Here(o, (x \div ClusterSize) - 1)'
    OBVIOUS
  <2>1. r + n = ClusterSize
    BY <1>g, <1>1, <1>5, <1>10
  <2>2. c < Sizes[o]
    BY <1>g, <1>3, <1>5
  <2> DEFINE p == q + 1
  <2>3. x = p * ClusterSize + 0
    <3>1. p * ClusterSize = q * ClusterSize + ClusterSize /\ q * ClusterSize \in Nat
      BY <1>6
    <3> QED
      BY <1>g, <1>5, <1>6, <2>1, <3>1
  <2>4. p \in Nat /\ p - 1 = q /\ ClusterSize \in Nat \ {0} /\ 0 \in 0..(ClusterSize - 1)
    BY <1>6
  <2> HIDE DEF p
  <2>5. (p * ClusterSize + 0) \div ClusterSize = p /\ (p * ClusterSize + 0) % ClusterSize = 0
    BY <2>4, DivModUnique
  <2>6. x \div ClusterSize = p /\ x % ClusterSize = 0
    BY <2>3, <2>5, Zenon
  <2>7. x > 0
    BY <1>g, <1>3, <1>5, <1>6, <2>1
  <2>8. Here(o, (x \div ClusterSize) - 1)'
    <3>1. (x \div ClusterSize) - 1 = q
      BY <2>4, <2>6
    <3>2. Here(o, q)'
      BY <1>1, <1>7, <1>12, <2>2 DEF Here
    <3> QED
      BY <3>1, <3>2
  <2> QED
    BY <2>6, <2>7, <2>8
<1>16. Placing(o, x)'
  BY <1>1, <1>15 DEF Placing
<1>17. files'[slots'[slot']].path = o /\ files'[slots'[slot']].cursor = x
  <2>1. files'[slots[slot]] = [inode |-> files[slots[slot]].inode, path |-> files[slots[slot]].path,
                               cursor |-> c + n,
                               first_cluster |-> files[slots[slot]].first_cluster]
    BY <1>1, <1>3, CursorMoved
  <2> QED
    BY <1>a, <1>g, <1>1, <2>1 DEF File
<1> QED
  BY <1>14, <1>16, <1>17, ProgressNext

-----------------------------------------------------------------------------
(* Every step is one of Files, or none. *)

(* Mounting and walking leave open files alone. *)
Aside ==
    /\ UNCHANGED <<layout, files, slots, got, asked, slot, start>>
    /\ ~Reading'
    /\ Walking' => Walking
    /\ \A b \in DOMAIN inodes : inodes'[b] = inodes[b]

LEMMA MountingAside ==
  ASSUME Blocks,
         parse_MBR_begin \/ parse_MBR \/ parse_partition \/ FS_register \/ FS_probe \/ FAT_detect
  PROVE  Aside
<1>1. /\ UNCHANGED <<layout, files, slots, got, asked, slot, start, cont>>
      /\ at \in {"probe", "mbr", "part", "register", "detect", "detected"}
      /\ at' \in {"stopped", "mbr", "part", "register", "wild", "detect", "detected", "ready"}
  <2>1. CASE parse_MBR_begin
    BY <2>1 DEF parse_MBR_begin, At, disk, walk, read, caller
  <2>2. CASE parse_MBR
    BY <2>2 DEF parse_MBR, Back, disk, walk, read, caller
  <2>3. CASE parse_partition
    <3>1. at' \in {"register", "part"}
      BY <2>3 DEF parse_partition
    <3> QED
      BY <2>3, <3>1 DEF parse_partition, At, disk, walk, read, caller
  <2>4. CASE FS_register
    BY <2>4 DEF FS_register, At, disk, walk, read, caller
  <2>5. CASE FS_probe
    BY <2>5 DEF FS_probe, At, disk, walk, read, caller
  <2>6. CASE FAT_detect
    BY <2>6 DEF FAT_detect, Back, disk, walk, read, caller
  <2> QED
    BY <2>1, <2>2, <2>3, <2>4, <2>5, <2>6
<1>2. cont' = "none"
  BY <1>1 DEF Blocks, Points
<1>3. ~Reading' /\ ~Walking'
  BY <1>1, <1>2 DEF Reading, Walking
<1>4. \A b \in DOMAIN inodes : inodes'[b] = inodes[b]
  <2>1. CASE FAT_detect
    <3> DEFINE m == FAT_init_inode(FirstCluster(Root), TRUE, 0)
    <3>1. Made(m, FirstCluster(Root), TRUE, 0)
      BY NewInode
    <3>2. inodes' = m.inodes \/ inodes' = inodes
      BY <2>1 DEF FAT_detect
    <3> HIDE DEF m
    <3> QED
      BY <3>1, <3>2 DEF Made
  <2>2. CASE parse_MBR_begin \/ parse_MBR \/ parse_partition \/ FS_register \/ FS_probe
    <3>1. UNCHANGED inodes
      BY <2>2 DEF parse_MBR_begin, parse_MBR, parse_partition, FS_register, FS_probe
    <3> QED
      BY <3>1
  <2> QED
    BY <2>1, <2>2
<1> QED
  BY <1>1, <1>3, <1>4 DEF Aside

LEMMA WalkAside ==
  ASSUME Blocks,
         \/ FAT_readdir_begin \/ FAT_readdir_cluster \/ FAT_readdir_scan \/ FAT_readdir_entry
         \/ walk_next
  PROVE  Aside
<1>1. /\ UNCHANGED <<layout, files, slots, got, asked, slot, start>>
      /\ at \in {"walk", "dir", "scan", "entry", "walk_next"}
      /\ at' \in {"walk", "dir", "scan", "entry", "walk_next", "walked", "next", "wild"}
      /\ cont' \in {cont, "dir"}
  <2>1. CASE FAT_readdir_begin
    BY <2>1 DEF FAT_readdir_begin, At, disk, read, caller
  <2>2. CASE FAT_readdir_cluster
    BY <2>2 DEF FAT_readdir_cluster, At, disk, walk, read, caller
  <2>3. CASE FAT_readdir_scan
    BY <2>3 DEF FAT_readdir_scan, Back, disk, walk, read, caller
  <2>4. CASE FAT_readdir_entry
    BY <2>4 DEF FAT_readdir_entry, At, disk, read, caller
  <2>5. CASE walk_next
    BY <2>5 DEF walk_next, At, disk, read, caller
  <2> QED
    BY <2>1, <2>2, <2>3, <2>4, <2>5
<1>2. cont' \in {"none", "dir"}
  BY <1>1 DEF Blocks, Points
<1>3. ~Reading' /\ Walking
  BY <1>1, <1>2 DEF Reading, Walking
<1>4. \A b \in DOMAIN inodes : inodes'[b] = inodes[b]
  <2>1. CASE FAT_readdir_entry
    <3> DEFINE e == DirBlock(buf["dir"])[dir_ent]
               m == FAT_init_inode(EntCluster(e), e.dir, EntSize(e))
    <3>1. Made(m, EntCluster(e), e.dir, EntSize(e))
      BY NewInode
    <3>2. inodes' = m.inodes \/ inodes' = inodes
      BY <2>1, EntryCases
    <3> HIDE DEF m, e
    <3> QED
      BY <3>1, <3>2 DEF Made
  <2>2. CASE FAT_readdir_begin \/ FAT_readdir_cluster \/ FAT_readdir_scan \/ walk_next
    <3>1. UNCHANGED inodes
      BY <2>2 DEF FAT_readdir_begin, FAT_readdir_cluster, FAT_readdir_scan, walk_next
    <3> QED
      BY <3>1
  <2> QED
    BY <2>1, <2>2
<1> QED
  BY <1>1, <1>3, <1>4 DEF Aside

(* What Files sees, and what it does not. *)
Handle(s) ==
    IF slots[s] = NULL THEN NULL
    ELSE [path |-> File(s).path, pos |-> IF s = slot THEN start ELSE File(s).cursor]

Unseen == \* nothing happens to the files as the caller sees them
    /\ UNCHANGED <<layout, got>>
    /\ \A s \in Slots : Handle(s)' = Handle(s)

LEMMA AsideUnseen ==
  ASSUME Blocks, Named, Aside
  PROVE  Named' /\ Progress' /\ Unseen
<1>1. Progress'
  BY DEF Aside, Progress
<1>2. Named'
  <2>1. Walking' => asked' \in DOMAIN PathOf
    BY DEF Aside, Named, Walking
  <2> QED
    BY <2>1, KeptNamed DEF Aside
<1>3. Unseen
  BY DEF Aside, Unseen, Handle, File
<1> QED
  BY <1>1, <1>2, <1>3

Handles == [s \in Slots |-> Handle(s)]
Contents == [o \in DOMAIN PathOf |-> Content(o)]

(* Slot s has handle h now and handle g afterwards; nothing else changes. *)
Moves(s, h, g) ==
    /\ UNCHANGED layout
    /\ Handle(s) = h /\ Handle(s)' = g
    /\ \A t \in Slots : t # s => Handle(t)' = Handle(t)

Opened(p, x) == [path |-> p, pos |-> x]

LEMMA ContentFacts ==
  ASSUME NEW p \in DOMAIN PathOf
  PROVE  Contents[p] = Content(p) /\ Len(Content(p)) = Sizes[p] /\ Sizes[p] \in Nat
         /\ DOMAIN Content(p) = 1..Sizes[p] /\ Opened(p, 0) # NULL
<1>1. Sizes[p] \in Nat
  BY FsAssumption
<1>2. Contents[p] = Content(p)
  BY DEF Contents
<1>3. Len(Content(p)) = Sizes[p] /\ DOMAIN Content(p) = 1..Sizes[p]
  BY <1>1 DEF Content
<1>4. Opened(p, 0) # NULL
  BY FsAssumption DEF Opened
<1> QED
  BY <1>1, <1>2, <1>3, <1>4

LEMMA OpenHandle ==
  ASSUME NEW p \in DOMAIN PathOf, NEW x \in Nat
  PROVE  Opened(p, x) # NULL /\ Opened(p, x).path = p /\ Opened(p, x).pos = x
BY FsAssumption DEF Opened

LEMMA Mapped ==
  ASSUME NEW s \in Slots, NEW h, NEW g, Moves(s, h, g)
  PROVE  /\ Contents' = Contents
         /\ Handles[s] = h /\ Handles' = [Handles EXCEPT ![s] = g]
<1>1. Contents' = Contents
  BY DEF Moves, Contents, Content
<1>2. Handles[s] = h
  BY DEF Moves, Handles
<1>3. Handles' = [t \in Slots |-> Handle(t)']
  BY DEF Handles
<1>4. \A t \in Slots : Handle(t)' = [Handles EXCEPT ![s] = g][t]
  BY DEF Moves, Handles
<1>5. Handles' = [Handles EXCEPT ![s] = g]
  BY <1>3, <1>4 DEF Handles
<1> QED
  BY <1>1, <1>2, <1>5

LEMMA FilesOpen ==
  ASSUME NEW s \in Slots, NEW p \in DOMAIN PathOf, UNCHANGED got, Moves(s, NULL, Opened(p, 0))
  PROVE  F!FilesNext
<1>1. Contents' = Contents /\ Handles[s] = NULL /\ Handles' = [Handles EXCEPT ![s] = Opened(p, 0)]
  BY Mapped
<1>2. F!Open(s, p)
  BY <1>1 DEF F!Open, Handles, Handle, Opened
<1> QED
  BY <1>1, <1>2 DEF F!FilesNext, Contents

LEMMA FilesClose ==
  ASSUME NEW s \in Slots, NEW h, h # NULL, UNCHANGED got, Moves(s, h, NULL)
  PROVE  F!FilesNext
<1>1. Contents' = Contents /\ Handles[s] = h /\ Handles' = [Handles EXCEPT ![s] = NULL]
  BY Mapped
<1>2. F!Close(s)
  BY <1>1 DEF F!Close, Handles, Handle
<1> QED
  BY <1>1, <1>2 DEF F!FilesNext, Contents

LEMMA FilesSeek ==
  ASSUME NEW s \in Slots, NEW p \in DOMAIN PathOf, NEW x \in Nat, NEW y \in 0..Sizes[p],
         UNCHANGED got, Moves(s, Opened(p, x), Opened(p, y))
  PROVE  F!FilesNext
<1>1. /\ Contents' = Contents /\ Handles[s] = Opened(p, x)
      /\ Handles' = [Handles EXCEPT ![s] = Opened(p, y)]
  BY Mapped
<1>2. Handles[s] # NULL /\ Handles[s].path = p
  BY <1>1, OpenHandle
<1>3. [Handles[s] EXCEPT !.pos = y] = Opened(p, y)
  BY <1>1 DEF Opened
<1>4. Handles' = [Handles EXCEPT ![s].pos = y]
  BY <1>1, <1>3, Zenon
<1>5. F!Seek(s, y)
  BY <1>2, <1>4 DEF F!Seek, Handles, Handle
<1>6. y \in 0..Len(Contents[Handles[s].path])
  BY <1>2, ContentFacts
<1> QED
  BY <1>1, <1>2, <1>5, <1>6 DEF F!FilesNext, Contents, Handles, Handle

LEMMA FilesRead ==
  ASSUME NEW s \in Slots, NEW p \in DOMAIN PathOf, NEW x \in 0..Sizes[p], NEW l \in Lengths, NEW n,
         n = IF l < Sizes[p] - x THEN l ELSE Sizes[p] - x,
         got' = SubSeq(Content(p), x + 1, x + n),
         Moves(s, Opened(p, x), Opened(p, x + n))
  PROVE  F!FilesNext
<1>1. /\ Contents' = Contents /\ Handles[s] = Opened(p, x)
      /\ Handles' = [Handles EXCEPT ![s] = Opened(p, x + n)]
  BY Mapped
<1>2. Handles[s] # NULL /\ Handles[s].path = p /\ Handles[s].pos = x
  BY <1>1, OpenHandle, ContentFacts
<1>3. [Handles[s] EXCEPT !.pos = @ + n] = Opened(p, x + n)
  BY <1>1 DEF Opened
<1>4. Handles' = [Handles EXCEPT ![s].pos = @ + n]
  BY <1>1, <1>3, Zenon
<1>5. Len(Contents[Handles[s].path]) - Handles[s].pos = Sizes[p] - x
  BY <1>2, ContentFacts
<1>6. F!Left(Handles[s]) = Sizes[p] - x
  BY <1>5 DEF F!Left, Contents
<1>7. F!Smaller(l, F!Left(Handles[s])) = n
  BY <1>6 DEF F!Smaller
<1>8. got' = SubSeq(Contents[Handles[s].path], Handles[s].pos + 1, Handles[s].pos + n)
  BY <1>2, ContentFacts
<1>9. F!Read(s, l)
  BY <1>2, <1>4, <1>7, <1>8 DEF F!Read, Handles, Handle, Contents
<1> QED
  BY <1>1, <1>9 DEF F!FilesNext, Contents

LEMMA FilesMmap ==
  ASSUME NEW s \in Slots, NEW p \in DOMAIN PathOf, NEW x \in Nat,
         got' = Content(p), Moves(s, Opened(p, x), Opened(p, x))
  PROVE  F!FilesNext
<1>1. /\ Contents' = Contents /\ Handles[s] = Opened(p, x)
      /\ Handles' = [Handles EXCEPT ![s] = Opened(p, x)]
  BY Mapped
<1>2. Handles[s] # NULL /\ Handles[s].path = p
  BY <1>1, OpenHandle
<1>3. Handles' = Handles
  BY <1>1 DEF Handles
<1>4. got' = Contents[Handles[s].path]
  BY <1>2, ContentFacts
<1>5. F!Mmap(s)
  BY <1>2, <1>3, <1>4 DEF F!Mmap, Handles, Handle, Contents
<1> QED
  BY <1>1, <1>5 DEF F!FilesNext, Contents

LEMMA FilesStutter ==
  ASSUME UNCHANGED layout, \A s \in Slots : Handle(s)' = Handle(s)
  PROVE  Contents' = Contents /\ Handles' = Handles
<1>1. Contents' = Contents
  BY DEF Contents, Content
<1>2. Handles' = Handles
  BY DEF Handles
<1> QED
  BY <1>1, <1>2

FileStep == F!FilesNext \/ Unseen

LEMMA CursorNamed ==
  ASSUME Blocks, Named, NEW s \in Slots, slots[s] # NULL, NEW x, SetCursor(s, x),
         UNCHANGED <<layout, inodes, slots>>, Walking' => asked' \in DOMAIN PathOf
  PROVE  /\ Named'
         /\ files'[slots[s]].path = files[slots[s]].path /\ files'[slots[s]].cursor = x
         /\ \A t \in Slots : t # s /\ slots[t] # NULL => files'[slots[t]] = files[slots[t]]
<1> DEFINE f == slots[s]
<1>1. /\ DOMAIN files' = DOMAIN files
      /\ files'[f] = [inode |-> files[f].inode, path |-> files[f].path, cursor |-> x,
                      first_cluster |-> files[f].first_cluster]
      /\ \A g \in DOMAIN files : g # f => files'[g] = files[g]
  BY CursorMoved
<1>2. /\ f \in DOMAIN files
      /\ \A t \in Slots : t # s /\ slots[t] # NULL => slots[t] \in DOMAIN files /\ slots[t] # f
  BY DEF Blocks, Pointers
<1> HIDE DEF f
<1>3. /\ files'[f].inode = files[f].inode /\ files'[f].path = files[f].path
      /\ files'[f].cursor = x /\ files'[f].first_cluster = files[f].first_cluster
  BY <1>1
<1>4. \A g \in DOMAIN files' : /\ files'[g].path = files[g].path
                               /\ files'[g].inode = files[g].inode
                               /\ files'[g].first_cluster = files[g].first_cluster
  BY <1>1, <1>3
<1>5. Named'
  BY <1>1, <1>4, KeptNamed
<1>6. \A t \in Slots : t # s /\ slots[t] # NULL => files'[slots[t]] = files[slots[t]]
  BY <1>1, <1>2
<1> QED
  BY <1>3, <1>5, <1>6 DEF f

LEMMA SameFiles ==
  ASSUME Blocks, Named, UNCHANGED <<layout, files, inodes, slots, slot, start, got>>,
         Walking' => asked' \in DOMAIN PathOf
  PROVE  Named' /\ Unseen
<1>1. Named'
  BY KeptNamed
<1>2. Unseen
  BY DEF Unseen, Handle, File
<1> QED
  BY <1>1, <1>2

LEMMA Step_Below ==
  ASSUME Blocks, Named, Progress, Below \/ get_FAT_miss \/ get_FAT_fill
  PROVE  Named' /\ Progress' /\ FileStep
<1>1. /\ UNCHANGED <<layout, files, inodes, slots, slot, skip, len, dst, start, mmap, got, asked,
                     cluster_num, cont>>
      /\ at' = at \/ {at, at'} \subseteq {"next", "fill"}
  <2>1. CASE Below
    BY <2>1 DEF Below, disk, walk, read, caller
  <2>2. CASE get_FAT_miss
    BY <2>2 DEF get_FAT_miss, At, disk, walk, read, caller
  <2>3. CASE get_FAT_fill
    BY <2>3 DEF get_FAT_fill, Back, disk, walk, read, caller
  <2> QED
    BY <2>1, <2>2, <2>3
<1>2. Walking' => asked' \in DOMAIN PathOf
  BY <1>1 DEF Walking, Named
<1> QED
  BY <1>1, <1>2, KeptProgress, SameFiles DEF FileStep

LEMMA Step_FS_inode_for_path ==
  ASSUME Blocks, Named, Progress, NEW o \in DOMAIN PathOf, FS_inode_for_path(o)
  PROVE  Named' /\ Progress' /\ FileStep
<1>1. /\ UNCHANGED <<layout, files, inodes, slots, slot, start, got, cont>>
      /\ at = "ready" /\ at' = "walk" /\ asked' = o
  BY DEF FS_inode_for_path, Called, At, disk, read, caller
<1>2. ~Reading'
  BY <1>1 DEF Reading, Blocks, Points
<1> QED
  BY <1>1, <1>2, SameFiles DEF FileStep, Progress

LEMMA Step_get_next_cluster_num ==
  ASSUME Blocks, DInv, Named, Progress, get_next_cluster_num
  PROVE  Named' /\ Progress' /\ FileStep
<1>1. /\ UNCHANGED <<layout, files, inodes, slots, slot, start, got, asked>>
      /\ at = "next" /\ at' = cont /\ cont' = "none"
  BY DEF get_next_cluster_num, At, disk, walk, read, caller
<1>2. Walking' => asked' \in DOMAIN PathOf
  BY <1>1 DEF Walking, Named, Blocks, Points
<1> QED
  BY <1>1, <1>2, SameFiles, Progress_get_next_cluster_num DEF FileStep

LEMMA Step_FAT_file_read_seek ==
  ASSUME Blocks, DInv, Named, Progress, FAT_file_read_seek \/ FAT_file_read_cluster
  PROVE  Named' /\ Progress' /\ FileStep
<1>1. /\ UNCHANGED <<layout, files, inodes, slots, slot, start, got, asked>>
      /\ at \in {"seek", "file"} /\ at' \in {"file", "end", "next", "copy"}
      /\ cont' \in {cont, "seek"}
  BY DEF FAT_file_read_seek, FAT_file_read_cluster, At, disk, walk, read, caller
<1>2. ~Walking'
  BY <1>1 DEF Walking, Blocks, Points
<1> QED
  BY <1>1, <1>2, SameFiles, Progress_FAT_file_read_seek, Progress_FAT_file_read_cluster
     DEF FileStep

LEMMA Step_FAT_file_read_copy ==
  ASSUME Blocks, DInv, Named, Progress, FAT_file_read_copy
  PROVE  Named' /\ Progress' /\ FileStep
<1>1. PICK x : SetCursor(slot, x)
  BY DEF FAT_file_read_copy
<1>2. /\ UNCHANGED <<layout, inodes, slots, slot, start, got, asked>>
      /\ at = "copy" /\ at' = "next" /\ cont' = "file"
  BY DEF FAT_file_read_copy, Back, disk, walk, caller
<1>3. slot \in Slots /\ slots[slot] # NULL /\ ~Walking'
  BY <1>2 DEF Blocks, Points, Reading, Walking
<1>4. /\ Named'
      /\ files'[slots[slot]].path = files[slots[slot]].path
      /\ \A t \in Slots : t # slot /\ slots[t] # NULL => files'[slots[t]] = files[slots[t]]
  BY <1>1, <1>2, <1>3, CursorNamed
<1>5. \A t \in Slots : Handle(t)' = Handle(t)
  BY <1>2, <1>3, <1>4 DEF Handle, File
<1> QED
  BY <1>2, <1>4, <1>5, Progress_FAT_file_read_copy DEF FileStep, Unseen

LEMMA Step_FAT_file_read ==
  ASSUME Blocks, DInv, Named, NEW s \in Slots, NEW n, NEW whole \in BOOLEAN,
         whole \/ n \in Lengths, FAT_file_read(s, n, whole)
  PROVE  Named' /\ Progress' /\ FileStep
<1>1. /\ UNCHANGED <<layout, inodes, slots, got, asked, cont>>
      /\ at = "ready" /\ at' = "seek" /\ slot' = s /\ start' = File(s).cursor /\ slots[s] # NULL
      /\ SetCursor(s, 0) \/ UNCHANGED files
  BY DEF FAT_file_read, Called, At, disk, walk, caller
<1>2. slot = NULL /\ s # slot /\ NULL \notin Slots /\ ~Walking'
  BY <1>1, FsAssumption DEF Blocks, Points, Reading, Walking
<1>3. /\ Named'
      /\ files'[slots[s]].path = files[slots[s]].path
      /\ \A t \in Slots : t # s /\ slots[t] # NULL => files'[slots[t]] = files[slots[t]]
  <2>1. CASE SetCursor(s, 0)
    BY <1>1, <1>2, <2>1, CursorNamed
  <2>2. CASE UNCHANGED files
    BY <1>1, <1>2, <2>2, KeptNamed
  <2> QED
    BY <1>1, <2>1, <2>2
<1>4. \A t \in Slots : Handle(t)' = Handle(t)
  BY <1>1, <1>2, <1>3 DEF Handle, File
<1> QED
  BY <1>1, <1>3, <1>4, Progress_FAT_file_read DEF FileStep, Unseen

(* An open file, as its handle says. *)
LEMMA OpenFile ==
  ASSUME Blocks, DInv, Named, NEW s \in Slots, slots[s] # NULL, NEW p, p = File(s).path
  PROVE  /\ p \in DOMAIN PathOf /\ Inode(s).st_size = Sizes[p] /\ Sizes[p] \in Nat
         /\ File(s).cursor \in 0..Sizes[p]
<1>1. slots[s] \in DOMAIN files /\ s \in OpenSlots
  BY DEF Blocks, Pointers, OpenSlots
<1>2. p \in DOMAIN PathOf /\ Inode(s).st_size = Sizes[p]
  BY <1>1 DEF Named, File, Inode
<1> QED
  BY <1>1, <1>2, ContentFacts DEF DInv, Cursors

LEMMA Step_FAT_file_lseek ==
  ASSUME Blocks, DInv, Named, NEW s \in Slots, NEW x \in 0..Inode(s).st_size, FAT_file_lseek(s, x)
  PROVE  Named' /\ Progress' /\ FileStep
<1>1. PICK p : p = File(s).path
  OBVIOUS
<1>2. PICK y : y = File(s).cursor
  OBVIOUS
<1>3. /\ UNCHANGED <<layout, inodes, slots, slot, start, got, asked, at, cont>>
      /\ at = "ready" /\ slots[s] # NULL /\ SetCursor(s, x)
  BY DEF FAT_file_lseek, Called, At, disk, walk, read, caller
<1>4. slot = NULL /\ NULL \notin Slots /\ ~Walking' /\ ~Reading'
  BY <1>3, FsAssumption DEF Blocks, Points, Reading, Walking
<1>5. p \in DOMAIN PathOf /\ x \in 0..Sizes[p] /\ y \in Nat
  BY <1>1, <1>2, <1>3, OpenFile
<1>6. /\ Named'
      /\ files'[slots[s]].path = files[slots[s]].path /\ files'[slots[s]].cursor = x
      /\ \A t \in Slots : t # s /\ slots[t] # NULL => files'[slots[t]] = files[slots[t]]
  BY <1>3, <1>4, CursorNamed
<1>7. Handle(s) = Opened(p, y)
  BY <1>1, <1>2, <1>3, <1>4 DEF Handle, Opened
<1>8. Handle(s)' = Opened(p, x)
  BY <1>1, <1>3, <1>4, <1>6 DEF Handle, File, Opened
<1>9. \A t \in Slots : t # s => Handle(t)' = Handle(t)
  BY <1>3, <1>6 DEF Handle, File
<1>10. F!FilesNext
  BY <1>3, <1>5, <1>7, <1>8, <1>9, FilesSeek DEF Moves
<1> QED
  BY <1>4, <1>6, <1>10 DEF FileStep, Progress

LEMMA Step_FAT_file_close ==
  ASSUME Blocks, DInv, Named, NEW s \in Slots, FAT_file_close(s)
  PROVE  Named' /\ Progress' /\ FileStep
<1>1. PICK p : p = File(s).path
  OBVIOUS
<1>2. PICK y : y = File(s).cursor
  OBVIOUS
<1>3. /\ UNCHANGED <<layout, inodes, slot, start, got, asked, at, cont>>
      /\ at = "ready" /\ slots[s] # NULL
      /\ files' = [f \in DOMAIN files \ {slots[s]} |-> files[f]]
      /\ slots' = [slots EXCEPT ![s] = NULL]
  BY DEF FAT_file_close, Called, At, disk, walk, read, caller
<1>4. slot = NULL /\ NULL \notin Slots /\ ~Walking' /\ ~Reading'
  BY <1>3, FsAssumption DEF Blocks, Points, Reading, Walking
<1>5. p \in DOMAIN PathOf /\ y \in Nat
  BY <1>1, <1>2, <1>3, OpenFile
<1>6. /\ DOMAIN files' \subseteq DOMAIN files
      /\ \A f \in DOMAIN files' : files'[f] = files[f]
      /\ DOMAIN files' = DOMAIN files \ {slots[s]}
  BY <1>3
<1>7. Named'
  BY <1>3, <1>4, <1>6, KeptNamed
<1>8. Handle(s) = Opened(p, y)
  BY <1>1, <1>2, <1>3, <1>4 DEF Handle, Opened
<1>9. /\ slots'[s] = NULL
      /\ \A t \in Slots : t # s => slots'[t] = slots[t]
      /\ \A t \in Slots : t # s /\ slots[t] # NULL => slots[t] \in DOMAIN files'
  BY <1>3, <1>6 DEF Blocks, Pointers
<1>10. Handle(s)' = NULL /\ \A t \in Slots : t # s => Handle(t)' = Handle(t)
  BY <1>3, <1>6, <1>9 DEF Handle, File
<1>11. Opened(p, y) # NULL
  BY <1>5, OpenHandle
<1>12. F!FilesNext
  BY <1>3, <1>8, <1>10, <1>11, FilesClose DEF Moves
<1> QED
  BY <1>4, <1>7, <1>12 DEF FileStep, Progress

LEMMA Step_Take ==
  ASSUME Blocks, Named, Take
  PROVE  Named' /\ Progress' /\ FileStep
<1>1. /\ UNCHANGED <<layout, files, inodes, slots, slot, start, asked, at, cont>>
      /\ at = "ready" /\ got' = << >>
  BY DEF Take, At, disk, walk, read
<1>2. ~Reading' /\ ~Walking'
  BY <1>1 DEF Blocks, Points, Reading, Walking
<1>3. Named'
  BY <1>1, <1>2, KeptNamed
<1>4. \A s \in Slots : Handle(s)' = Handle(s)
  BY <1>1 DEF Handle, File
<1>5. Contents' = Contents /\ Handles' = Handles
  BY <1>1, <1>4, FilesStutter
<1>6. F!Take
  BY <1>1, <1>5 DEF F!Take, Handles, Handle
<1>7. F!FilesNext
  BY <1>5, <1>6 DEF F!FilesNext, Contents
<1> QED
  BY <1>2, <1>3, <1>7 DEF FileStep, Progress

LEMMA Step_FAT_file_open ==
  ASSUME Blocks, Named, PathsResolve, NEW s \in Slots, FAT_file_open(s)
  PROVE  Named' /\ Progress' /\ FileStep
<1> DEFINE m == kmalloc(heap, SizeOfNode)
           b == m.block
           new == [inode |-> result, path |-> asked, cursor |-> 0,
                   first_cluster |-> inodes[result].st_ino]
<1>1. /\ UNCHANGED <<layout, inodes, slot, start, got, cont>>
      /\ at = "walked" /\ at' \in {"ready", "wild"} /\ slots[s] = NULL
      /\ \/ /\ result \in DOMAIN inodes
            /\ files' = Put(files, b, new)
            /\ slots' = [slots EXCEPT ![s] = b]
         \/ UNCHANGED <<files, slots>>
  BY DEF FAT_file_open, At, disk, read
<1>2. slot = NULL /\ NULL \notin Slots /\ ~Walking' /\ ~Reading' /\ asked \in DOMAIN PathOf
  BY <1>1, FsAssumption DEF Blocks, Points, Reading, Walking, Named
<1>3. CASE UNCHANGED <<files, slots>>
  BY <1>1, <1>2, <1>3, SameFiles DEF FileStep, Progress
<1>4. CASE /\ result \in DOMAIN inodes
           /\ files' = Put(files, b, new)
           /\ slots' = [slots EXCEPT ![s] = b]
  <2>1. b \notin DOMAIN heap.pool /\ b # NULL
    BY NewBlock DEF Blocks
  <2>2. b \notin DOMAIN files
    BY <2>1 DEF Blocks, Ownership, Own
  <2>3. /\ new.inode = result /\ new.path = asked /\ new.cursor = 0
        /\ new.first_cluster = inodes[result].st_ino
    OBVIOUS
  <2> HIDE DEF m, b, new
  <2>4. /\ DOMAIN files' = DOMAIN files \cup {b} /\ files'[b] = new
        /\ \A f \in DOMAIN files : files'[f] = files[f]
    BY <1>4, <2>2 DEF Put
  <2>5. /\ inodes[result].st_size = Sizes[asked]
        /\ Sizes[asked] > 0 => inodes[result].st_ino = FirstCluster(asked)
    BY <1>1, <1>4 DEF PathsResolve
  <2>6. PICK p : p = asked
    OBVIOUS
  <2>7. ASSUME NEW f \in DOMAIN files'
        PROVE  /\ files'[f].path \in DOMAIN PathOf
               /\ inodes'[files'[f].inode].st_size = Sizes[files'[f].path]
               /\ Sizes[files'[f].path] > 0 =>
                     files'[f].first_cluster = FirstCluster(files[f].path)'
    <3>1. CASE f = b
      <4>1. files'[f] = new
        BY <2>4, <3>1
      <4>2. FirstCluster(files[f].path)' = FirstCluster(asked)
        BY <1>1, <2>3, <4>1 DEF FirstCluster
      <4> QED
        BY <1>1, <1>2, <2>3, <2>5, <4>1, <4>2
    <3>2. CASE f # b
      <4>1. f \in DOMAIN files /\ files'[f] = files[f]
        BY <2>4, <3>2
      <4>2. FirstCluster(files[f].path)' = FirstCluster(files[f].path)
        BY <1>1, <4>1 DEF FirstCluster
      <4> QED
        BY <1>1, <4>1, <4>2 DEF Named
    <3> QED
      BY <3>1, <3>2
  <2>8. Named'
    BY <1>2, <2>7 DEF Named, Walking
  <2>9. /\ slots'[s] = b
        /\ \A t \in Slots : t # s => slots'[t] = slots[t]
        /\ \A t \in Slots : slots[t] # NULL => slots[t] \in DOMAIN files
    BY <1>4 DEF Blocks, Pointers
  <2>10. Handle(s) = NULL
    BY <1>1 DEF Handle
  <2>11. Handle(s)' = Opened(p, 0)
    BY <1>1, <1>2, <2>1, <2>3, <2>4, <2>6, <2>9 DEF Handle, File, Opened
  <2>12. \A t \in Slots : t # s => Handle(t)' = Handle(t)
    BY <1>1, <2>4, <2>9 DEF Handle, File
  <2>13. F!FilesNext
    BY <1>1, <1>2, <2>6, <2>10, <2>11, <2>12, FilesOpen DEF Moves
  <2> QED
    BY <1>2, <2>8, <2>13 DEF FileStep, Progress
<1> QED
  BY <1>1, <1>3, <1>4

LEMMA Stretch ==
  ASSUME NEW T, NEW C \in Seq(T), NEW x \in 0..Len(C), NEW n \in Nat, x + n <= Len(C),
         NEW U, NEW d \in Seq(U), Len(d) = n, \A k \in 1..n : d[k] = C[x + k]
  PROVE  d = SubSeq(C, x + 1, x + n)
<1>1. /\ SubSeq(C, x + 1, x + n) \in Seq(T) /\ Len(SubSeq(C, x + 1, x + n)) = n
      /\ \A k \in 1..n : SubSeq(C, x + 1, x + n)[k] = C[(x + 1) + k - 1]
  OBVIOUS
<1>2. \A k \in 1..n : (x + 1) + k - 1 = x + k
  OBVIOUS
<1> DEFINE e == SubSeq(C, x + 1, x + n)
<1>3. e \in Seq(T) /\ Len(e) = n /\ \A k \in 1..n : e[k] = d[k]
  BY <1>1, <1>2
<1> HIDE DEF e
<1>4. d = [k \in 1..n |-> d[k]] /\ e = [k \in 1..n |-> e[k]]
  BY <1>3
<1>5. d = e
  BY <1>3, <1>4
<1> QED
  BY <1>5 DEF e

LEMMA Step_FAT_file_read_end ==
  ASSUME Blocks, DInv, Named, Progress, FAT_file_read_end
  PROVE  Named' /\ Progress' /\ FileStep
<1>1. PICK s : s = slot
  OBVIOUS
<1>2. PICK o : o = File(s).path
  OBVIOUS
<1>3. PICK c : c = File(s).cursor
  OBVIOUS
<1>4. PICK x : x = start
  OBVIOUS
<1>5. /\ UNCHANGED <<layout, inodes, slots, asked, cont>>
      /\ at = "end" /\ at' = "ready" /\ slot' = NULL /\ got' = dst
      /\ IF mmap THEN SetCursor(s, x) ELSE UNCHANGED files
  BY <1>1, <1>4 DEF FAT_file_read_end, At, disk, walk
<1>6. Reading /\ ~Reading' /\ ~Walking'
  BY <1>5 DEF Reading, Walking, Blocks, Points
<1>7. /\ s \in Slots /\ slots[s] # NULL /\ o \in DOMAIN PathOf
      /\ Sizes[o] \in Nat /\ c \in 0..Sizes[o] /\ x \in 0..Sizes[o] /\ x \in Nat
      /\ len \in Nat /\ dst \in Seq(Bytes) /\ Len(dst) \in Nat /\ Len(dst) <= len
  BY <1>1, <1>2, <1>3, <1>4, <1>6, BeingRead
<1>8. /\ c = Base + Len(dst) /\ \A k \in 1..Len(dst) : dst[k] = Content(o)[Base + k]
      /\ IF mmap THEN len = Sizes[o] ELSE len \in Lengths
      /\ Len(dst) = len \/ c = Sizes[o]
  BY <1>1, <1>2, <1>3, <1>5, <1>6 DEF Progress, Gathered, Placing
<1>9. NULL \notin Slots
  BY FsAssumption
<1>10. Handle(s) = Opened(o, x)
  BY <1>1, <1>2, <1>4, <1>7 DEF Handle, Opened
<1>11. /\ Len(Content(o)) = Sizes[o]
       /\ Content(o) \in Seq({Content(o)[k] : k \in 1..Sizes[o]})
  <2>1. Len(Content(o)) = Sizes[o]
    BY <1>7, ContentFacts
  <2> DEFINE T == {Content(o)[k] : k \in 1..Sizes[o]}
  <2>2. Content(o) = [k \in 1..Sizes[o] |-> Content(o)[k]]
    BY DEF Content
  <2>3. \A k \in 1..Sizes[o] : Content(o)[k] \in T
    OBVIOUS
  <2> HIDE DEF T
  <2>4. Content(o) \in [1..Sizes[o] -> T]
    BY <2>2, <2>3
  <2>5. Content(o) \in Seq(T)
    BY <1>7, <2>4
  <2> QED
    BY <2>1, <2>5 DEF T
<1>12. Progress'
  BY <1>6 DEF Progress
<1>13. CASE mmap
  <2>1. /\ Named'
        /\ files'[slots[s]].path = files[slots[s]].path /\ files'[slots[s]].cursor = x
        /\ \A t \in Slots : t # s /\ slots[t] # NULL => files'[slots[t]] = files[slots[t]]
    BY <1>5, <1>6, <1>7, <1>13, CursorNamed
  <2>2. Base = 0 /\ Len(dst) = Sizes[o]
    BY <1>7, <1>8, <1>13 DEF Base
  <2>3. dst = SubSeq(Content(o), 0 + 1, 0 + Sizes[o])
    <3>1. \A k \in 1..Sizes[o] : dst[k] = Content(o)[0 + k]
      BY <1>8, <2>2
    <3>2. 0 \in 0..Len(Content(o)) /\ 0 + Sizes[o] <= Len(Content(o))
      BY <1>7, <1>11
    <3> QED
      BY <1>7, <1>11, <2>2, <3>1, <3>2, Stretch
  <2>4. dst = Content(o)
    BY <1>7, <1>11, <2>3
  <2>5. Handle(s)' = Opened(o, x)
    BY <1>2, <1>5, <1>7, <1>9, <2>1 DEF Handle, File, Opened
  <2>6. \A t \in Slots : t # s => Handle(t)' = Handle(t)
    BY <1>1, <1>5, <1>9, <2>1 DEF Handle, File
  <2>7. F!FilesNext
    BY <1>5, <1>7, <1>10, <2>4, <2>5, <2>6, FilesMmap DEF Moves
  <2> QED
    BY <1>12, <2>1, <2>7 DEF FileStep
<1>14. CASE ~mmap
  <2>1. UNCHANGED files
    BY <1>5, <1>14
  <2>2. Named'
    BY <1>5, <1>6, <2>1, KeptNamed
  <2>3. PICK n : n = Len(dst)
    OBVIOUS
  <2>4. Base = x /\ len \in Lengths
    BY <1>4, <1>8, <1>14 DEF Base
  <2>5. /\ n \in Nat /\ x + n <= Sizes[o] /\ c = x + n
        /\ n = IF len < Sizes[o] - x THEN len ELSE Sizes[o] - x
    BY <1>7, <1>8, <2>3, <2>4
  <2>6. got' = SubSeq(Content(o), x + 1, x + n)
    <3>1. \A k \in 1..n : dst[k] = Content(o)[x + k]
      BY <1>8, <2>3, <2>4
    <3>2. /\ x \in 0..Len(Content(o)) /\ n \in Nat /\ x + n <= Len(Content(o))
          /\ dst \in Seq(Bytes) /\ Len(dst) = n
      BY <1>7, <1>11, <2>3, <2>5
    <3>3. PICK T : Content(o) \in Seq(T)
      BY <1>11
    <3>4. dst = SubSeq(Content(o), x + 1, x + n)
      BY <3>1, <3>2, <3>3, Stretch
    <3> QED
      BY <1>5, <3>4
  <2>7. Handle(s)' = Opened(o, x + n)
    BY <1>2, <1>3, <1>5, <1>7, <1>9, <2>1, <2>5 DEF Handle, File, Opened
  <2>8. \A t \in Slots : t # s => Handle(t)' = Handle(t)
    BY <1>1, <1>5, <1>9, <2>1 DEF Handle, File
  <2>9. PICK l : l = len
    OBVIOUS
  <2>10. F!FilesNext
    BY <1>5, <1>7, <1>10, <2>4, <2>5, <2>6, <2>7, <2>8, <2>9, FilesRead DEF Moves
  <2> QED
    BY <1>12, <2>2, <2>10 DEF FileStep
<1> QED
  BY <1>13, <1>14

LEMMA Files_Step ==
  ASSUME Blocks, DInv, Named, Progress, PathsResolve, [Next]_vars
  PROVE  Named' /\ Progress' /\ FileStep
<1>1. CASE Below \/ get_FAT_miss \/ get_FAT_fill
  BY <1>1, Step_Below
<1>2. CASE Thread
  <2>1. CASE \E s \in Slots : FAT_file_open(s)
    BY <2>1, Step_FAT_file_open
  <2>2. CASE \/ parse_MBR_begin \/ parse_MBR \/ parse_partition \/ FS_register \/ FS_probe
             \/ FAT_detect
    BY <2>2, MountingAside, AsideUnseen DEF FileStep
  <2>3. CASE \/ FAT_readdir_begin \/ FAT_readdir_cluster \/ FAT_readdir_scan
             \/ FAT_readdir_entry \/ walk_next
    BY <2>3, WalkAside, AsideUnseen DEF FileStep
  <2>4. CASE get_next_cluster_num \/ FAT_file_read_seek \/ FAT_file_read_cluster
    BY <2>4, Step_get_next_cluster_num, Step_FAT_file_read_seek
  <2>5. CASE FAT_file_read_copy \/ FAT_file_read_end
    BY <2>5, Step_FAT_file_read_copy, Step_FAT_file_read_end
  <2> QED
    BY <1>1, <1>2, <2>1, <2>2, <2>3, <2>4, <2>5 DEF Thread
<1>3. CASE Caller
  <2>1. CASE Take
    BY <2>1, Step_Take
  <2>2. CASE \E o \in DOMAIN PathOf : FS_inode_for_path(o)
    BY <2>2, Step_FS_inode_for_path
  <2>3. ASSUME NEW s \in Slots,
               \/ \E n \in Lengths : FAT_file_read(s, n, FALSE)
               \/ FAT_file_read(s, 0, TRUE)
               \/ \E offset \in 0..Inode(s).st_size : FAT_file_lseek(s, offset)
               \/ FAT_file_close(s)
        PROVE  Named' /\ Progress' /\ FileStep
    BY <2>3, Step_FAT_file_read, Step_FAT_file_lseek, Step_FAT_file_close
  <2> QED
    BY <1>3, <2>1, <2>2, <2>3 DEF Caller
<1>4. CASE UNCHANGED vars
  <2>1. UNCHANGED <<layout, files, inodes, slots, slot, skip, len, dst, start, mmap, got, asked,
                    cluster_num, cont, at>>
    BY <1>4 DEF vars, disk, walk, read, caller
  <2>2. Walking' => asked' \in DOMAIN PathOf
    BY <2>1 DEF Walking, Named
  <2> QED
    BY <2>1, <2>2, KeptProgress, SameFiles DEF FileStep
<1> QED
  BY <1>1, <1>2, <1>3, <1>4 DEF Next

LEMMA Files_Init ==
  Init => Named /\ Progress /\ F!FilesInit
<1> SUFFICES ASSUME Init PROVE Named /\ Progress /\ F!FilesInit
  OBVIOUS
<1>1. /\ at = "probe" /\ cont = "none" /\ files = << >> /\ got = << >>
      /\ slots = [s \in Slots |-> NULL]
  BY DEF Init
<1>2. Named
  BY <1>1 DEF Named
<1>3. Progress
  BY <1>1 DEF Progress, Reading
<1>4. F!FilesInit
  BY <1>1 DEF F!FilesInit
<1> QED
  BY <1>2, <1>3, <1>4

LEMMA Files_Refines ==
  ASSUME FileStep
  PROVE  [F!FilesNext]_<<Contents, Handles, got>>
<1>1. CASE Unseen
  BY <1>1, FilesStutter DEF Unseen
<1> QED
  BY <1>1 DEF FileStep

-----------------------------------------------------------------------------
(* The path walk finds the file it is for. *)

(* The directories the path of file o leads through; the number of the     *)
(* path item that is looked for, and the directory it is looked for in.    *)
Via(o) == CHOOSE via \in [1..Len(PathOf[o]) -> DOMAIN Dirs] : LeadsTo(PathOf[o], via, o)
Existing == {o \in DOMAIN PathOf : Exists(o)}
Turn == Len(PathOf[asked]) - Len(path) + 1
Where == Via(asked)[Turn]

OnPath ==
    /\ asked \in Existing
    /\ path \in Seq(Range(PathOf[asked])) /\ Len(path) \in 1..Len(PathOf[asked])
    /\ \A i \in 1..Len(path) : path[i] = PathOf[asked][Turn + i - 1]

NodeOf(ino, is_dir, size) == [st_ino |-> ino, dir |-> is_dir, st_size |-> size]

(* Pointer b is to the inode of directory d. *)
DirNode(b, d) == b \in DOMAIN inodes \ {NULL} /\ inodes[b] = NodeOf(FirstCluster(d), TRUE, 0)

(* The entries of a directory before its cluster n. *)
Upto(d, n) == Smaller(n * DirEnts, Len(Dirs[d]))

(* After j entries of directory d the name buffer holds the pieces of the  *)
(* long name that is under way,                                            *)
Spelling(d, j) ==
    /\ valid_classic_entry <=> (j = 0 \/ ~Dirs[d][j].lfn)
    /\ name = [n \in 1..NamePieces |-> name[n]]
    /\ \A i \in 1..j : Dirs[d][i].lfn /\ i + Dirs[d][i].order > j =>
          name[Dirs[d][i].order] = [text |-> Dirs[d][i].text, ends |-> Dirs[d][i].ends]

(* ... and result points to what was looked for, if it was among them.     *)
Outcome(d, j) ==
    IF \E k \in 1..j : Entitled(d, k, path[1])
      THEN /\ result \in DOMAIN inodes \ {NULL}
           /\ \E k \in 1..j : /\ Entitled(d, k, path[1])
                              /\ inodes[result] = NodeOf(EntCluster(Dirs[d][k]), Dirs[d][k].dir,
                                                         EntSize(Dirs[d][k]))
      ELSE Turn > 1 => result = cwd

Scanned(d, j) == j \in 0..Len(Dirs[d]) /\ Spelling(d, j) /\ Outcome(d, j)

(* Where the scan of directory d is: before, in or behind its cluster n. *)
Scanning(d) ==
    /\ at = "walk" /\ Turn > 1 => result = cwd
    /\ at = "dir" => \E n \in 0..Len(layout[d]) :
                        cluster_num = ClusterAt(d, n) /\ Scanned(d, Upto(d, n))
    /\ at = "scan" => \E n \in 0..(Len(layout[d]) - 1) :
                        cluster_num = ClusterAt(d, n) /\ Scanned(d, Upto(d, n))
    /\ at = "entry" => \E n \in 0..(Len(layout[d]) - 1) :
                        /\ cluster_num = ClusterAt(d, n)
                        /\ buf["dir"] = PartStart + cluster_to_sector(cluster_num)
                        /\ Upto(d, n) + dir_ent - 1 <= Upto(d, n + 1)
                        /\ Scanned(d, Upto(d, n) + dir_ent - 1)
    /\ cont = "dir" => \E n \in 0..(Len(layout[d]) - 1) :
                        cluster_num = ClusterAt(d, n) /\ Scanned(d, Upto(d, n + 1))
    /\ at = "walk_next" => Outcome(d, Len(Dirs[d]))

Searching == at \in {"walk", "dir", "scan", "entry", "walk_next"} \/ cont = "dir"

Walks ==
    /\ root_inode # NULL => DirNode(root_inode, Root)
    /\ Searching => OnPath /\ DirNode(cwd, Where) /\ Scanning(Where)
    /\ PathsResolve

LEMMA RouteFacts ==
  ASSUME NEW o \in Existing
  PROVE  /\ o \in DOMAIN PathOf /\ o \in Objects
         /\ PathOf[o] \in Seq(Range(PathOf[o])) /\ Len(PathOf[o]) \in Nat \ {0}
         /\ \A i \in 1..Len(PathOf[o]) : Unmistakable(PathOf[o][i])
         /\ Via(o) \in [1..Len(PathOf[o]) -> DOMAIN Dirs]
         /\ LeadsTo(PathOf[o], Via(o), o)
<1>1. o \in DOMAIN PathOf /\ o \in Objects
  BY FsAssumption DEF Existing
<1>2. /\ PathOf[o] \in Seq(Range(PathOf[o])) \ {<< >>}
      /\ \A item \in Range(PathOf[o]) : Unmistakable(item)
      /\ \E via \in [1..Len(PathOf[o]) -> DOMAIN Dirs] : LeadsTo(PathOf[o], via, o)
  BY <1>1, DirsAssumption DEF Existing, Exists
<1>3. Len(PathOf[o]) \in Nat \ {0}
  BY <1>2, EmptySeq, Zenon
<1>4. \A i \in 1..Len(PathOf[o]) : PathOf[o][i] \in Range(PathOf[o])
  BY <1>2, ElementOfSeq
<1>5. Via(o) \in [1..Len(PathOf[o]) -> DOMAIN Dirs] /\ LeadsTo(PathOf[o], Via(o), o)
  BY <1>2, Zenon DEF Via
<1> QED
  BY <1>1, <1>2, <1>3, <1>4, <1>5

LEMMA DirFacts ==
  ASSUME layout \in Layouts, NEW d \in DOMAIN Dirs
  PROVE  /\ d \in Objects /\ Sizes[d] = 0 /\ WellFormed(d)
         /\ Dirs[d] \in Seq(Range(Dirs[d])) /\ Len(Dirs[d]) \in Nat
         /\ \A k \in 1..Len(Dirs[d]) : Dirs[d][k] \in Range(Dirs[d])
         /\ layout[d] # << >> /\ Len(layout[d]) \in Nat \ {0}
         /\ Len(Dirs[d]) <= Len(layout[d]) * DirEnts
<1>1. d \in Objects /\ Dirs[d] \in Seq(Range(Dirs[d]))
  BY FsAssumption
<1>2. WellFormed(d)
  BY DirsAssumption
<1>3. layout[d] # << >> /\ Len(Dirs[d]) <= Len(layout[d]) * DirEnts /\ Sizes[d] = 0
  BY <1>2 DEF WellFormed
<1>4. Len(layout[d]) \in Nat \ {0}
  <2>1. layout[d] \in Seq(2..(TABLE_VAL_MAX - 1))
    BY <1>1, LayoutFacts
  <2> QED
    BY <1>3, <2>1, EmptySeq, Zenon
<1>5. \A k \in 1..Len(Dirs[d]) : Dirs[d][k] \in Range(Dirs[d])
  BY <1>1, ElementOfSeq
<1>6. Len(Dirs[d]) \in Nat
  BY <1>1
<1> QED
  BY <1>1, <1>2, <1>3, <1>4, <1>5, <1>6

(* A long entry is as far before the entry it belongs to as its order      *)
(* says, and between them are the pieces that follow.                      *)
LEMMA LongEntry ==
  ASSUME layout \in Layouts, NEW d \in DOMAIN Dirs, NEW i \in 1..Len(Dirs[d]), Dirs[d][i].lfn
  PROVE  /\ Dirs[d][i].order \in 1..NamePieces
         /\ i + Dirs[d][i].order \in 1..Len(Dirs[d]) /\ i + Dirs[d][i].order > i
         /\ ~Dirs[d][i + Dirs[d][i].order].lfn
         /\ \A h \in i..(i + Dirs[d][i].order - 1) :
               Dirs[d][h].lfn /\ h + Dirs[d][h].order = i + Dirs[d][i].order
<1>1. WellFormed(d) /\ Len(Dirs[d]) \in Nat
  BY DirFacts
<1>2. PICK j \in 1..Len(Dirs[d]), n \in 1..NamePieces :
         LongName(d, j, n) /\ i \in (j - n)..(j - 1)
  BY <1>1 DEF WellFormed
<1>3. /\ n < j /\ ~Dirs[d][j].lfn
      /\ \A x \in 1..n : Dirs[d][j - x].lfn /\ Dirs[d][j - x].order = x
  BY <1>2 DEF LongName
<1>4. ASSUME NEW h \in (j - n)..(j - 1)
      PROVE  Dirs[d][h].lfn /\ Dirs[d][h].order = j - h
  <2>1. j - h \in 1..n /\ j - (j - h) = h
    BY <1>1, <1>2, <1>4
  <2> QED
    BY <1>3, <2>1
<1>5. Dirs[d][i].order = j - i
  BY <1>2, <1>4
<1>6. j - i \in 1..n /\ i \in Nat /\ j \in Nat /\ n \in Nat
  BY <1>1, <1>2, <1>3
<1>7. j - i \in 1..NamePieces
  BY <1>2, <1>6, DirsAssumption
<1>8. i + Dirs[d][i].order = j
  BY <1>5, <1>6
<1>9. \A h \in i..(j - 1) : h \in (j - n)..(j - 1) /\ h + (j - h) = j
  BY <1>1, <1>2, <1>6
<1>10. \A h \in i..(j - 1) : Dirs[d][h].lfn /\ h + Dirs[d][h].order = j
  BY <1>4, <1>9
<1>11. j > i
  BY <1>6
<1>12. Dirs[d][i].order \in 1..NamePieces
  BY <1>5, <1>7, Zenon
<1>13. /\ i + Dirs[d][i].order \in 1..Len(Dirs[d]) /\ i + Dirs[d][i].order > i
       /\ ~Dirs[d][i + Dirs[d][i].order].lfn
  BY <1>2, <1>3, <1>8, <1>11, Zenon
<1>14. \A h \in i..(i + Dirs[d][i].order - 1) :
          Dirs[d][h].lfn /\ h + Dirs[d][h].order = i + Dirs[d][i].order
  <2> SUFFICES ASSUME NEW h \in i..(i + Dirs[d][i].order - 1)
               PROVE  Dirs[d][h].lfn /\ h + Dirs[d][h].order = i + Dirs[d][i].order
    OBVIOUS
  <2>1. PICK x \in Nat : x = Dirs[d][i].order
    BY <1>5, <1>6
  <2>2. h \in i..(i + x - 1) /\ i + x = j
    BY <1>8, <2>1
  <2>3. h \in i..(j - 1)
    BY <2>2
  <2> QED
    BY <1>8, <1>10, <2>3, Zenon
<1> QED
  BY <1>12, <1>13, <1>14, Zenon

(* An entry behind a long one has a long name. *)
LEMMA LongNamed ==
  ASSUME layout \in Layouts, NEW d \in DOMAIN Dirs, NEW k \in 1..Len(Dirs[d]),
         ~Dirs[d][k].lfn, k > 1, Dirs[d][k - 1].lfn
  PROVE  \E n \in 1..NamePieces : LongName(d, k, n)
<1>1. WellFormed(d) /\ Len(Dirs[d]) \in Nat
  BY DirFacts
<1>2. k - 1 \in 1..Len(Dirs[d])
  BY <1>1
<1>3. PICK j \in 1..Len(Dirs[d]), n \in 1..NamePieces :
         LongName(d, j, n) /\ k - 1 \in (j - n)..(j - 1)
  BY <1>1, <1>2 DEF WellFormed
<1>4. j = k
  <2>1. k \in (j - n)..(j - 1) => Dirs[d][k].lfn
    <3>1. ASSUME k \in (j - n)..(j - 1) PROVE Dirs[d][k].lfn
      <4>1. j - k \in 1..n /\ j - (j - k) = k
        BY <1>1, <1>3, <3>1
      <4>2. Dirs[d][j - (j - k)].lfn
        BY <1>3, <4>1 DEF LongName
      <4> QED
        BY <4>1, <4>2
    <3> QED
      BY <3>1
  <2>2. ~(k \in (j - n)..(j - 1))
    BY <2>1
  <2> QED
    BY <1>1, <1>3, <2>2
<1> QED
  BY <1>3, <1>4

LEMMA UptoFacts ==
  ASSUME layout \in Layouts, NEW d \in DOMAIN Dirs, NEW n \in Nat
  PROVE  /\ Upto(d, n) \in 0..Len(Dirs[d]) /\ Upto(d, n) \in Nat
         /\ Upto(d, n + 1) \in Nat /\ Upto(d, n) <= Upto(d, n + 1)
         /\ Upto(d, 0) = 0 /\ Upto(d, Len(layout[d])) = Len(Dirs[d])
         /\ n * DirEnts \in Nat /\ (n + 1) * DirEnts = n * DirEnts + DirEnts
<1>1. Len(Dirs[d]) \in Nat /\ Len(layout[d]) \in Nat /\ Len(Dirs[d]) <= Len(layout[d]) * DirEnts
  BY DirFacts
<1>2. DirEnts \in Nat \ {0}
  BY Geometry
<1>3. n * DirEnts \in Nat /\ (n + 1) * DirEnts = n * DirEnts + DirEnts /\ 0 * DirEnts = 0
  BY <1>2
<1>4. Len(layout[d]) * DirEnts \in Nat
  BY <1>1, <1>2
<1> QED
  BY <1>1, <1>2, <1>3, <1>4 DEF Upto, Smaller

(* A block of a directory holds its entries there. *)
LEMMA BlockEntries ==
  ASSUME layout \in Layouts, NEW d \in DOMAIN Dirs, NEW n \in 0..(Len(layout[d]) - 1),
         NEW b, b = PartStart + cluster_to_sector(ClusterAt(d, n))
  PROVE  /\ Len(DirBlock(b)) = Upto(d, n + 1) - Upto(d, n)
         /\ \A i \in 1..Len(DirBlock(b)) : DirBlock(b)[i] = Dirs[d][Upto(d, n) + i]
<1> DEFINE H(x) == \E i \in DOMAIN layout[x] : Data0 + layout[x][i] - 2 = b
           o == CHOOSE x \in DOMAIN Dirs : H(x)
           k == CHOOSE i \in DOMAIN layout[o] : Data0 + layout[o][i] - 2 = b
           s == (k - 1) * DirEnts + 1
           t == Smaller(k * DirEnts, Len(Dirs[o]))
<1> HIDE DEF H, o, k, s, t
<1>1. \A x \in DOMAIN Dirs : /\ x \in Objects /\ layout[x] \in Seq(2..(TABLE_VAL_MAX - 1))
                             /\ DOMAIN layout[x] = 1..Len(layout[x]) /\ Len(layout[x]) \in Nat
  <2>1. \A x \in DOMAIN Dirs : x \in Objects
    BY DirFacts
  <2>2. \A x \in DOMAIN Dirs : layout[x] \in Seq(2..(TABLE_VAL_MAX - 1))
    BY <2>1, LayoutFacts
  <2> QED
    BY <2>1, <2>2
<1>2. n + 1 \in 1..Len(layout[d]) /\ ClusterAt(d, n) = layout[d][n + 1] /\ n \in Nat
  BY <1>1 DEF ClusterAt
<1>3. \A x \in DOMAIN Dirs : \A i \in 1..Len(layout[x]) : layout[x][i] \in Nat
  <2>1. \A x \in DOMAIN Dirs : \A i \in 1..Len(layout[x]) : layout[x][i] \in 2..(TABLE_VAL_MAX - 1)
    BY <1>1, ElementOfSeq
  <2> QED
    BY <2>1, Geometry
<1>4. Data0 \in Nat /\ b = Data0 + layout[d][n + 1] - 2
  <2> DEFINE N == sectors_per_fat * num_fats
             c == layout[d][n + 1]
  <2>1. num_fats * sectors_per_fat = N /\ N \in Nat
    BY Geometry
  <2>2. c \in Nat
    BY <1>2, <1>3
  <2>3. b = PartStart + (reserved_sectors + N + (c - 2))
    BY <1>2, Zenon DEF cluster_to_sector
  <2>4. Data0 = PartStart + reserved_sectors + N
    BY <2>1, Zenon DEF Data0, Fat0
  <2>5. PartStart \in Nat /\ reserved_sectors \in Nat
    BY Geometry
  <2> HIDE DEF N, c
  <2>6. Data0 \in Nat /\ b = Data0 + c - 2
    BY <2>1, <2>2, <2>3, <2>4, <2>5
  <2> QED
    BY <2>6 DEF c
<1>5. ASSUME NEW x \in DOMAIN Dirs, NEW i \in 1..Len(layout[x]), Data0 + layout[x][i] - 2 = b
      PROVE  x = d /\ i = n + 1
  <2>0. layout[x][i] \in Nat /\ layout[d][n + 1] \in Nat
    BY <1>2, <1>3
  <2>1. layout[x][i] = layout[d][n + 1]
    <3>1. PICK u \in Nat : u = layout[x][i]
      BY <2>0
    <3>2. PICK v \in Nat : v = layout[d][n + 1]
      BY <2>0
    <3>3. Data0 + u - 2 = Data0 + v - 2
      BY <1>4, <1>5, <3>1, <3>2, Zenon
    <3>4. u = v
      BY <1>4, <3>3
    <3> QED
      BY <3>1, <3>2, <3>4
  <2>2. x \in Objects /\ d \in Objects
    BY <1>1
  <2> QED
    BY <1>2, <2>1, <2>2, LayoutFacts
<1>6. H(d)
  BY <1>1, <1>2, <1>4 DEF H
<1>7. \A x \in DOMAIN Dirs : H(x) => x = d
  BY <1>1, <1>5 DEF H
<1>8. o = d
  <2>1. o \in DOMAIN Dirs /\ H(o)
    BY <1>6, Zenon DEF o
  <2> QED
    BY <1>7, <2>1, Zenon
<1>9. k = n + 1
  <2>1. k \in DOMAIN layout[d] /\ Data0 + layout[d][k] - 2 = b
    BY <1>6, <1>8, Zenon DEF k, H
  <2> QED
    BY <1>1, <1>5, <2>1
<1>10. DirBlock(b) = SubSeq(Dirs[o], s, t)
  BY <1>6, Zenon DEF DirBlock, H, o, k, s, t
<1>11. s = n * DirEnts + 1 /\ t = Upto(d, n + 1)
  <2>0. k - 1 = n
    BY <1>2, <1>9
  <2>1. (k - 1) * DirEnts = n * DirEnts
    BY <2>0, Zenon
  <2> QED
    BY <1>8, <1>9, <2>1 DEF Upto, s, t
<1>12. DirBlock(b) = SubSeq(Dirs[d], n * DirEnts + 1, Upto(d, n + 1))
  BY <1>8, <1>10, <1>11, Zenon
<1>13. /\ Upto(d, n + 1) \in Nat /\ Upto(d, n + 1) <= Len(Dirs[d]) /\ Len(Dirs[d]) \in Nat
       /\ n * DirEnts \in Nat /\ DirEnts \in Nat \ {0}
       /\ Upto(d, n) = Smaller(n * DirEnts, Len(Dirs[d]))
       /\ Upto(d, n + 1) = Smaller(n * DirEnts + DirEnts, Len(Dirs[d]))
  <2>1. /\ Upto(d, n + 1) \in 0..Len(Dirs[d]) /\ Upto(d, n + 1) \in Nat
        /\ n * DirEnts \in Nat /\ (n + 1) * DirEnts = n * DirEnts + DirEnts
    <3>1. n + 1 \in Nat
      BY <1>2
    <3> QED
      BY <1>2, <3>1, UptoFacts
  <2>2. Len(Dirs[d]) \in Nat /\ DirEnts \in Nat \ {0}
    BY DirFacts, Geometry
  <2>3. /\ Upto(d, n) = Smaller(n * DirEnts, Len(Dirs[d]))
        /\ Upto(d, n + 1) = Smaller((n + 1) * DirEnts, Len(Dirs[d]))
    BY DEF Upto
  <2> QED
    BY <2>1, <2>2, <2>3
<1> DEFINE p == n * DirEnts
           q == Upto(d, n + 1)
           S == Range(Dirs[d])
<1>14. \A j \in (p + 1)..q : Dirs[d][j] \in S
  <2>1. \A j \in 1..Len(Dirs[d]) : Dirs[d][j] \in S
    BY DirFacts
  <2>2. \A j \in (p + 1)..q : j \in 1..Len(Dirs[d])
    BY <1>13
  <2> QED
    BY <2>1, <2>2, Zenon
<1> HIDE DEF p, q, S
<1>15. p \in Nat /\ q \in Nat /\ q <= Len(Dirs[d]) /\ Len(Dirs[d]) \in Nat
  BY <1>13 DEF p, q
<1>16. /\ Len(SubSeq(Dirs[d], p + 1, q)) = IF p + 1 <= q THEN q - (p + 1) + 1 ELSE 0
       /\ \A i \in 1..(q - (p + 1) + 1) : SubSeq(Dirs[d], p + 1, q)[i] = Dirs[d][p + 1 + i - 1]
  BY <1>14, <1>15, SubSeqProperties
<1>17. DirBlock(b) = SubSeq(Dirs[d], p + 1, q)
  BY <1>12 DEF p, q
<1>18. CASE p + 1 <= q
  <2>1. Upto(d, n) = p
    BY <1>13, <1>15, <1>18 DEF p, q, Smaller
  <2>2. Len(DirBlock(b)) = q - p
    BY <1>15, <1>16, <1>17, <1>18
  <2>3. \A i \in 1..(q - p) : DirBlock(b)[i] = Dirs[d][p + i]
    BY <1>15, <1>16, <1>17
  <2> QED
    BY <2>1, <2>2, <2>3 DEF q
<1>19. CASE ~(p + 1 <= q)
  <2>1. Upto(d, n) = q
    BY <1>13, <1>15, <1>19 DEF p, q, Smaller
  <2>2. Len(DirBlock(b)) = 0
    BY <1>15, <1>16, <1>17, <1>19
  <2> QED
    BY <1>15, <2>1, <2>2 DEF q
<1> QED
  BY <1>18, <1>19

(* One more entry for the name buffer. *)
LEMMA SpelledOn ==
  ASSUME layout \in Layouts, NEW d \in DOMAIN Dirs, NEW j \in Nat, NEW k \in 1..Len(Dirs[d]),
         k = j + 1, Spelling(d, j), NEW e, e = Dirs[d][k],
         valid_classic_entry' = ~e.lfn,
         name' = IF e.lfn THEN get_long_dir_ent_name(e)
                 ELSE IF valid_classic_entry THEN get_dir_ent_name(e) ELSE name
  PROVE  Spelling(d, k)'
<1>1. /\ name = [n \in 1..NamePieces |-> name[n]]
      /\ \A i \in 1..j : Dirs[d][i].lfn /\ i + Dirs[d][i].order > j =>
            name[Dirs[d][i].order] = [text |-> Dirs[d][i].text, ends |-> Dirs[d][i].ends]
  BY DEF Spelling
<1>2. valid_classic_entry' <=> (k = 0 \/ ~Dirs[d][k].lfn)
  <2>1. k # 0
    OBVIOUS
  <2> QED
    BY <2>1, Zenon
<1>3. name' = [n \in 1..NamePieces |-> name'[n]]
  BY <1>1 DEF get_long_dir_ent_name, get_dir_ent_name
<1>4. ASSUME NEW i \in 1..j, Dirs[d][i].lfn, i + Dirs[d][i].order > k
      PROVE  /\ e.lfn /\ e.order # Dirs[d][i].order /\ Dirs[d][i].order \in 1..NamePieces
             /\ i + Dirs[d][i].order > j
  <2>1. i \in 1..Len(Dirs[d]) /\ i \in Nat /\ i < k /\ k \in Nat
    BY DirFacts
  <2>2. /\ Dirs[d][i].order \in 1..NamePieces
        /\ \A h \in i..(i + Dirs[d][i].order - 1) :
              Dirs[d][h].lfn /\ h + Dirs[d][h].order = i + Dirs[d][i].order
    BY <1>4, <2>1, LongEntry
  <2>3. PICK x \in Nat : x = Dirs[d][i].order
    BY <2>2, DirsAssumption
  <2>4. k \in i..(i + x - 1) /\ i + x > j
    BY <1>4, <2>1, <2>3
  <2>5. e.lfn /\ k + e.order = i + x
    BY <2>2, <2>3, <2>4
  <2>6. e.order # x
    BY <2>1, <2>3, <2>5
  <2> QED
    BY <2>2, <2>3, <2>4, <2>5, <2>6
<1>5. ASSUME NEW i \in 1..k, Dirs[d][i].lfn, i + Dirs[d][i].order > k
      PROVE  name'[Dirs[d][i].order] = [text |-> Dirs[d][i].text, ends |-> Dirs[d][i].ends]
  <2>1. CASE i = k
    <3>1. e.lfn /\ e.order \in 1..NamePieces
      BY <1>5, <2>1, LongEntry
    <3>2. name' = [name EXCEPT ![e.order] = [text |-> e.text, ends |-> e.ends]]
      BY <3>1 DEF get_long_dir_ent_name
    <3> QED
      BY <1>1, <2>1, <3>1, <3>2
  <2>2. CASE i # k
    <3>1. i \in 1..j
      BY <2>2
    <3>2. /\ e.lfn /\ e.order # Dirs[d][i].order /\ Dirs[d][i].order \in 1..NamePieces
          /\ i + Dirs[d][i].order > j
      BY <1>4, <1>5, <3>1
    <3>3. name' = [name EXCEPT ![e.order] = [text |-> e.text, ends |-> e.ends]]
      BY <3>2 DEF get_long_dir_ent_name
    <3>4. name[Dirs[d][i].order] = [text |-> Dirs[d][i].text, ends |-> Dirs[d][i].ends]
      BY <1>1, <1>5, <3>1, <3>2
    <3>5. name'[Dirs[d][i].order] = name[Dirs[d][i].order]
      BY <1>1, <3>2, <3>3
    <3> QED
      BY <3>4, <3>5
  <2> QED
    BY <2>1, <2>2
<1> QED
  BY <1>2, <1>3, <1>5 DEF Spelling

(* The buffer holds the long name of the entry that is next. *)
LEMMA Spelled ==
  ASSUME layout \in Layouts, NEW d \in DOMAIN Dirs, NEW j \in Nat, NEW k \in 1..Len(Dirs[d]),
         k = j + 1, Spelling(d, j), NEW m, LongName(d, k, m), NEW i \in 1..m
  PROVE  /\ name[i].text = Dirs[d][k - i].text /\ name[i].ends = (i = m)
         /\ Dirs[d][k - 1].lfn /\ j > 0 /\ k - 1 = j
<1>1. m \in 1..NamePieces /\ m < k /\ NamePieces \in Nat
  BY DirsAssumption DEF LongName
<1>2. i \in Nat /\ k \in Nat /\ m \in Nat /\ 1 \in 1..m /\ i < k
  BY <1>1
<1>3. /\ Dirs[d][k - i].lfn /\ Dirs[d][k - i].order = i /\ Dirs[d][k - i].ends = (i = m)
      /\ Dirs[d][k - 1].lfn
  BY <1>2 DEF LongName
<1>4. k - i \in 1..j /\ (k - i) + i > j /\ j > 0 /\ k - 1 = j
  BY <1>1, <1>2
<1>5. name[i] = [text |-> Dirs[d][k - i].text, ends |-> Dirs[d][k - i].ends]
  BY <1>3, <1>4 DEF Spelling
<1> QED
  BY <1>3, <1>4, <1>5

(* strcmp finds the path item exactly when the entry goes by its name. *)
LEMMA NameTest ==
  ASSUME layout \in Layouts, NEW d \in DOMAIN Dirs, NEW j \in Nat, NEW k \in 1..Len(Dirs[d]),
         k = j + 1, Spelling(d, j), NEW e, e = Dirs[d][k], ~e.lfn,
         NEW nm, nm = IF valid_classic_entry THEN get_dir_ent_name(e) ELSE name,
         NEW item, Unmistakable(item)
  PROVE  /\ SameName(nm, item) <=> Entitled(d, k, item)
         /\ Entitled(d, k, item) => nm[1].text \notin Dotted
<1> DEFINE L == Len(item)
<1>1. item \in Seq(Range(item)) /\ L \in Nat \ {0} /\ DOMAIN item = 1..L
  <2>1. item \in Seq(Range(item)) /\ item # << >>
    BY DEF Unmistakable
  <2> QED
    BY <2>1, EmptySeq
<1>2. item[1] \notin Dotted
  BY DEF Unmistakable
<1> HIDE DEF L
<1>3. 1 \in 1..L /\ L \in 1..L
  BY <1>1
<1>4. CASE valid_classic_entry
  <2>1. j = 0 \/ ~Dirs[d][j].lfn
    BY <1>4 DEF Spelling
  <2>2. ~LongName(d, k, L)
    BY <1>3, <2>1, Spelled
  <2>3. k - 1 = j /\ (k > 1 => j # 0)
    OBVIOUS
  <2>4. Entitled(d, k, item) <=> e.ends /\ item = <<e.text>>
    BY <2>1, <2>2, <2>3 DEF Entitled, L
  <2>5. nm[1].text = e.text /\ nm[1].ends = e.ends
    BY <1>4, DirsAssumption DEF get_dir_ent_name, Spelling
  <2>6. e.ends \in BOOLEAN
    BY DirFacts DEF WellFormed
  <2>7. ASSUME SameName(nm, item) PROVE e.ends /\ item = <<e.text>>
    <3>1. nm[1].text = item[1] /\ nm[1].ends = (1 = L)
      BY <1>1, <1>3, <2>7 DEF SameName, L
    <3>2. e \in Range(Dirs[d])
      BY DirFacts
    <3>3. e.ends
      BY <2>5, <3>1, <3>2 DEF Unmistakable
    <3>4. L = 1
      BY <2>5, <2>6, <3>1, <3>3
    <3>5. item = <<item[1]>>
      BY <1>1, <3>4 DEF L
    <3> QED
      BY <2>5, <3>1, <3>3, <3>5
  <2>8. ASSUME e.ends, item = <<e.text>>
        PROVE  SameName(nm, item) /\ nm[1].text \notin Dotted
    <3>1. L = 1 /\ item[1] = e.text
      BY <2>8 DEF L
    <3>2. nm[1].ends = (1 = L)
      BY <2>5, <2>6, <2>8, <3>1
    <3>3. DOMAIN item = {1}
      BY <1>1, <3>1
    <3> QED
      BY <1>2, <2>5, <3>1, <3>2, <3>3 DEF SameName, L
  <2> QED
    BY <2>4, <2>7, <2>8
<1>5. CASE ~valid_classic_entry
  <2>1. j > 0 /\ Dirs[d][j].lfn /\ nm = name /\ k > 1 /\ k - 1 = j
    BY <1>5 DEF Spelling
  <2>2. PICK m \in 1..NamePieces : LongName(d, k, m)
    BY <2>1, LongNamed
  <2>3. \A i \in 1..m : name[i].text = Dirs[d][k - i].text /\ name[i].ends = (i = m)
    BY <2>2, Spelled
  <2>4. m \in Nat \ {0} /\ m \in 1..m
    BY <2>2, DirsAssumption
  <2>5. ASSUME SameName(nm, item) PROVE Entitled(d, k, item)
    <3>1. \A i \in 1..L : name[i].text = item[i] /\ name[i].ends = (i = L)
      BY <1>1, <2>1, <2>5 DEF SameName, L
    <3>2. m = L
      <4>1. CASE m < L
        <5>1. m \in 1..L
          BY <1>1, <2>4, <4>1
        <5>2. name[m].ends = (m = L) /\ name[m].ends = (m = m)
          BY <2>3, <2>4, <3>1, <5>1
        <5> QED
          BY <5>2
      <4>2. CASE L < m
        <5>1. L \in 1..m
          BY <1>1, <2>4, <4>2
        <5>2. name[L].ends = (L = m) /\ name[L].ends = (L = L)
          BY <1>3, <2>3, <3>1, <5>1
        <5> QED
          BY <5>2
      <4> QED
        BY <1>1, <2>4, <4>1, <4>2
    <3> QED
      BY <2>2, <2>3, <3>1, <3>2 DEF Entitled, L
  <2>6. ASSUME Entitled(d, k, item) PROVE SameName(nm, item) /\ nm[1].text \notin Dotted
    <3>1. LongName(d, k, L) /\ \A i \in 1..L : Dirs[d][k - i].text = item[i]
      BY <2>1, <2>6 DEF Entitled, L
    <3>2. \A i \in 1..L : name[i].text = item[i] /\ name[i].ends = (i = L)
      BY <3>1, Spelled
    <3>3. SameName(nm, item)
      BY <1>1, <2>1, <3>2 DEF SameName, L
    <3> QED
      BY <1>2, <1>3, <2>1, <3>2, <3>3
  <2> QED
    BY <2>5, <2>6
<1> QED
  BY <1>4, <1>5

-----------------------------------------------------------------------------
(* The walk from step to step. *)

LEMMA OnPathFacts ==
  ASSUME OnPath
  PROVE  /\ asked \in Existing /\ asked \in Objects
         /\ Len(path) \in Nat \ {0} /\ Head(path) = path[1]
         /\ Turn \in 1..Len(PathOf[asked]) /\ Turn \in Nat
         /\ Turn = Len(PathOf[asked]) <=> Len(path) = 1
         /\ path[1] = PathOf[asked][Turn] /\ Unmistakable(path[1])
         /\ Where \in DOMAIN Dirs /\ Where = Via(asked)[Turn]
<1>1. /\ asked \in Existing
      /\ path \in Seq(Range(PathOf[asked])) /\ Len(path) \in 1..Len(PathOf[asked])
      /\ \A i \in 1..Len(path) : path[i] = PathOf[asked][Turn + i - 1]
  BY DEF OnPath
<1>2. /\ asked \in Objects /\ Len(PathOf[asked]) \in Nat \ {0}
      /\ \A i \in 1..Len(PathOf[asked]) : Unmistakable(PathOf[asked][i])
      /\ Via(asked) \in [1..Len(PathOf[asked]) -> DOMAIN Dirs]
  BY <1>1, RouteFacts
<1>3. Len(path) \in Nat \ {0} /\ path # << >>
  BY <1>1, <1>2
<1>4. Head(path) = path[1]
  BY <1>1, <1>3
<1>5. /\ Turn \in 1..Len(PathOf[asked]) /\ Turn \in Nat
      /\ Turn = Len(PathOf[asked]) <=> Len(path) = 1
      /\ Turn + 1 - 1 = Turn /\ 1 \in 1..Len(path)
  <2>1. PICK N \in Nat \ {0} : N = Len(PathOf[asked])
    BY <1>2
  <2>2. PICK l \in 1..N : l = Len(path)
    BY <1>1, <2>1
  <2>3. Turn = N - l + 1
    BY <2>1, <2>2 DEF Turn
  <2>4. Turn \in 1..N /\ Turn \in Nat /\ (Turn = N <=> l = 1) /\ Turn + 1 - 1 = Turn
    BY <2>3
  <2> QED
    BY <2>1, <2>2, <2>4
<1>6. path[1] = PathOf[asked][Turn]
  <2>1. path[1] = PathOf[asked][Turn + 1 - 1]
    BY <1>1, <1>5, Zenon
  <2> QED
    BY <1>5, <2>1, Zenon
<1>7. Unmistakable(path[1])
  BY <1>2, <1>5, <1>6, Zenon
<1>8. Where \in DOMAIN Dirs /\ Where = Via(asked)[Turn]
  BY <1>2, <1>5 DEF Where
<1> QED
  BY <1>1, <1>2, <1>3, <1>4, <1>5, <1>6, <1>7, <1>8

LEMMA SamePlace ==
  ASSUME UNCHANGED <<path, asked>>
  PROVE  (OnPath <=> OnPath') /\ Turn' = Turn /\ Where' = Where
<1>1. Turn' = Turn
  BY DEF Turn
<1>2. Where' = Where
  BY <1>1 DEF Where
<1> QED
  BY <1>1, <1>2 DEF OnPath

(* Inodes come and none goes or changes. *)
NoneLost == \A b \in DOMAIN inodes : b \in DOMAIN inodes' /\ inodes'[b] = inodes[b]

LEMMA KeptDirNode ==
  ASSUME UNCHANGED layout, NoneLost, NEW b, NEW d, DirNode(b, d)
  PROVE  b \in DOMAIN inodes' \ {NULL} /\ inodes'[b] = NodeOf(FirstCluster(d), TRUE, 0)'
<1>1. FirstCluster(d)' = FirstCluster(d)
  BY DEF FirstCluster
<1> QED
  BY <1>1 DEF DirNode, NoneLost, NodeOf

LEMMA KeptOutcome ==
  ASSUME UNCHANGED <<layout, path, asked, cwd, result>>, NoneLost, NEW d, NEW j, Outcome(d, j)
  PROVE  Outcome(d, j)'
<1>1. Turn' = Turn
  BY SamePlace
<1>2. CASE \E k \in 1..j : Entitled(d, k, path[1])
  <2>1. PICK k \in 1..j : /\ Entitled(d, k, path[1])
                          /\ inodes[result] = NodeOf(EntCluster(Dirs[d][k]), Dirs[d][k].dir,
                                                     EntSize(Dirs[d][k]))
    BY <1>2 DEF Outcome
  <2>2. result \in DOMAIN inodes \ {NULL}
    BY <1>2 DEF Outcome
  <2>3. result' \in DOMAIN inodes' \ {NULL} /\ inodes'[result'] = inodes[result]
    BY <2>2 DEF NoneLost
  <2>4. EntCluster(Dirs[d][k])' = EntCluster(Dirs[d][k])
    BY DEF EntCluster, FirstCluster
  <2>5. /\ Entitled(d, k, path'[1])
        /\ inodes'[result'] = NodeOf(EntCluster(Dirs[d][k])', Dirs[d][k].dir, EntSize(Dirs[d][k]))
    BY <2>1, <2>3, <2>4
  <2> QED
    BY <2>3, <2>5 DEF Outcome
<1>3. CASE ~(\E k \in 1..j : Entitled(d, k, path[1]))
  BY <1>1, <1>3 DEF Outcome
<1> QED
  BY <1>2, <1>3

LEMMA KeptScanned ==
  ASSUME UNCHANGED <<layout, path, asked, cwd, result, name, valid_classic_entry>>, NoneLost,
         NEW d, NEW j, Scanned(d, j)
  PROVE  Scanned(d, j)'
<1>1. Outcome(d, j)'
  BY KeptOutcome DEF Scanned
<1>2. Spelling(d, j)'
  BY DEF Scanned, Spelling
<1> QED
  BY <1>1, <1>2 DEF Scanned

(* A step that leaves the walk alone, or has nothing to do with one. *)
LEMMA Walks_Kept ==
  ASSUME Walks,
         UNCHANGED <<layout, path, asked, cwd, result, inodes, name, valid_classic_entry, dir_ent,
                     cluster_num, cont, root_inode>>,
         at' = at \/ {at, at'} \subseteq {"next", "fill"},
         at = "entry" => buf'["dir"] = buf["dir"]
  PROVE  Walks'
<1>1. Searching' <=> Searching
  BY DEF Searching
<1>2. NoneLost
  BY DEF NoneLost
<1>3. root_inode' # NULL => DirNode(root_inode, Root)'
  BY DEF Walks, DirNode, NodeOf, FirstCluster
<1>4. PathsResolve'
  BY DEF Walks, PathsResolve, FirstCluster
<1>5. ASSUME Searching PROVE OnPath' /\ DirNode(cwd, Where)' /\ Scanning(Where)'
  <2>1. PICK d : d = Where
    OBVIOUS
  <2>2. OnPath /\ DirNode(cwd, d) /\ Scanning(d)
    BY <1>5, <2>1 DEF Walks
  <2>3. OnPath' /\ Where' = d /\ Turn' = Turn
    BY <2>1, <2>2, SamePlace
  <2>4. DirNode(cwd, Where)'
    BY <2>2, <2>3 DEF DirNode, NodeOf, FirstCluster
  <2>5. \A j : Scanned(d, j) => Scanned(d, j)'
    BY <1>2, KeptScanned
  <2>6. \A n : ClusterAt(d, n)' = ClusterAt(d, n)
    BY DEF ClusterAt, EOC
  <2>7. \A j : Outcome(d, j) => Outcome(d, j)'
    BY <1>2, KeptOutcome
  <2>8. Scanning(d)'
    BY <2>2, <2>3, <2>5, <2>6, <2>7 DEF Scanning, Upto, cluster_to_sector
  <2> QED
    BY <2>3, <2>4, <2>8
<1> QED
  BY <1>1, <1>3, <1>4, <1>5 DEF Walks

LEMMA Walks_Aside ==
  ASSUME Walks, UNCHANGED <<layout, root_inode>>, NoneLost, ~Searching', at' # "walked"
  PROVE  Walks'
<1>1. root_inode' # NULL => DirNode(root_inode, Root)'
  <2>1. ASSUME root_inode' # NULL PROVE DirNode(root_inode, Root)'
    <3>1. PICK r : r = root_inode
      OBVIOUS
    <3>2. DirNode(r, Root)
      BY <2>1, <3>1 DEF Walks
    <3>3. r \in DOMAIN inodes' \ {NULL} /\ inodes'[r] = NodeOf(FirstCluster(Root), TRUE, 0)'
      BY <3>2, KeptDirNode
    <3> QED
      BY <3>1, <3>3 DEF DirNode
  <2> QED
    BY <2>1
<1> QED
  BY <1>1 DEF Walks, PathsResolve

LEMMA FirstOfDir ==
  ASSUME layout \in Layouts, NEW d \in DOMAIN Dirs
  PROVE  /\ FirstCluster(d) = ClusterAt(d, 0) /\ 0 \in 0..Len(layout[d])
         /\ \A n \in 0..Len(layout[d]) :
               /\ ClusterAt(d, n) < TABLE_VAL_MAX => n \in 0..(Len(layout[d]) - 1)
               /\ ~(ClusterAt(d, n) < TABLE_VAL_MAX) => n = Len(layout[d])
<1>1. d \in Objects /\ layout[d] # << >> /\ Len(layout[d]) \in Nat \ {0}
  BY DirFacts
<1>2. FirstCluster(d) = ClusterAt(d, 0)
  BY <1>1 DEF FirstCluster, ClusterAt
<1>3. ASSUME NEW n \in 0..Len(layout[d])
      PROVE  /\ ClusterAt(d, n) < TABLE_VAL_MAX => n \in 0..(Len(layout[d]) - 1)
             /\ ~(ClusterAt(d, n) < TABLE_VAL_MAX) => n = Len(layout[d])
  <2>1. CASE n < Len(layout[d])
    <3>1. n + 1 \in 1..Len(layout[d]) /\ n \in 0..(Len(layout[d]) - 1)
      BY <1>1, <1>3, <2>1
    <3>2. ClusterAt(d, n) \in Clusters
      BY <1>1, <2>1, <3>1, LayoutFacts DEF ClusterAt
    <3>3. ClusterAt(d, n) \in 2..(TABLE_VAL_MAX - 1)
      BY <3>2, ClusterFacts
    <3>4. ClusterAt(d, n) < TABLE_VAL_MAX
      BY <3>3, Geometry
    <3> QED
      BY <3>1, <3>4
  <2>2. CASE ~(n < Len(layout[d]))
    <3>1. ClusterAt(d, n) = EOC
      BY <2>2 DEF ClusterAt
    <3>2. ~(EOC < TABLE_VAL_MAX)
      BY Geometry
    <3>3. n = Len(layout[d])
      BY <1>1, <1>3, <2>2
    <3> QED
      BY <3>1, <3>2, <3>3
  <2> QED
    BY <2>1, <2>2
<1>4. 0 \in 0..Len(layout[d])
  BY <1>1
<1> QED
  BY <1>2, <1>3, <1>4

LEMMA Walks_FAT_detect ==
  ASSUME Blocks, Walks, FAT_detect
  PROVE  Walks'
<1> DEFINE m == FAT_init_inode(FirstCluster(Root), TRUE, 0)
<1>1. /\ UNCHANGED <<layout, cont>> /\ at = "detected" /\ at' \in {"ready", "detect"}
      /\ \/ inodes' = m.inodes /\ root_inode' = m.inode
         \/ UNCHANGED <<inodes, root_inode>>
  BY DEF FAT_detect, Back, disk
<1>2. ~Searching' /\ at' # "walked"
  BY <1>1 DEF Searching, Blocks, Points
<1>3. Made(m, FirstCluster(Root), TRUE, 0)
  BY NewInode
<1> HIDE DEF m
<1>4. CASE inodes' = m.inodes /\ root_inode' = m.inode
  <2>1. /\ DOMAIN inodes' = DOMAIN inodes \cup {root_inode'} /\ root_inode' # NULL
        /\ inodes'[root_inode'] = [st_ino |-> FirstCluster(Root), dir |-> TRUE, st_size |-> 0]
    BY <1>3, <1>4 DEF Made
  <2>2. FirstCluster(Root)' = FirstCluster(Root)
    BY <1>1 DEF FirstCluster
  <2>3. DirNode(root_inode, Root)'
    BY <2>1, <2>2 DEF DirNode, NodeOf
  <2> QED
    BY <1>2, <2>3 DEF Walks, PathsResolve
<1>5. CASE UNCHANGED <<inodes, root_inode>>
  <2>1. NoneLost
    BY <1>5 DEF NoneLost
  <2> QED
    BY <1>1, <1>2, <1>5, <2>1, Walks_Aside
<1> QED
  BY <1>1, <1>4, <1>5

LEMMA Walks_FS_inode_for_path ==
  ASSUME Blocks, DInv, Walks, NEW o \in Existing, FS_inode_for_path(o)
  PROVE  Walks'
<1>1. /\ UNCHANGED <<layout, inodes, root_inode, cont>> /\ at = "ready" /\ at' = "walk"
      /\ asked' = o /\ path' = PathOf[o] /\ cwd' = root_inode
  BY DEF FS_inode_for_path, Called, At, disk, mount
<1>2. root_inode # NULL /\ cont = "none"
  BY <1>1 DEF DInv, Devices, Mounting, Blocks, Points
<1>3. /\ PathOf[o] \in Seq(Range(PathOf[o])) /\ Len(PathOf[o]) \in Nat \ {0}
      /\ LeadsTo(PathOf[o], Via(o), o)
  BY RouteFacts
<1>4. Turn' = 1
  BY <1>1, <1>3 DEF Turn
<1>5. Where' = Root
  <2>1. Via(o)[1] = Root
    BY <1>3 DEF LeadsTo
  <2> QED
    BY <1>1, <1>4, <2>1 DEF Where, Via
<1>6. OnPath'
  <2>1. \A i \in 1..Len(PathOf[o]) : 1 + i - 1 = i
    BY <1>3
  <2>2. \A i \in 1..Len(path') : path'[i] = PathOf[asked'][Turn' + i - 1]
    BY <1>1, <1>4, <2>1
  <2>3. Len(path') \in 1..Len(PathOf[asked'])
    BY <1>1, <1>3
  <2> QED
    BY <1>1, <1>3, <2>2, <2>3 DEF OnPath
<1>7. DirNode(root_inode, Root) /\ DirNode(root_inode, Root)'
  BY <1>1, <1>2 DEF Walks, DirNode, NodeOf, FirstCluster
<1>8. DirNode(cwd, Where)'
  BY <1>1, <1>5, <1>7 DEF DirNode
<1>9. Scanning(Where)'
  BY <1>1, <1>2, <1>4 DEF Scanning
<1> QED
  BY <1>1, <1>6, <1>7, <1>8, <1>9 DEF Walks, PathsResolve

(* What is known of a walk in directory d at any of its points, and what   *)
(* is to be shown of the next one.                                         *)
LEMMA InWalk ==
  ASSUME Blocks, DInv, Walks, Searching, NEW d, d = Where
  PROVE  /\ OnPath /\ d \in DOMAIN Dirs /\ DirNode(cwd, d) /\ Scanning(d)
         /\ layout \in Layouts /\ Unmistakable(path[1]) /\ Head(path) = path[1]
BY OnPathFacts DEF Walks, DInv, Chains

LEMMA StillInDir ==
  ASSUME Blocks, DInv, Walks, Searching, NEW d, d = Where,
         UNCHANGED <<layout, path, asked, cwd, root_inode>>, NoneLost, at' # "walked",
         Scanning(d)'
  PROVE  Walks'
<1>1. OnPath' /\ Where' = d
  BY InWalk, SamePlace
<1>2. PICK c, r : c = cwd /\ r = root_inode
  OBVIOUS
<1>3. DirNode(c, d)
  BY <1>2, InWalk
<1>4. c \in DOMAIN inodes' \ {NULL} /\ inodes'[c] = NodeOf(FirstCluster(d), TRUE, 0)'
  BY <1>3, KeptDirNode
<1>5. DirNode(cwd, Where)'
  BY <1>1, <1>2, <1>4 DEF DirNode, NodeOf, FirstCluster
<1>6. ASSUME root_inode' # NULL PROVE DirNode(root_inode, Root)'
  <2>1. DirNode(r, Root)
    BY <1>2, <1>6 DEF Walks
  <2>2. r \in DOMAIN inodes' \ {NULL} /\ inodes'[r] = NodeOf(FirstCluster(Root), TRUE, 0)'
    BY <2>1, KeptDirNode
  <2> QED
    BY <1>2, <2>2 DEF DirNode
<1>7. Scanning(Where)'
  BY <1>1
<1> QED
  BY <1>1, <1>5, <1>6, <1>7 DEF Walks, PathsResolve

LEMMA Walks_FAT_readdir_begin ==
  ASSUME Blocks, DInv, Walks, FAT_readdir_begin
  PROVE  Walks'
<1>1. at = "walk" /\ Searching /\ cont = "none"
  BY DEF FAT_readdir_begin, At, Searching, Blocks, Points
<1>2. PICK d : d = Where
  OBVIOUS
<1>3. /\ d \in DOMAIN Dirs /\ layout \in Layouts /\ DirNode(cwd, d) /\ Scanning(d)
  BY <1>1, <1>2, InWalk
<1>4. inodes[cwd].dir = TRUE /\ inodes[cwd].st_ino = FirstCluster(d)
  BY <1>3 DEF DirNode, NodeOf
<1>5. /\ UNCHANGED <<layout, path, asked, cwd, result, inodes, root_inode, cont>>
      /\ cluster_num' = inodes[cwd].st_ino
      /\ name' = Blank /\ valid_classic_entry' = TRUE /\ at' = "dir"
  BY <1>4 DEF FAT_readdir_begin, disk, mount
<1>6. NoneLost
  BY <1>5 DEF NoneLost
<1>7. Spelling(d, 0)'
  BY <1>5 DEF Spelling, Blank
<1>8. Outcome(d, 0)'
  <2>1. Turn' = Turn
    BY <1>5, SamePlace
  <2>2. Turn > 1 => result = cwd
    BY <1>1, <1>3 DEF Scanning
  <2> QED
    BY <1>5, <2>1, <2>2 DEF Outcome
<1>9. Scanned(d, 0)'
  BY <1>3, <1>7, <1>8, DirFacts DEF Scanned
<1>10. 0 \in 0..Len(layout[d]) /\ FirstCluster(d) = ClusterAt(d, 0) /\ Upto(d, 0) = 0
  BY <1>3, FirstOfDir, UptoFacts
<1>11. ClusterAt(d, 0)' = ClusterAt(d, 0)
  BY <1>5 DEF ClusterAt, EOC
<1>12. Scanning(d)'
  <2>1. cluster_num' = ClusterAt(d, 0)' /\ 0 \in 0..Len(layout'[d])
    BY <1>4, <1>5, <1>10, <1>11
  <2>2. Scanned(d, Upto(d, 0))'
    BY <1>9, <1>10 DEF Upto
  <2>3. at' = "dir" /\ cont' = "none"
    BY <1>1, <1>5
  <2> QED
    BY <2>1, <2>2, <2>3 DEF Scanning
<1> QED
  BY <1>1, <1>2, <1>5, <1>6, <1>12, StillInDir

LEMMA Walks_FAT_readdir_cluster ==
  ASSUME Blocks, DInv, Walks, FAT_readdir_cluster
  PROVE  Walks'
<1>1. /\ UNCHANGED <<layout, path, asked, cwd, result, inodes, root_inode, cont, name,
                     valid_classic_entry>>
      /\ at = "dir"
      /\ \/ cluster_num < TABLE_VAL_MAX /\ at' = "scan" /\ UNCHANGED cluster_num
         \/ ~(cluster_num < TABLE_VAL_MAX) /\ at' = "walk_next"
  BY DEF FAT_readdir_cluster, At, disk, mount, walk
<1>2. Searching /\ cont = "none" /\ NoneLost
  BY <1>1 DEF Searching, Blocks, Points, NoneLost
<1>3. PICK d : d = Where
  OBVIOUS
<1>4. /\ d \in DOMAIN Dirs /\ layout \in Layouts /\ Scanning(d)
  BY <1>2, <1>3, InWalk
<1>5. PICK n \in 0..Len(layout[d]) : cluster_num = ClusterAt(d, n) /\ Scanned(d, Upto(d, n))
  BY <1>1, <1>4 DEF Scanning
<1>6. PICK j : j = Upto(d, n)
  OBVIOUS
<1>7. Scanned(d, j)'
  BY <1>1, <1>2, <1>5, <1>6, KeptScanned
<1>8. /\ cluster_num < TABLE_VAL_MAX => n \in 0..(Len(layout[d]) - 1)
      /\ ~(cluster_num < TABLE_VAL_MAX) => n = Len(layout[d])
  BY <1>4, <1>5, FirstOfDir
<1>9. CASE at' = "scan"
  <2>1. n \in 0..(Len(layout'[d]) - 1) /\ UNCHANGED cluster_num /\ cont' = "none"
    BY <1>1, <1>2, <1>8, <1>9
  <2>2. cluster_num' = ClusterAt(d, n)'
    BY <1>1, <1>5, <2>1 DEF ClusterAt, EOC
  <2>3. Scanned(d, Upto(d, n))'
    BY <1>6, <1>7 DEF Upto
  <2>4. Scanning(d)'
    BY <1>9, <2>1, <2>2, <2>3 DEF Scanning
  <2> QED
    BY <1>1, <1>2, <1>3, <1>9, <2>4, StillInDir
<1>10. CASE at' = "walk_next"
  <2>1. n = Len(layout[d]) /\ cont' = "none"
    BY <1>1, <1>2, <1>8, <1>10
  <2>2. j = Len(Dirs[d])
    BY <1>4, <1>6, <2>1, UptoFacts, DirFacts
  <2>3. Outcome(d, Len(Dirs[d]))'
    BY <1>7, <2>2 DEF Scanned
  <2>4. Scanning(d)'
    BY <1>10, <2>1, <2>3 DEF Scanning
  <2> QED
    BY <1>1, <1>2, <1>3, <1>10, <2>4, StillInDir
<1> QED
  BY <1>1, <1>9, <1>10

LEMMA Walks_FAT_readdir_scan ==
  ASSUME Blocks, DInv, Walks, FAT_readdir_scan
  PROVE  Walks'
<1>1. /\ UNCHANGED <<layout, path, asked, cwd, result, inodes, root_inode, cont, name,
                     valid_classic_entry, cluster_num, buf>>
      /\ at = "scan" /\ rd.pc = "back" /\ at' = "entry" /\ dir_ent' = 1
  BY DEF FAT_readdir_scan, Back, disk, mount, walk
<1>2. Searching /\ cont = "none" /\ NoneLost
  BY <1>1 DEF Searching, Blocks, Points, NoneLost
<1>3. PICK d : d = Where
  OBVIOUS
<1>4. /\ d \in DOMAIN Dirs /\ layout \in Layouts /\ Scanning(d)
  BY <1>2, <1>3, InWalk
<1>5. PICK n \in 0..(Len(layout[d]) - 1) :
         cluster_num = ClusterAt(d, n) /\ Scanned(d, Upto(d, n))
  BY <1>1, <1>4 DEF Scanning
<1>6. buf["dir"] = PartStart + cluster_to_sector(cluster_num)
  BY <1>1 DEF DInv, Transfer, Target, Dest
<1>7. PICK j : j = Upto(d, n)
  OBVIOUS
<1>8. n \in Nat /\ Upto(d, n) \in Nat /\ Upto(d, n) <= Upto(d, n + 1) /\ Upto(d, n + 1) \in Nat
  <2>1. n \in Nat
    BY <1>4, <1>5, DirFacts
  <2> QED
    BY <1>4, <2>1, UptoFacts
<1>9. Scanned(d, j)'
  BY <1>1, <1>2, <1>5, <1>7, KeptScanned
<1>10. Scanning(d)'
  <2>1. cluster_num' = ClusterAt(d, n)' /\ n \in 0..(Len(layout'[d]) - 1) /\ cont' = "none"
    BY <1>1, <1>2, <1>5 DEF ClusterAt, EOC
  <2>2. buf'["dir"] = PartStart + cluster_to_sector(cluster_num)'
    BY <1>1, <1>6 DEF cluster_to_sector
  <2>3. j + dir_ent' - 1 = j /\ j <= Upto(d, n + 1)
    BY <1>1, <1>7, <1>8
  <2>4. Upto(d, n)' = j /\ Upto(d, n + 1)' = Upto(d, n + 1)
    BY <1>7 DEF Upto
  <2>5. Upto(d, n)' + dir_ent' - 1 = j
    BY <2>3, <2>4
  <2>6. Scanned(d, Upto(d, n) + dir_ent - 1)'
    BY <1>9, <2>5
  <2> QED
    BY <1>1, <2>1, <2>2, <2>3, <2>4, <2>5, <2>6 DEF Scanning
<1> QED
  BY <1>1, <1>2, <1>3, <1>10, StillInDir

LEMMA Walks_get_next_cluster_num ==
  ASSUME Blocks, DInv, Walks, get_next_cluster_num
  PROVE  Walks'
<1>1. /\ UNCHANGED <<layout, path, asked, cwd, result, inodes, root_inode, name,
                     valid_classic_entry>>
      /\ at = "next" /\ rd.pc = "idle" /\ at' = cont /\ cont' = "none"
      /\ cached_sector = fat_sector /\ cluster_num' = next_cluster
  BY DEF get_next_cluster_num, At, disk, mount, walk, dir
<1>2. cont \in {"dir", "seek", "file"} /\ NoneLost
  BY <1>1 DEF Blocks, Points, NoneLost
<1>3. CASE cont # "dir"
  <2>1. ~Searching' /\ at' # "walked"
    BY <1>1, <1>2, <1>3 DEF Searching
  <2> QED
    BY <1>1, <1>2, <2>1, Walks_Aside
<1>4. CASE cont = "dir"
  <2>1. Searching
    BY <1>4 DEF Searching
  <2>2. PICK d : d = Where
    OBVIOUS
  <2>3. /\ d \in DOMAIN Dirs /\ layout \in Layouts /\ Scanning(d)
    BY <2>1, <2>2, InWalk
  <2>4. PICK n \in 0..(Len(layout[d]) - 1) :
           cluster_num = ClusterAt(d, n) /\ Scanned(d, Upto(d, n + 1))
    BY <1>4, <2>3 DEF Scanning
  <2>5. cluster_num \in Clusters \cup {0}
    BY <1>1 DEF DInv, Chains
  <2>6. buf["fat"] = PartStart + fat_sector
    <3>1. fat_sector # 0
      BY <2>3, <2>5, SectorFacts DEF fat_sector
    <3> QED
      BY <1>1, <3>1 DEF DInv, CacheCoherent
  <2>7. next_cluster = FatValue(cluster_num)
    BY <2>3, <2>5, <2>6, NextFacts
  <2>8. d \in Objects /\ Len(layout[d]) \in Nat
    BY <2>3, DirFacts
  <2>9. n \in Nat /\ n < Len(layout[d]) /\ n + 1 \in 0..Len(layout[d])
    BY <2>4, <2>8
  <2>10. cluster_num' = ClusterAt(d, n + 1)
    BY <1>1, <2>3, <2>4, <2>7, <2>8, <2>9, ChainNext
  <2>11. PICK j : j = Upto(d, n + 1)
    OBVIOUS
  <2>12. Scanned(d, j)'
    BY <1>1, <1>2, <2>4, <2>11, KeptScanned
  <2>13. Scanning(d)'
    <3>1. cluster_num' = ClusterAt(d, n + 1)' /\ n + 1 \in 0..Len(layout'[d])
      BY <1>1, <2>9, <2>10 DEF ClusterAt, EOC
    <3>2. Scanned(d, Upto(d, n + 1))'
      BY <2>11, <2>12 DEF Upto
    <3>3. at' = "dir" /\ cont' = "none"
      BY <1>1, <1>4
    <3> QED
      BY <3>1, <3>2, <3>3 DEF Scanning
  <2>14. at' # "walked"
    BY <1>1, <1>4
  <2> QED
    BY <1>1, <1>2, <2>1, <2>2, <2>13, <2>14, StillInDir
<1> QED
  BY <1>3, <1>4

(* A directory scanned to its end has shown what the path item names. *)
LEMMA ScanFinds ==
  ASSUME Blocks, DInv, Walks, at = "walk_next", NEW d, d = Where,
         NEW o \in Objects, CalledBy(d, path[1]) = {o}
  PROVE  /\ result \in DOMAIN inodes \ {NULL}
         /\ inodes[result] = NodeOf(FirstCluster(o), o \in DOMAIN Dirs, Sizes[o])
<1>1. Searching
  BY DEF Searching
<1>2. d \in DOMAIN Dirs /\ layout \in Layouts /\ Scanning(d)
  BY <1>1, InWalk
<1>3. Outcome(d, Len(Dirs[d]))
  BY <1>2 DEF Scanning
<1>4. \E k \in 1..Len(Dirs[d]) : Entitled(d, k, path[1])
  BY DEF CalledBy
<1>5. result \in DOMAIN inodes \ {NULL}
  BY <1>3, <1>4 DEF Outcome
<1>6. PICK k \in 1..Len(Dirs[d]) :
         /\ Entitled(d, k, path[1])
         /\ inodes[result] = NodeOf(EntCluster(Dirs[d][k]), Dirs[d][k].dir, EntSize(Dirs[d][k]))
  BY <1>3, <1>4 DEF Outcome
<1>7. Dirs[d][k].object = o
  <2>1. Dirs[d][k].object \in CalledBy(d, path[1])
    BY <1>6 DEF CalledBy
  <2> QED
    BY <2>1
<1>8. ~Dirs[d][k].lfn
  BY <1>6 DEF Entitled, LongName
<1>9. Dirs[d][k].dir = (o \in DOMAIN Dirs)
  BY <1>2, <1>7, <1>8, DirFacts DEF WellFormed
<1>10. o # NULL
  BY DirsAssumption
<1>11. EntCluster(Dirs[d][k]) = FirstCluster(o) /\ EntSize(Dirs[d][k]) = Sizes[o]
  BY <1>7, <1>10 DEF EntCluster, EntSize
<1> QED
  BY <1>5, <1>6, <1>9, <1>11

(* The first items of a path are found. *)
LEMMA NextDir ==
  ASSUME Blocks, DInv, Walks, at = "walk_next", Len(path) # 1, NEW v, v = Via(asked)[Turn + 1]
  PROVE  /\ Turn + 1 \in 1..Len(PathOf[asked]) /\ v \in DOMAIN Dirs
         /\ DirNode(result, v)
<1>1. PICK d : d = Where
  OBVIOUS
<1>2. OnPath
  BY InWalk DEF Searching
<1>3. /\ asked \in Existing /\ Turn \in 1..Len(PathOf[asked]) /\ Turn \in Nat
      /\ Turn # Len(PathOf[asked])
      /\ path[1] = PathOf[asked][Turn] /\ d = Via(asked)[Turn]
  BY <1>1, <1>2, OnPathFacts
<1>4. /\ Len(PathOf[asked]) \in Nat
      /\ Via(asked) \in [1..Len(PathOf[asked]) -> DOMAIN Dirs]
      /\ LeadsTo(PathOf[asked], Via(asked), asked)
  BY <1>3, RouteFacts
<1>5. Turn \in 1..(Len(PathOf[asked]) - 1) /\ Turn + 1 \in 1..Len(PathOf[asked])
  BY <1>3, <1>4
<1>6. CalledBy(d, path[1]) = {v}
  BY <1>3, <1>4, <1>5, Zenon DEF LeadsTo
<1>7. v \in DOMAIN Dirs
  BY <1>4, <1>5
<1>8. v \in Objects /\ Sizes[v] = 0
  BY <1>7, DirFacts DEF DInv, Chains
<1>9. /\ result \in DOMAIN inodes \ {NULL}
      /\ inodes[result] = NodeOf(FirstCluster(v), v \in DOMAIN Dirs, Sizes[v])
  BY <1>1, <1>6, <1>8, ScanFinds
<1>10. (v \in DOMAIN Dirs) = TRUE
  BY <1>7
<1>11. inodes[result] = NodeOf(FirstCluster(v), TRUE, 0)
  BY <1>8, <1>9, <1>10
<1> QED
  BY <1>5, <1>7, <1>9, <1>11 DEF DirNode

LEMMA Walks_walk_next ==
  ASSUME Blocks, DInv, Walks, walk_next
  PROVE  Walks'
<1>1. /\ UNCHANGED <<layout, inodes, root_inode, cont, result, asked>> /\ at = "walk_next"
      /\ \/ /\ result = NULL \/ Len(path) = 1
            /\ at' = "walked" /\ UNCHANGED <<cwd, path>>
         \/ /\ result # NULL /\ Len(path) # 1 /\ cwd' = result /\ path' = Tail(path)
            /\ at' = IF result \in DOMAIN inodes THEN "walk" ELSE "wild"
  BY DEF walk_next, At, disk, mount
<1>2. Searching /\ cont = "none" /\ cont' = "none" /\ NoneLost
  BY <1>1 DEF Searching, Blocks, Points, NoneLost
<1>3. PICK d : d = Where
  OBVIOUS
<1>4. OnPath /\ d \in DOMAIN Dirs /\ layout \in Layouts /\ DirNode(cwd, d) /\ Scanning(d)
  BY <1>2, <1>3, InWalk
<1>5. /\ asked \in Existing /\ asked \in Objects /\ Turn \in Nat
      /\ Turn = Len(PathOf[asked]) <=> Len(path) = 1
      /\ path[1] = PathOf[asked][Turn] /\ d = Via(asked)[Turn]
      /\ Len(path) \in Nat \ {0}
  BY <1>3, <1>4, OnPathFacts
<1>6. root_inode' # NULL => DirNode(root_inode, Root)'
  BY <1>1 DEF Walks, DirNode, NodeOf, FirstCluster
<1>7. /\ PathOf[asked] \in Seq(Range(PathOf[asked])) /\ Len(PathOf[asked]) \in Nat \ {0}
      /\ LeadsTo(PathOf[asked], Via(asked), asked)
  BY <1>5, RouteFacts
<1>8. CASE at' = "walked"
  <2>1. Len(path) = 1
    BY <1>1, <1>8, NextDir DEF DirNode
  <2>2. Turn = Len(PathOf[asked])
    BY <1>5, <2>1
  <2>3. CalledBy(d, path[1]) = {asked}
    BY <1>5, <1>7, <2>2, Zenon DEF LeadsTo
  <2>4. /\ inodes[result].st_size = Sizes[asked]
        /\ Sizes[asked] > 0 => inodes[result].st_ino = FirstCluster(asked)
    <3>1. PICK o \in Objects : o = asked
      BY <1>5
    <3>2. inodes[result] = NodeOf(FirstCluster(o), o \in DOMAIN Dirs, Sizes[o])
      BY <1>1, <1>3, <2>3, <3>1, ScanFinds
    <3> QED
      BY <3>1, <3>2 DEF NodeOf
  <2>5. PICK a : a = asked
    OBVIOUS
  <2>6. FirstCluster(a)' = FirstCluster(a)
    BY <1>1 DEF FirstCluster
  <2>7. PathsResolve'
    BY <1>1, <2>4, <2>5, <2>6 DEF PathsResolve
  <2>8. ~Searching'
    BY <1>2, <1>8 DEF Searching
  <2> QED
    BY <1>6, <2>7, <2>8 DEF Walks
<1>9. CASE at' = "walk"
  <2>1. result # NULL /\ Len(path) # 1 /\ cwd' = result /\ path' = Tail(path)
    BY <1>1, <1>9
  <2>2. PICK v : v = Via(asked)[Turn + 1]
    OBVIOUS
  <2>3. Turn + 1 \in 1..Len(PathOf[asked]) /\ v \in DOMAIN Dirs /\ DirNode(result, v)
    BY <1>1, <2>1, <2>2, NextDir
  <2>4. /\ path \in Seq(Range(PathOf[asked])) /\ Len(path) \in 1..Len(PathOf[asked])
        /\ \A i \in 1..Len(path) : path[i] = PathOf[asked][Turn + i - 1]
    BY <1>4 DEF OnPath
  <2>5. path # << >>
    BY <1>5
  <2>6. /\ path' \in Seq(Range(PathOf[asked])) /\ Len(path') = Len(path) - 1
        /\ \A i \in 1..Len(path') : path'[i] = path[i + 1]
    BY <2>1, <2>4, <2>5, HeadTailProperties
  <2>7. Turn' = Turn + 1
    <3>1. Turn = Len(PathOf[asked]) - Len(path) + 1 /\ Turn' = Len(PathOf[asked]) - Len(path') + 1
      BY <1>1 DEF Turn
    <3> QED
      BY <1>5, <1>7, <2>6, <3>1
  <2>8. Where' = v
    BY <1>1, <2>2, <2>7 DEF Where, Via
  <2>9. \A i \in 1..Len(path') : path'[i] = PathOf[asked][Turn' + i - 1]
    <3> SUFFICES ASSUME NEW i \in 1..Len(path')
                 PROVE  path'[i] = PathOf[asked][Turn' + i - 1]
      OBVIOUS
    <3>1. i + 1 \in 1..Len(path) /\ Turn + (i + 1) - 1 = Turn + 1 + i - 1
      BY <1>5, <2>6
    <3>2. path'[i] = path[i + 1] /\ path[i + 1] = PathOf[asked][Turn + (i + 1) - 1]
      BY <2>4, <2>6, <3>1, Zenon
    <3> QED
      BY <2>7, <3>1, <3>2, Zenon
  <2>10. Len(path') \in 1..Len(PathOf[asked])
    BY <1>5, <1>7, <2>1, <2>4, <2>6
  <2>11. OnPath'
    BY <1>1, <1>5, <2>6, <2>9, <2>10 DEF OnPath
  <2>12. DirNode(cwd, Where)'
    BY <1>1, <2>1, <2>3, <2>8 DEF DirNode, NodeOf, FirstCluster
  <2>13. Scanning(Where)'
    BY <1>1, <1>2, <1>9, <2>1 DEF Scanning
  <2> QED
    BY <1>6, <1>9, <2>11, <2>12, <2>13 DEF Walks, PathsResolve
<1>10. at' # "wild"
  BY <1>1, NextDir DEF DirNode
<1> QED
  BY <1>1, <1>8, <1>9, <1>10

(* An entry that goes by another name does not change the outcome. *)
LEMMA PassedOver ==
  ASSUME NEW d, NEW j \in Nat, NEW k, k = j + 1, Outcome(d, j), ~Entitled(d, k, path[1])
  PROVE  Outcome(d, k)
<1>1. 1..k = (1..j) \cup {k} /\ 1..j \subseteq 1..k
  OBVIOUS
<1>2. (\E x \in 1..k : Entitled(d, x, path[1])) <=> (\E x \in 1..j : Entitled(d, x, path[1]))
  BY <1>1
<1> QED
  BY <1>1, <1>2 DEF Outcome

(* One directory entry. *)
LEMMA OneEntry ==
  ASSUME Blocks, DInv, FAT_readdir_entry, NEW d \in DOMAIN Dirs, NEW j \in Nat,
         NEW k \in 1..Len(Dirs[d]), k = j + 1, ~(dir_ent > Len(DirBlock(buf["dir"]))),
         NEW e, e = DirBlock(buf["dir"])[dir_ent], e = Dirs[d][k],
         Unmistakable(path[1]), Head(path) = path[1], Scanned(d, j)
  PROVE  /\ NoneLost
         /\ Scanned(d, k)'
<1> DEFINE m == FAT_init_inode(EntCluster(e), e.dir, EntSize(e))
<1>1. /\ UNCHANGED <<layout, path, asked, cwd>>
      /\ valid_classic_entry' = ~e.lfn
      /\ name' = IF e.lfn THEN get_long_dir_ent_name(e)
                 ELSE IF valid_classic_entry THEN get_dir_ent_name(e) ELSE name
      /\ IF e.lfn \/ name'[1].text \in Dotted
           THEN UNCHANGED <<heap, inodes, result>> ELSE path_cb(m)
  BY DEF FAT_readdir_entry, disk
<1>2. layout \in Layouts
  BY DEF DInv, Chains
<1>3. Spelling(d, j) /\ Outcome(d, j)
  BY DEF Scanned
<1>4. Spelling(d, k)'
  BY <1>1, <1>2, <1>3, SpelledOn
<1>5. Made(m, EntCluster(e), e.dir, EntSize(e))
  BY NewInode
<1>6. PICK nm : nm = name'
  OBVIOUS
<1>7. e.lfn => ~Entitled(d, k, path[1])
  BY DEF Entitled, LongName
<1>8. ~e.lfn => /\ SameName(nm, path[1]) <=> Entitled(d, k, path[1])
                /\ Entitled(d, k, path[1]) => nm[1].text \notin Dotted
  <2> SUFFICES ASSUME ~e.lfn
               PROVE  /\ SameName(nm, path[1]) <=> Entitled(d, k, path[1])
                      /\ Entitled(d, k, path[1]) => nm[1].text \notin Dotted
    OBVIOUS
  <2>1. nm = IF valid_classic_entry THEN get_dir_ent_name(e) ELSE name
    BY <1>1, <1>6
  <2>2. PICK item : item = path[1]
    OBVIOUS
  <2>3. /\ SameName(nm, item) <=> Entitled(d, k, item)
        /\ Entitled(d, k, item) => nm[1].text \notin Dotted
    BY <1>2, <1>3, <2>1, <2>2, NameTest
  <2> QED
    BY <2>2, <2>3
<1> HIDE DEF m
<1>9. CASE UNCHANGED <<inodes, result>> /\ ~Entitled(d, k, path[1])
  <2>1. NoneLost
    BY <1>9 DEF NoneLost
  <2>2. Outcome(d, k)
    BY <1>3, <1>9, PassedOver
  <2>3. Outcome(d, k)'
    BY <1>1, <1>9, <2>1, <2>2, KeptOutcome
  <2>4. k \in 0..Len(Dirs[d])
    OBVIOUS
  <2> QED
    BY <1>4, <2>1, <2>3, <2>4 DEF Scanned
<1>10. CASE inodes' = m.inodes /\ result' = m.inode /\ Entitled(d, k, path[1])
  <2>1. NoneLost /\ result' \in DOMAIN inodes' \ {NULL}
    BY <1>5, <1>10 DEF Made, NoneLost
  <2>2. EntCluster(e)' = EntCluster(e)
    BY <1>1 DEF EntCluster, FirstCluster
  <2>3. inodes'[result'] = NodeOf(EntCluster(e)', e.dir, EntSize(e))
    BY <1>5, <1>10, <2>2 DEF Made, NodeOf
  <2>4. k \in 1..k /\ k \in 0..Len(Dirs[d])
    OBVIOUS
  <2>5. Entitled(d, k, path'[1])
    BY <1>1, <1>10
  <2>6. Outcome(d, k)'
    BY <2>1, <2>3, <2>4, <2>5 DEF Outcome
  <2> QED
    BY <1>4, <2>1, <2>4, <2>6 DEF Scanned
<1>11. \/ UNCHANGED <<inodes, result>> /\ ~Entitled(d, k, path[1])
       \/ inodes' = m.inodes /\ result' = m.inode /\ Entitled(d, k, path[1])
  <2>1. CASE e.lfn
    BY <1>1, <1>7, <2>1
  <2>2. CASE ~e.lfn /\ nm[1].text \in Dotted
    BY <1>1, <1>6, <1>8, <2>2
  <2>3. CASE ~e.lfn /\ nm[1].text \notin Dotted
    <3>1. path_cb(m)
      BY <1>1, <1>6, <2>3
    <3>2. IF SameName(nm, path[1])
            THEN result' = m.inode /\ inodes' = m.inodes
            ELSE UNCHANGED <<result, inodes>>
      BY <1>6, <3>1 DEF path_cb
    <3> QED
      BY <1>8, <2>3, <3>2
  <2> QED
    BY <2>1, <2>2, <2>3
<1> QED
  BY <1>9, <1>10, <1>11

LEMMA Walks_FAT_readdir_entry ==
  ASSUME Blocks, DInv, Walks, FAT_readdir_entry
  PROVE  Walks'
<1>1. /\ UNCHANGED <<layout, path, asked, cwd, root_inode, cluster_num, buf>>
      /\ at = "entry"
      /\ IF dir_ent > Len(DirBlock(buf["dir"]))
           THEN /\ at' = "next" /\ cont' = "dir"
                /\ UNCHANGED <<inodes, name, valid_classic_entry, result>>
           ELSE UNCHANGED <<at, cont>> /\ dir_ent' = dir_ent + 1
  BY DEF FAT_readdir_entry, At, call, disk, mount
<1>2. Searching /\ cont = "none"
  BY <1>1 DEF Searching, Blocks, Points
<1>3. PICK d : d = Where
  OBVIOUS
<1>4. /\ d \in DOMAIN Dirs /\ layout \in Layouts /\ Scanning(d)
      /\ Unmistakable(path[1]) /\ Head(path) = path[1]
  BY <1>2, <1>3, InWalk
<1>5. PICK n \in 0..(Len(layout[d]) - 1) :
         /\ cluster_num = ClusterAt(d, n)
         /\ buf["dir"] = PartStart + cluster_to_sector(cluster_num)
         /\ Upto(d, n) + dir_ent - 1 <= Upto(d, n + 1)
         /\ Scanned(d, Upto(d, n) + dir_ent - 1)
  BY <1>1, <1>4 DEF Scanning
<1>6. n \in Nat /\ n + 1 \in Nat /\ Len(Dirs[d]) \in Nat /\ dir_ent \in Nat \ {0}
  BY <1>4, <1>5, DirFacts DEF DInv, Chains
<1>7. /\ Upto(d, n) \in Nat /\ Upto(d, n + 1) \in Nat /\ Upto(d, n + 1) <= Len(Dirs[d])
  <2>1. Upto(d, n) \in Nat /\ Upto(d, n + 1) \in 0..Len(Dirs[d])
    BY <1>4, <1>6, UptoFacts
  <2> QED
    BY <1>6, <2>1
<1>8. PICK b : b = buf["dir"]
  OBVIOUS
<1>9. /\ Len(DirBlock(b)) = Upto(d, n + 1) - Upto(d, n)
      /\ \A i \in 1..Len(DirBlock(b)) : DirBlock(b)[i] = Dirs[d][Upto(d, n) + i]
  BY <1>4, <1>5, <1>8, BlockEntries
<1>10. PICK u \in Nat, t \in Nat : u = Upto(d, n) /\ t = Upto(d, n + 1)
  BY <1>7
<1>11. u + dir_ent - 1 <= t /\ t <= Len(Dirs[d]) /\ Len(DirBlock(b)) = t - u
  BY <1>5, <1>7, <1>9, <1>10
<1>12. PICK j \in Nat : j = u + dir_ent - 1
  BY <1>6, <1>10
<1>13. Scanned(d, j)
  BY <1>5, <1>10, <1>12
<1>14. /\ u = Upto(d, n)' /\ t = Upto(d, n + 1)' /\ n \in 0..(Len(layout'[d]) - 1)
       /\ cluster_num' = ClusterAt(d, n)'
       /\ buf'["dir"] = PartStart + cluster_to_sector(cluster_num)'
  BY <1>1, <1>5, <1>10 DEF Upto, ClusterAt, EOC, cluster_to_sector
<1>15. CASE dir_ent > Len(DirBlock(b))
  <2>1. j = t
    BY <1>6, <1>11, <1>12, <1>15
  <2>2. /\ at' = "next" /\ cont' = "dir"
        /\ UNCHANGED <<inodes, name, valid_classic_entry, result>>
    BY <1>1, <1>8, <1>15
  <2>3. NoneLost
    BY <2>2 DEF NoneLost
  <2>4. Scanned(d, t)'
    BY <1>1, <1>13, <2>1, <2>2, <2>3, KeptScanned
  <2>5. Scanned(d, Upto(d, n + 1))'
    BY <1>14, <2>4
  <2>6. Scanning(d)'
    BY <1>14, <2>2, <2>5 DEF Scanning
  <2> QED
    BY <1>1, <1>2, <1>3, <2>2, <2>3, <2>6, StillInDir
<1>16. CASE ~(dir_ent > Len(DirBlock(b)))
  <2>1. UNCHANGED <<at, cont>> /\ dir_ent' = dir_ent + 1
    BY <1>1, <1>8, <1>16
  <2>2. PICK k \in Nat : k = j + 1
    OBVIOUS
  <2>3. /\ k = u + dir_ent /\ dir_ent \in 1..(t - u) /\ k <= t /\ k \in 1..Len(Dirs[d])
        /\ k = u + (dir_ent + 1) - 1
    BY <1>6, <1>11, <1>12, <1>16, <2>2
  <2>4. PICK e : e = DirBlock(b)[dir_ent]
    OBVIOUS
  <2>5. e = Dirs[d][k]
    BY <1>9, <1>10, <1>11, <2>3, <2>4
  <2>6. NoneLost /\ Scanned(d, k)'
    BY <1>4, <1>8, <1>13, <1>16, <2>2, <2>3, <2>4, <2>5, OneEntry
  <2>7. /\ Upto(d, n)' + dir_ent' - 1 = k
        /\ Upto(d, n)' + dir_ent' - 1 <= Upto(d, n + 1)'
    BY <1>14, <2>1, <2>3
  <2>8. Scanned(d, Upto(d, n) + dir_ent - 1)'
    BY <2>6, <2>7
  <2>9. at' = "entry" /\ cont' = "none"
    BY <1>1, <1>2, <2>1
  <2>10. Scanning(d)'
    BY <1>14, <2>7, <2>8, <2>9 DEF Scanning
  <2> QED
    BY <1>1, <1>2, <1>3, <2>6, <2>9, <2>10, StillInDir
<1> QED
  BY <1>15, <1>16

LEMMA Walks_Below ==
  ASSUME DInv, Walks, Below \/ get_FAT_miss \/ get_FAT_fill
  PROVE  Walks'
<1>1. CASE Below
  <2>1. /\ AtaNext
        /\ UNCHANGED <<layout, path, asked, cwd, result, inodes, name, valid_classic_entry,
                       dir_ent, cluster_num, cont, root_inode, at>>
    BY <1>1 DEF Below, disk, walk, dir
  <2>2. at = "entry" => rd.pc = "idle"
    BY DEF DInv, Transfer
  <2>3. rd.pc = "idle" => UNCHANGED buf
    BY <2>1 DEF AtaNext, ATA_probe, ATA_identify, ATA_poll, ATA_transfer, drive_done,
                drive_not_busy
  <2> QED
    BY <2>1, <2>2, <2>3, Walks_Kept
<1>2. CASE get_FAT_miss \/ get_FAT_fill
  <2>1. /\ UNCHANGED <<layout, path, asked, cwd, result, inodes, name, valid_classic_entry,
                       dir_ent, cluster_num, cont, root_inode>>
        /\ at \in {"next", "fill"} /\ at' \in {"next", "fill"}
    BY <1>2 DEF get_FAT_miss, get_FAT_fill, At, Back, disk, mount, walk, dir
  <2> QED
    BY <2>1, Walks_Kept
<1> QED
  BY <1>1, <1>2

LEMMA Walks_Mounting ==
  ASSUME Blocks, Walks,
         parse_MBR_begin \/ parse_MBR \/ parse_partition \/ FS_register \/ FS_probe
  PROVE  Walks'
<1>1. UNCHANGED <<layout, root_inode, inodes>>
  BY DEF parse_MBR_begin, parse_MBR, parse_partition, FS_register, FS_probe, disk, mount
<1>2. /\ at \in {"probe", "mbr", "part", "register", "detect"} /\ UNCHANGED cont
      /\ at' \in {"stopped", "mbr", "part", "register", "wild", "detect", "detected"}
  <2>1. CASE parse_MBR_begin \/ parse_MBR
    BY <2>1 DEF parse_MBR_begin, parse_MBR, At, Back
  <2>2. CASE parse_partition
    <3>1. at' \in {"register", "part"} /\ at = "part" /\ UNCHANGED cont
      BY <2>2 DEF parse_partition, At
    <3> QED
      BY <3>1
  <2>3. CASE FS_register \/ FS_probe
    BY <2>3 DEF FS_register, FS_probe, At
  <2> QED
    BY <2>1, <2>2, <2>3
<1>3. ~Searching' /\ at' # "walked" /\ NoneLost
  BY <1>1, <1>2 DEF Searching, NoneLost, Blocks, Points
<1> QED
  BY <1>1, <1>3, Walks_Aside

LEMMA Walks_Files ==
  ASSUME Blocks, Walks,
         \/ \E s \in Slots : FAT_file_open(s)
         \/ FAT_file_read_seek \/ FAT_file_read_cluster \/ FAT_file_read_copy
         \/ FAT_file_read_end \/ Take
         \/ \E s \in Slots : \E n : FAT_file_read(s, n, FALSE) \/ FAT_file_read(s, n, TRUE)
         \/ \E s \in Slots : \E offset : FAT_file_lseek(s, offset)
         \/ \E s \in Slots : FAT_file_close(s)
  PROVE  Walks'
<1>1. /\ UNCHANGED <<layout, root_inode, inodes>>
      /\ at \in {"walked", "seek", "file", "copy", "end", "ready"}
      /\ at' \in {"ready", "wild", "file", "end", "next", "copy", "seek"}
      /\ cont' \in {cont, "seek", "file"}
  <2>1. CASE \E s \in Slots : FAT_file_open(s)
    BY <2>1 DEF FAT_file_open, At, disk, mount
  <2>2. CASE FAT_file_read_seek
    BY <2>2 DEF FAT_file_read_seek, At, disk, mount
  <2>3. CASE FAT_file_read_cluster \/ FAT_file_read_copy \/ FAT_file_read_end
    BY <2>3 DEF FAT_file_read_cluster, FAT_file_read_copy, FAT_file_read_end, At, Back, disk, mount
  <2>4. CASE Take
    BY <2>4 DEF Take, At, disk, mount
  <2>5. CASE \E s \in Slots : \E n : FAT_file_read(s, n, FALSE) \/ FAT_file_read(s, n, TRUE)
    BY <2>5 DEF FAT_file_read, Called, At, disk, mount
  <2>6. CASE \/ \E s \in Slots : \E offset : FAT_file_lseek(s, offset)
             \/ \E s \in Slots : FAT_file_close(s)
    BY <2>6 DEF FAT_file_lseek, FAT_file_close, Called, At, disk, mount
  <2> QED
    BY <2>1, <2>2, <2>3, <2>4, <2>5, <2>6
<1>2. ~Searching' /\ at' # "walked" /\ NoneLost
  BY <1>1 DEF Searching, NoneLost, Blocks, Points
<1> QED
  BY <1>1, <1>2, Walks_Aside

LEMMA Walks_Step ==
  ASSUME PathsExist, Blocks, DInv, Walks, [Next]_vars
  PROVE  Walks'
<1>1. CASE Below
  BY <1>1, Walks_Below
<1>2. CASE Thread
  <2>1. CASE \/ parse_MBR_begin \/ parse_MBR \/ parse_partition \/ FS_register \/ FS_probe
             \/ FAT_detect
    BY <2>1, Walks_Mounting, Walks_FAT_detect
  <2>2. CASE get_FAT_miss \/ get_FAT_fill \/ get_next_cluster_num
    BY <2>2, Walks_Below, Walks_get_next_cluster_num
  <2>3. CASE \/ FAT_readdir_begin \/ FAT_readdir_cluster \/ FAT_readdir_scan
             \/ FAT_readdir_entry \/ walk_next
    BY <2>3, Walks_FAT_readdir_begin, Walks_FAT_readdir_cluster, Walks_FAT_readdir_scan,
       Walks_FAT_readdir_entry, Walks_walk_next
  <2>4. CASE \/ \E s \in Slots : FAT_file_open(s)
             \/ FAT_file_read_seek \/ FAT_file_read_cluster \/ FAT_file_read_copy
             \/ FAT_file_read_end
    BY <2>4, Walks_Files
  <2> QED
    BY <1>2, <2>1, <2>2, <2>3, <2>4 DEF Thread
<1>3. CASE Caller
  <2>1. CASE Take
    BY <2>1, Walks_Files
  <2>2. CASE \E o \in DOMAIN PathOf : FS_inode_for_path(o)
    BY <2>2, Walks_FS_inode_for_path DEF PathsExist, Existing
  <2>3. ASSUME NEW s \in Slots,
               \/ \E n \in Lengths : FAT_file_read(s, n, FALSE)
               \/ FAT_file_read(s, 0, TRUE)
               \/ \E offset \in 0..Inode(s).st_size : FAT_file_lseek(s, offset)
               \/ FAT_file_close(s)
        PROVE  Walks'
    BY <2>3, Walks_Files, Zenon
  <2> QED
    BY <1>3, <2>1, <2>2, <2>3 DEF Caller
<1>4. CASE UNCHANGED vars
  <2>1. UNCHANGED <<layout, path, asked, cwd, result, inodes, name, valid_classic_entry, dir_ent,
                    cluster_num, cont, root_inode, at, buf>>
    BY <1>4 DEF vars, ataVars, disk, walk, dir
  <2> QED
    BY <2>1, Walks_Kept
<1> QED
  BY <1>1, <1>2, <1>3, <1>4 DEF Next

LEMMA Walks_Init == Init => Walks
<1> SUFFICES ASSUME Init PROVE Walks
  OBVIOUS
<1>1. at = "probe" /\ cont = "none" /\ root_inode = NULL
  BY DEF Init
<1> QED
  BY <1>1 DEF Walks, Searching, PathsResolve

-----------------------------------------------------------------------------
IInv == Blocks /\ DInv /\ Walks /\ Named /\ Progress

LEMMA IInv_Init == Init => IInv
BY Blocks_Init, DInv_Init, Walks_Init, Files_Init DEF IInv

LEMMA IInv_Step ==
  ASSUME PathsExist, IInv, [Next]_vars
  PROVE  IInv' /\ FileStep
<1>1. PathsResolve
  BY DEF IInv, Walks
<1>2. Blocks' /\ DInv'
  BY Blocks_Step, DInv_Step DEF IInv
<1>3. Walks'
  BY Walks_Step DEF IInv
<1>4. Named' /\ Progress' /\ FileStep
  BY <1>1, Files_Step DEF IInv
<1> QED
  BY <1>2, <1>3, <1>4 DEF IInv

(* Open files are the files of Files, as long as callers ask for files     *)
(* that exist: on every sound disk, whatever clusters files and            *)
(* directories lie in, wherever in a directory a name is and however many  *)
(* pieces it takes, and in whatever order files are opened, read, mapped,  *)
(* moved and closed, the file opened by FS_inode_for_path is the one its   *)
(* path names, and a read gives its bytes from the position on.            *)
THEOREM FilesRefined == PathsExist => (Spec => ImplementsFiles)
<1> SUFFICES ASSUME PathsExist PROVE Spec => ImplementsFiles
  OBVIOUS
<1>1. FileStep => [F!FilesNext]_<<[o \in DOMAIN PathOf |-> Content(o)],
         [s \in Slots |-> IF slots[s] = NULL THEN NULL
            ELSE [path |-> File(s).path, pos |-> IF s = slot THEN start ELSE File(s).cursor]], got>>
  BY Files_Refines DEF Contents, Handles, Handle
<1>2. Init => F!FilesInit
  BY Files_Init
<1>3. IInv /\ [Next]_vars => IInv' /\ FileStep
  BY IInv_Step
<1> QED
  BY <1>1, <1>2, <1>3, IInv_Init, PTL DEF Spec, ImplementsFiles, F!FilesSpec
===============================================================================
