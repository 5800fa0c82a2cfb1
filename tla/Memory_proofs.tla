----------------------------- MODULE Memory_proofs -----------------------------
(***************************************************************************)
(* Virtual memory for any number of pages, stacks, tables and frames and   *)
(* any page size.  What is proved of frames supposes a tidy memory map     *)
(* (TidyMap) and memory that is not used up (InMemory).                    *)
(***************************************************************************)
EXTENDS Memory, SequenceTheorems, TLAPS

In(s) == {s[k] : k \in 1..Len(s)}
Distinct(s) == \A j, k \in 1..Len(s) : s[j] = s[k] => j = k

-----------------------------------------------------------------------------
(* Page borders. *)
Aligned(a) == \E q \in Nat : a = q * PAGE_SIZE

LEMMA PageSize == PAGE_SIZE \in Nat \ {0}
BY PfAllocAssumption

LEMMA Division ==
  ASSUME NEW p \in Nat \ {0}
  PROVE  /\ \A a \in Nat : (a + p - 1) \div p \in Nat
         /\ \A a \in Nat : LET up == ((a + p - 1) \div p) * p IN a <= up /\ up < a + p
         /\ \A q \in Nat : (q * p) % p = 0
         /\ \A q, r \in Nat : q * p < r * p => q * p + p <= r * p
<1>1. \A a \in Nat : (a + p - 1) \div p \in Nat
  OBVIOUS
<1>2. \A a \in Nat : LET up == ((a + p - 1) \div p) * p IN a <= up /\ up < a + p
  OBVIOUS
<1>3. \A q \in Nat : (q * p) % p = 0
  OBVIOUS
<1>4. \A q, r \in Nat : q * p < r * p => q * p + p <= r * p
  OBVIOUS
<1> QED
  BY <1>1, <1>2, <1>3, <1>4

LEMMA Remainder ==
  ASSUME NEW p \in Nat \ {0}, NEW a \in Nat
  PROVE  a % p \in Nat /\ a % p <= a /\ a - (a % p) \in Nat
<1>1. a % p \in Nat
  OBVIOUS
<1>2. a % p <= a
  OBVIOUS
<1> QED
  BY <1>1, <1>2

LEMMA AlignPage ==
  ASSUME NEW a \in Nat
  PROVE  /\ align_page(a) \in Nat /\ Aligned(align_page(a))
         /\ a <= align_page(a) /\ align_page(a) < a + PAGE_SIZE
<1> DEFINE q == (a + PAGE_SIZE - 1) \div PAGE_SIZE
<1>1. q \in Nat
  BY PageSize, Division
<1>2. align_page(a) = q * PAGE_SIZE
  BY DEF align_page
<1>3. a <= align_page(a) /\ align_page(a) < a + PAGE_SIZE
  BY PageSize, Division DEF align_page
<1> HIDE DEF q
<1>4. q * PAGE_SIZE \in Nat
  BY <1>1, PageSize
<1> QED
  BY <1>1, <1>2, <1>3, <1>4 DEF Aligned

LEMMA AlignedFacts ==
  ASSUME NEW a, Aligned(a)
  PROVE  a \in Nat /\ a % PAGE_SIZE = 0 /\ Aligned(a + PAGE_SIZE)
<1>1. PICK q \in Nat : a = q * PAGE_SIZE
  BY DEF Aligned
<1>2. a \in Nat
  BY <1>1, PageSize
<1>3. (q * PAGE_SIZE) % PAGE_SIZE = 0
  BY PageSize, Division
<1>4. a + PAGE_SIZE = (q + 1) * PAGE_SIZE /\ q + 1 \in Nat
  BY <1>1, PageSize
<1>5. Aligned(a + PAGE_SIZE)
  BY <1>4 DEF Aligned
<1> QED
  BY <1>1, <1>2, <1>3, <1>5

LEMMA AlignedApart ==
  ASSUME NEW a, NEW b, Aligned(a), Aligned(b), a < b
  PROVE  a + PAGE_SIZE <= b
<1>1. PICK q \in Nat : a = q * PAGE_SIZE
  BY DEF Aligned
<1>2. PICK r \in Nat : b = r * PAGE_SIZE
  BY DEF Aligned
<1>3. q * PAGE_SIZE < r * PAGE_SIZE => q * PAGE_SIZE + PAGE_SIZE <= r * PAGE_SIZE
  BY PageSize, Division
<1> QED
  BY <1>1, <1>2, <1>3

LEMMA AlignMonotone ==
  ASSUME NEW a \in Nat, NEW b \in Nat, a <= b
  PROVE  align_page(a) <= align_page(b)
<1> DEFINE x == align_page(a)
           y == align_page(b)
<1>1. /\ x \in Nat /\ Aligned(x) /\ x < a + PAGE_SIZE
      /\ y \in Nat /\ Aligned(y) /\ b <= y
  BY AlignPage
<1> HIDE DEF x, y
<1>2. y < x => y + PAGE_SIZE <= x
  BY <1>1, AlignedApart
<1>3. x <= y
  BY <1>1, <1>2, PageSize
<1> QED
  BY <1>3 DEF x, y

-----------------------------------------------------------------------------
USE PfAllocAssumption, MemoryAssumption

(* The memory map: every region holds the beginning of a page, regions     *)
(* ascend and share no page, and the kernel and the multiboot tags do not  *)
(* straddle the end of a region.  Regions may end within a page, as they   *)
(* do on a PC.                                                             *)
TidyMap ==
    /\ \A n \in 0..(num_regions - 1) : align_page(Region(n).start) < Region(n).end
    /\ \A n \in 0..(num_regions - 2) : align_page(Region(n).end) <= align_page(Region(n + 1).start)
    /\ \A n \in 0..(num_regions - 1) : \A used \in {kernel, multiboot} :
          used.end <= Region(n).end \/ Region(n).end <= used.start

(* ... and regions end, and used memory begins, at page borders. *)
PageBorders ==
    /\ \A n \in 0..(num_regions - 1) : Aligned(Region(n).end)
    /\ Aligned(kernel.start) /\ Aligned(multiboot.start)

(* The bump pointer has not gone past the last region. *)
InMemory == physical_region_index < num_regions

Bump ==
    /\ Aligned(current_page)
    /\ \A f \in taken : Aligned(f) /\ f < current_page
    /\ align_page(Region(physical_region_index).start) <= current_page
    /\ current_page <= align_page(Region(physical_region_index).end)

LEMMA RegionType ==
  /\ num_regions \in Nat \ {0}
  /\ \A n \in 0..(num_regions - 1) : /\ Region(n) = physical_regions[n + 1]
                                     /\ n + 1 \in 1..num_regions
  /\ \A n \in Nat : Region(n).start \in Nat /\ Region(n).end \in Nat
  /\ \A used \in {kernel, multiboot} : used.start \in Nat /\ used.end \in Nat
<1>1. num_regions \in Nat \ {0}
  BY LenProperties DEF num_regions
<1>2. \A n \in 0..(num_regions - 1) : Region(n) = physical_regions[n + 1] /\ n + 1 \in 1..num_regions
  BY <1>1 DEF Region
<1>3. ASSUME NEW n \in Nat PROVE Region(n).start \in Nat /\ Region(n).end \in Nat
  <2>1. CASE n < num_regions
    <3>1. n + 1 \in 1..Len(physical_regions)
      BY <1>1, <2>1 DEF num_regions
    <3>2. physical_regions[n + 1] \in [start : Nat, end : Nat]
      BY <3>1, ElementOfSeq
    <3> QED
      BY <2>1, <3>2 DEF Region
  <2>2. CASE ~(n < num_regions)
    BY <2>2 DEF Region
  <2> QED
    BY <2>1, <2>2
<1>4. \A used \in {kernel, multiboot} : used.start \in Nat /\ used.end \in Nat
  OBVIOUS
<1> QED
  BY <1>1, <1>2, <1>3, <1>4

(* One turn of check_addr keeps types, whatever the memory map. *)
LEMMA SearchType ==
  ASSUME PfTypeOK, check_addr
  PROVE  /\ current_page' \in Nat /\ physical_region_index' \in 0..num_regions
         /\ alloc' \in {"check", "done", "panic"} /\ UNCHANGED free_pool
         /\ \/ alloc' = "done" /\ page' = Candidate /\ taken' = taken \cup {Candidate}
            \/ alloc' # "done" /\ UNCHANGED <<page, taken>>
         /\ Candidate \in Nat
<1>1. /\ current_page \in Nat /\ physical_region_index \in 0..num_regions
      /\ alloc = "check" /\ num_regions \in Nat \ {0}
  BY RegionType DEF PfTypeOK, check_addr
<1>2. Candidate \in Nat
  <2>1. Region(physical_region_index + 1).start \in Nat
    BY <1>1, RegionType
  <2> QED
    BY <1>1, <2>1, AlignPage DEF Candidate
<1>3. align_page(multiboot.end) \in Nat /\ align_page(kernel.end) \in Nat
  BY AlignPage, RegionType
<1>4. current_page' \in Nat
  BY <1>1, <1>2, <1>3, PageSize DEF check_addr
<1>5. physical_region_index' \in 0..num_regions
  BY <1>1 DEF check_addr
<1>6. alloc' \in {"check", "done", "panic"} /\ UNCHANGED free_pool
  BY <1>1 DEF check_addr
<1>7. \/ alloc' = "done" /\ page' = Candidate /\ taken' = taken \cup {Candidate}
      \/ alloc' # "done" /\ UNCHANGED <<page, taken>>
  BY <1>1 DEF check_addr
<1> QED
  BY <1>2, <1>4, <1>5, <1>6, <1>7

(* The page that check_addr looks at lies in the region it has come to,    *)
(* and behind every page handed out.                                       *)
LEMMA CandidateFacts ==
  ASSUME TidyMap, PfTypeOK, Bump, InMemory, InMemory', check_addr, alloc' # "panic"
  PROVE  LET r == Region(physical_region_index')
         IN /\ Candidate \in Nat /\ Aligned(Candidate) /\ current_page <= Candidate
            /\ align_page(r.start) <= Candidate /\ Candidate < r.end
<1> DEFINE i == physical_region_index
           r == Region(i)
           s == Region(i + 1)
<1>1. i \in 0..(num_regions - 1) /\ num_regions \in Nat /\ i \in Nat /\ current_page \in Nat
  BY RegionType DEF InMemory, PfTypeOK
<1>2. physical_region_index' = i + IF Outside THEN 1 ELSE 0
  BY <1>1 DEF check_addr, InMemory
<1>3. r.start \in Nat /\ r.end \in Nat /\ s.start \in Nat /\ s.end \in Nat
  BY <1>1, RegionType
<1>4. CASE Outside
  <2>1. i + 1 \in 0..(num_regions - 1) /\ i \in 0..(num_regions - 2) /\ physical_region_index' = i + 1
    BY <1>1, <1>2, <1>4 DEF InMemory
  <2>2. Candidate = align_page(s.start)
    BY <1>4 DEF Candidate
  <2>3. align_page(s.start) < s.end /\ align_page(r.end) <= align_page(s.start)
    BY <2>1 DEF TidyMap
  <2>4. current_page <= align_page(r.end)
    BY DEF Bump
  <2>5. align_page(s.start) \in Nat /\ Aligned(align_page(s.start)) /\ align_page(r.end) \in Nat
    BY <1>3, AlignPage
  <2> HIDE DEF r, s
  <2>6. current_page <= align_page(s.start)
    BY <1>1, <2>3, <2>4, <2>5
  <2> QED
    BY <2>1, <2>2, <2>3, <2>5, <2>6 DEF s
<1>5. CASE ~Outside
  <2>1. physical_region_index' = i /\ Candidate = current_page
    BY <1>1, <1>2, <1>5 DEF Candidate
  <2>2. current_page < r.end
    BY <1>5 DEF Outside, range_contains_addr
  <2> QED
    BY <1>1, <2>1, <2>2 DEF Bump
<1> QED
  BY <1>4, <1>5

(* A page handed out is new, and the bump pointer only moves up. *)
LEMMA BumpStep ==
  ASSUME TidyMap, PfTypeOK, Bump, InMemory, InMemory', check_addr
  PROVE  Bump' /\ (alloc' = "done" => Candidate \notin taken)
<1>1. CASE alloc' = "panic"
  <2>1. UNCHANGED <<current_page, physical_region_index, taken>>
    BY <1>1 DEF check_addr
  <2> QED
    BY <1>1, <2>1 DEF Bump
<1>2. CASE alloc' # "panic"
  <2> DEFINE c == Candidate
             r == Region(physical_region_index')
  <2>1. /\ c \in Nat /\ Aligned(c) /\ current_page <= c
        /\ align_page(r.start) <= c /\ c < r.end
    BY <1>2, CandidateFacts
  <2>2. physical_region_index' \in 0..(num_regions - 1) /\ physical_region_index' \in Nat
    BY SearchType, RegionType DEF InMemory
  <2>3. /\ r.start \in Nat /\ r.end \in Nat /\ align_page(r.start) \in Nat
        /\ align_page(r.end) \in Nat /\ Aligned(align_page(r.end)) /\ r.end <= align_page(r.end)
    BY <2>2, RegionType, AlignPage
  <2>4. \A f \in taken : f \in Nat /\ Aligned(f) /\ f < current_page
    BY DEF Bump, PfTypeOK
  <2>5. current_page \in Nat
    BY DEF PfTypeOK
  <2>6. /\ c \notin taken
        /\ Aligned(c + PAGE_SIZE) /\ c + PAGE_SIZE \in Nat /\ c < c + PAGE_SIZE
        /\ c + PAGE_SIZE <= align_page(r.end)
    <3>1. c \notin taken
      BY <2>1, <2>4, <2>5
    <3>2. Aligned(c + PAGE_SIZE)
      BY <2>1, AlignedFacts
    <3> HIDE DEF c, r
    <3>3. c < align_page(r.end)
      BY <2>1, <2>3
    <3>4. c + PAGE_SIZE <= align_page(r.end)
      BY <2>1, <2>3, <3>3, AlignedApart
    <3> QED
      BY <2>1, <3>1, <3>2, <3>4, PageSize
  <2>7. ASSUME NEW used \in {kernel, multiboot}, range_contains_addr(c, used)
        PROVE  /\ align_page(used.end) \in Nat /\ Aligned(align_page(used.end))
               /\ c < align_page(used.end) /\ align_page(used.end) <= align_page(r.end)
    <3>1. used.start \in Nat /\ used.end \in Nat /\ used.start <= c /\ c < used.end
      BY <2>7, RegionType DEF range_contains_addr
    <3>2. used.end <= r.end
      <4>1. used.end <= r.end \/ r.end <= used.start
        BY <2>2, Zenon DEF TidyMap
      <4> HIDE DEF c, r
      <4> QED
        BY <2>1, <2>3, <3>1, <4>1
    <3>3. /\ align_page(used.end) \in Nat /\ Aligned(align_page(used.end))
          /\ used.end <= align_page(used.end)
      BY <3>1, AlignPage
    <3> HIDE DEF c, r
    <3>4. align_page(used.end) <= align_page(r.end)
      BY <2>3, <3>1, <3>2, AlignMonotone
    <3> QED
      BY <2>1, <3>1, <3>3, <3>4
  <2>8. \/ /\ current_page' = c + PAGE_SIZE /\ taken' = taken \cup {c}
        \/ /\ taken' = taken
           /\ \E used \in {kernel, multiboot} :
                 range_contains_addr(c, used) /\ current_page' = align_page(used.end)
    BY <1>2 DEF check_addr
  <2> HIDE DEF c, r
  <2>9. /\ Aligned(current_page') /\ current_page' \in Nat /\ c < current_page'
        /\ current_page' <= align_page(r.end)
    BY <2>6, <2>7, <2>8
  <2>10. \A f \in taken' : Aligned(f) /\ f < current_page'
    BY <2>1, <2>4, <2>5, <2>8, <2>9
  <2>11. align_page(r.start) <= current_page'
    BY <2>1, <2>3, <2>9
  <2>12. Bump'
    BY <2>9, <2>10, <2>11 DEF Bump, r
  <2> QED
    BY <2>6, <2>12 DEF c
<1> QED
  BY <1>1, <1>2

(* ... and usable from its first byte to its last. *)
LEMMA CandidateUsable ==
  ASSUME TidyMap, PageBorders, PfTypeOK, Bump, InMemory, InMemory', check_addr, alloc' = "done"
  PROVE  /\ \E n \in 1..num_regions : /\ physical_regions[n].start <= Candidate
                                      /\ Candidate + PAGE_SIZE <= physical_regions[n].end
         /\ ~Overlaps(Candidate, kernel) /\ ~Overlaps(Candidate, multiboot)
<1> DEFINE c == Candidate
           n == physical_region_index'
           r == Region(n)
<1>1. /\ c \in Nat /\ Aligned(c) /\ align_page(r.start) <= c /\ c < r.end
  BY CandidateFacts
<1>2. n \in 0..(num_regions - 1) /\ n \in Nat
  BY SearchType, RegionType DEF InMemory
<1>3. /\ r.start \in Nat /\ r.end \in Nat /\ r.start <= align_page(r.start)
      /\ align_page(r.start) \in Nat
      /\ r = physical_regions[n + 1] /\ n + 1 \in 1..num_regions
  BY <1>2, RegionType, AlignPage
<1>4. Aligned(r.end)
  BY <1>2 DEF PageBorders
<1>5. ~range_contains_addr(c, multiboot) /\ ~range_contains_addr(c, kernel)
  BY DEF check_addr
<1> HIDE DEF c, r, n
<1>6. r.start <= c /\ c + PAGE_SIZE <= r.end
  <2>1. r.start <= c
    BY <1>1, <1>3
  <2>2. c + PAGE_SIZE <= r.end
    BY <1>1, <1>4, AlignedApart
  <2> QED
    BY <2>1, <2>2
<1>7. ASSUME NEW used \in {kernel, multiboot}, ~range_contains_addr(c, used), Aligned(used.start)
      PROVE  ~Overlaps(c, used)
  <2>1. used.start \in Nat /\ used.end \in Nat
    BY RegionType
  <2>2. CASE c < used.start
    <3>1. c + PAGE_SIZE <= used.start
      BY <1>1, <1>7, <2>2, AlignedApart
    <3> QED
      BY <1>1, <2>1, <3>1, PageSize DEF Overlaps
  <2>3. CASE ~(c < used.start)
    BY <1>1, <1>7, <2>1, <2>3 DEF Overlaps, range_contains_addr
  <2> QED
    BY <2>2, <2>3
<1> QED
  BY <1>3, <1>5, <1>6, <1>7 DEF PageBorders, c

-----------------------------------------------------------------------------
(* Sequences as they are used here: popped, and pushed in front. *)
LEMMA Popped ==
  ASSUME NEW S, NEW s \in Seq(S), s # << >>
  PROVE  /\ Head(s) \in S /\ Tail(s) \in Seq(S)
         /\ In(s) = {Head(s)} \cup In(Tail(s))
         /\ Distinct(s) => Distinct(Tail(s)) /\ Head(s) \notin In(Tail(s))
<1> DEFINE t == Tail(s)
           n == Len(s)
<1>1. n \in Nat /\ n # 0 /\ Head(s) = s[1] /\ Head(s) \in S
  BY LenProperties, EmptySeq, HeadTailProperties
<1>2. t \in Seq(S) /\ Len(t) = n - 1 /\ \A k \in 1..(n - 1) : t[k] = s[k + 1]
  BY HeadTailProperties
<1> HIDE DEF t, n
<1>3. ASSUME NEW x \in In(s) PROVE x = Head(s) \/ x \in In(t)
  <2>1. PICK k \in 1..n : x = s[k]
    BY <1>3 DEF In, n
  <2>2. CASE k = 1
    BY <1>1, <2>1, <2>2
  <2>3. CASE k # 1
    <3>1. k - 1 \in 1..(n - 1) /\ t[k - 1] = s[k]
      BY <1>1, <1>2, <2>1, <2>3
    <3> QED
      BY <1>2, <2>1, <3>1 DEF In
  <2> QED
    BY <2>2, <2>3
<1>4. Head(s) \in In(s)
  BY <1>1 DEF In, n
<1>5. \A k \in 1..Len(t) : k + 1 \in 1..n /\ t[k] = s[k + 1] /\ k \in Nat
  BY <1>1, <1>2
<1>6. In(t) \subseteq In(s)
  BY <1>5 DEF In, n
<1>7. ASSUME Distinct(s) PROVE Distinct(t) /\ Head(s) \notin In(t)
  <2>1. ASSUME NEW j \in 1..Len(t), NEW k \in 1..Len(t), t[j] = t[k] PROVE j = k
    <3>1. j + 1 = k + 1
      BY <1>5, <1>7, <2>1 DEF Distinct, n
    <3> QED
      BY <1>5, <3>1
  <2>2. ASSUME NEW k \in 1..Len(t), t[k] = Head(s) PROVE FALSE
    <3>1. 1 \in 1..n /\ s[k + 1] = s[1] /\ k + 1 \in 1..n
      BY <1>1, <1>5, <2>2
    <3>2. k + 1 = 1
      BY <1>7, <3>1 DEF Distinct, n
    <3> QED
      BY <1>5, <3>2
  <2> QED
    BY <2>1, <2>2 DEF Distinct, In
<1>8. In(s) = {Head(s)} \cup In(t)
  BY <1>3, <1>4, <1>6
<1> QED
  BY <1>1, <1>2, <1>7, <1>8 DEF t

LEMMA Pushed ==
  ASSUME NEW S, NEW s \in Seq(S), NEW x \in S
  PROVE  /\ <<x>> \o s \in Seq(S)
         /\ In(<<x>> \o s) = {x} \cup In(s)
         /\ Distinct(s) /\ x \notin In(s) => Distinct(<<x>> \o s)
<1> DEFINE t == <<x>> \o s
           n == Len(s)
<1>1. /\ t \in Seq(S) /\ n \in Nat /\ Len(t) = n + 1
      /\ \A k \in 1..(n + 1) : t[k] = IF k <= 1 THEN <<x>>[k] ELSE s[k - 1]
  <2>1. <<x>> \in Seq(S) /\ Len(<<x>>) = 1
    OBVIOUS
  <2>2. /\ t \in Seq(S) /\ Len(t) = 1 + Len(s)
        /\ \A k \in 1..(1 + Len(s)) : t[k] = IF k <= 1 THEN <<x>>[k] ELSE s[k - 1]
    BY <2>1, ConcatProperties
  <2>3. n \in Nat /\ 1 + Len(s) = n + 1
    BY LenProperties
  <2> QED
    BY <2>2, <2>3
<1>2. \A k \in 1..n : s[k] \in S
  BY ElementOfSeq
<1> HIDE DEF t
<1>3. 1 \in 1..Len(t) /\ t[1] = x
  BY <1>1
<1>4. \A k \in 1..n : k + 1 \in 1..Len(t) /\ t[k + 1] = s[k]
  BY <1>1
<1>5. \A k \in 1..Len(t) : k \in Nat /\ (k = 1 \/ (k - 1 \in 1..n /\ t[k] = s[k - 1]))
  BY <1>1
<1> HIDE DEF n
<1>6. In(t) = {x} \cup In(s)
  <2>1. \A y \in In(s) : y \in In(t)
    BY <1>4 DEF In, n
  <2>2. ASSUME NEW y \in In(t) PROVE y = x \/ y \in In(s)
    <3>1. PICK k \in 1..Len(t) : y = t[k]
      BY <2>2 DEF In
    <3>2. CASE k = 1
      BY <1>3, <3>1, <3>2
    <3>3. CASE k # 1
      BY <1>5, <3>1, <3>3 DEF In, n
    <3> QED
      BY <3>2, <3>3
  <2>3. x \in In(t)
    BY <1>3 DEF In
  <2> QED
    BY <2>1, <2>2, <2>3
<1>7. ASSUME Distinct(s), x \notin In(s), NEW j \in 1..Len(t), NEW k \in 1..Len(t), t[j] = t[k]
      PROVE  j = k
  <2>1. \A i \in 1..n : s[i] # x
    BY <1>7 DEF In, n
  <2>2. CASE j = 1 \/ k = 1
    BY <1>3, <1>5, <1>7, <2>1, <2>2
  <2>3. CASE j # 1 /\ k # 1
    <3>1. j - 1 = k - 1
      BY <1>5, <1>7, <2>3 DEF Distinct, n
    <3> QED
      BY <1>5, <3>1
  <2> QED
    BY <2>2, <2>3
<1>8. Distinct(s) /\ x \notin In(s) => Distinct(t)
  BY <1>7 DEF Distinct
<1> QED
  BY <1>1, <1>6, <1>8 DEF t

LEMMA EmptyIn == \A S : << >> \in Seq(S) /\ In(<< >>) = {} /\ Distinct(<< >>)
BY DEF In, Distinct

LEMMA SingleIn ==
  ASSUME NEW S, NEW x \in S
  PROVE  <<x>> \in Seq(S) /\ <<x>> # << >> /\ In(<<x>>) = {x} /\ Distinct(<<x>>)
<1>1. <<x>> \in Seq(S) /\ Len(<<x>>) = 1 /\ <<x>>[1] = x
  OBVIOUS
<1>2. \A k \in 1..1 : k = 1
  OBVIOUS
<1>3. In(<<x>>) = {x}
  BY <1>1, <1>2 DEF In
<1> QED
  BY <1>1, <1>2, <1>3 DEF Distinct

-----------------------------------------------------------------------------
(* Sizes and page numbers. *)
LEMMA Product == \A a, b \in Nat : a * b \in Nat
OBVIOUS

LEMMA Sizes ==
  /\ StackPages \in Nat /\ StackPages > 0 /\ StackStep = StackPages + 1
  /\ HeapStart \in Nat /\ StacksStart \in Nat /\ HeapStart < StacksStart
  /\ StacksEnd \in Nat /\ StacksStart <= StacksEnd
<1>1. StackStep \in Nat /\ StackStep = StackPages + 1
  BY DEF StackStep
<1> DEFINE m == MaxStacks * StackStep
<1>2. m \in Nat
  BY <1>1, Product
<1>3. StacksEnd = StacksStart + m
  BY DEF StacksEnd
<1> HIDE DEF m
<1> QED
  BY <1>1, <1>2, <1>3

LEMMA PageNumbers ==
  /\ \A v : v \in VPages <=> v \in Nat /\ HeapStart <= v /\ v < StacksEnd
  /\ \A v \in VPages : TableOf(v) \in Tables
<1>1. ASSUME NEW v PROVE v \in VPages <=> v \in Nat /\ HeapStart <= v /\ v < StacksEnd
  BY Sizes DEF VPages
<1> QED
  BY <1>1 DEF Tables

(* The pages of a stack, from either end. *)
LEMMA StackRows ==
  ASSUME NEW top \in Nat, StacksStart + StackStep <= top, top <= StacksEnd
  PROVE  LET up == [k \in 1..StackPages |-> (top - StackStep) + k]
             down == [k \in 1..StackPages |-> top - k]
         IN /\ up \in Seq(VPages) /\ In(up) = StackOf(top) /\ Distinct(up) /\ up # << >>
            /\ down \in Seq(VPages) /\ In(down) = StackOf(top) /\ Distinct(down)
<1> DEFINE up == [k \in 1..StackPages |-> (top - StackStep) + k]
           down == [k \in 1..StackPages |-> top - k]
<1> USE Sizes
<1>1. \A k \in 1..StackPages : (top - StackStep) + k \in StackOf(top) /\ top - k \in StackOf(top)
  BY DEF StackOf
<1>2. StackOf(top) \subseteq VPages
  <2>1. ASSUME NEW v \in StackOf(top) PROVE v \in Nat /\ HeapStart <= v /\ v < StacksEnd
    BY <2>1 DEF StackOf
  <2> QED
    BY <2>1, PageNumbers
<1>3. up \in Seq(VPages) /\ Len(up) = StackPages /\ down \in Seq(VPages) /\ Len(down) = StackPages
  <2>1. \A k \in 1..StackPages : (top - StackStep) + k \in VPages /\ top - k \in VPages
    BY <1>1, <1>2
  <2>2. up \in [1..StackPages -> VPages] /\ down \in [1..StackPages -> VPages]
    BY <2>1
  <2> HIDE DEF up, down
  <2>3. \A s \in [1..StackPages -> VPages] : s \in Seq(VPages) /\ Len(s) = StackPages
    BY LenProperties
  <2> QED
    BY <2>2, <2>3
<1>4. ASSUME NEW v \in StackOf(top)
      PROVE  /\ v - (top - StackStep) \in 1..StackPages /\ up[v - (top - StackStep)] = v
             /\ top - v \in 1..StackPages /\ down[top - v] = v
  BY DEF StackOf
<1>5. In(up) = StackOf(top) /\ In(down) = StackOf(top)
  <2>1. \A k \in 1..StackPages : up[k] \in StackOf(top) /\ down[k] \in StackOf(top)
    BY <1>1
  <2> HIDE DEF up, down
  <2>2. In(up) \subseteq StackOf(top) /\ In(down) \subseteq StackOf(top)
    BY <1>3, <2>1 DEF In
  <2>3. ASSUME NEW v \in StackOf(top) PROVE v \in In(up) /\ v \in In(down)
    BY <1>3, <1>4 DEF In
  <2> QED
    BY <2>2, <2>3
<1>6. Distinct(up) /\ Distinct(down)
  <2>1. \A j, k \in 1..StackPages : (up[j] = up[k] => j = k) /\ (down[j] = down[k] => j = k)
    OBVIOUS
  <2> HIDE DEF up, down
  <2> QED
    BY <1>3, <2>1 DEF Distinct
<1> HIDE DEF up, down
<1>7. up # << >>
  BY <1>3
<1> QED
  BY <1>3, <1>5, <1>6, <1>7 DEF up, down

-----------------------------------------------------------------------------
(* Where stacks and heap pages lie: stacks in use and stacks on the list   *)
(* are one step apart or more, all below thread_stack_brk, and the heap is *)
(* below kernel_brk.                                                       *)
Tops == stacks \cup In(free_thread_stacks)

Space ==
    /\ heap \subseteq HeapStart..(kernel_brk - 1)
    /\ \A t \in Tops : StacksStart + StackStep <= t /\ t <= thread_stack_brk
    /\ \A s, t \in Tops : s # t => s + StackStep <= t \/ t + StackStep <= s
    /\ Distinct(free_thread_stacks) /\ stacks \cap In(free_thread_stacks) = {}

(* One operation at a time. *)
Phase ==
    /\ alloc = "done" <=> page # NoFrame
    /\ todo # << >> => undo = << >> /\ fault = NoPage
    /\ undo # << >> => todo = << >> /\ fault = NoPage
    /\ fault # NoPage => todo = << >> /\ undo = << >> /\ allocated[fault]

(* A page is mapped when it is owned and its mapping is not still to do,   *)
(* or when freeing it is still to do.                                      *)
Pages ==
    /\ Distinct(todo) /\ In(todo) \subseteq Owned
    /\ Distinct(undo) /\ In(undo) \cap Owned = {}
    /\ \A v \in VPages :
          (present[v] \/ allocated[v]) <=> ((v \in Owned /\ v \notin In(todo)) \/ v \in In(undo))
    /\ \A v \in VPages : ~(present[v] /\ allocated[v])

TypeEntries ==
    /\ present \in [VPages -> BOOLEAN] /\ allocated \in [VPages -> BOOLEAN]
    /\ base \in [VPages -> Nat]
TypeSpace ==
    /\ thread_stack_brk \in StacksStart..StacksEnd
    /\ free_thread_stacks \in Seq(StacksStart..StacksEnd)
    /\ kernel_brk \in HeapStart..StacksStart
    /\ stacks \subseteq StacksStart..StacksEnd
    /\ heap \subseteq VPages
TypeTables == tables \in [Tables -> Nat \cup {NoFrame}]
TypeTlb == tlb \in [VPages -> Nat \cup {NoFrame}]
TypeWork == todo \in Seq(VPages) /\ undo \in Seq(VPages) /\ fault \in VPages \cup {NoPage}

LEMMA TypeSplit ==
  TypeOK <=> PfTypeOK /\ TypeEntries /\ TypeTables /\ TypeSpace /\ TypeTlb /\ TypeWork
BY Zenon DEF TypeOK, TypeEntries, TypeTables, TypeSpace, TypeTlb, TypeWork

LEMMA TypeSplitNext ==
  TypeOK' <=> PfTypeOK' /\ TypeEntries' /\ TypeTables' /\ TypeSpace' /\ TypeTlb' /\ TypeWork'
BY Zenon DEF TypeOK, TypeEntries, TypeTables, TypeSpace, TypeTlb, TypeWork

Layout == TypeOK /\ Space /\ Phase /\ Pages

(* What an action leaves alone. *)
LEMMA Kept ==
  ASSUME Layout
  PROVE  /\ UNCHANGED pfVars => PfTypeOK'
         /\ UNCHANGED entries => TypeEntries'
         /\ UNCHANGED tables => TypeTables'
         /\ UNCHANGED space => TypeSpace' /\ Space' /\ Owned' = Owned /\ Tops' = Tops
         /\ UNCHANGED tlb => TypeTlb'
         /\ UNCHANGED <<todo, undo, fault>> => TypeWork'
         /\ UNCHANGED <<entries, space, todo, undo>> => Pages'
<1> USE TypeSplit DEF Layout
<1>1. UNCHANGED pfVars => PfTypeOK'
  BY Zenon DEF pfVars, PfTypeOK
<1>2. UNCHANGED entries => TypeEntries'
  BY Zenon DEF entries, TypeEntries
<1>3. UNCHANGED tables => TypeTables'
  BY Zenon DEF TypeTables
<1>4. UNCHANGED space => TypeSpace' /\ Owned' = Owned /\ Tops' = Tops
  BY Zenon DEF space, TypeSpace, Owned, Tops
<1>5. UNCHANGED space => Space'
  BY Zenon DEF space, Space, Tops
<1>6. UNCHANGED tlb => TypeTlb'
  BY Zenon DEF TypeTlb
<1>7. UNCHANGED <<todo, undo, fault>> => TypeWork'
  BY Zenon DEF TypeWork
<1>8. UNCHANGED <<entries, space, todo, undo>> => Pages'
  <2> SUFFICES ASSUME UNCHANGED <<entries, space, todo, undo>> PROVE Pages'
    OBVIOUS
  <2>1. UNCHANGED <<present, allocated, todo, undo, Owned>>
    BY <1>4, Zenon DEF entries
  <2> QED
    BY <2>1, Zenon DEF Pages
<1> QED
  BY <1>1, <1>2, <1>3, <1>4, <1>5, <1>6, <1>7, <1>8, Zenon

(* Stacks lie apart from each other and from the heap, with their guard    *)
(* pages.                                                                  *)
Spread ==
    /\ \A t \in Tops : /\ t \in Nat /\ StacksStart + StackStep <= t /\ t <= StacksEnd
                       /\ StackOf(t) \subseteq VPages
                       /\ heap \cap StackOf(t) = {} /\ GuardOf(t) \notin heap
    /\ \A s, t \in Tops : s # t => StackOf(s) \cap StackOf(t) = {}
    /\ \A s, t \in Tops : GuardOf(s) \notin StackOf(t)
    /\ heap \subseteq Nat /\ \A v \in heap : v < kernel_brk
    /\ kernel_brk \in Nat /\ HeapStart <= kernel_brk /\ kernel_brk <= StacksStart
    /\ thread_stack_brk \in Nat /\ StacksStart <= thread_stack_brk

LEMMA Apart == TypeSpace /\ Space => Spread
<1> SUFFICES ASSUME TypeSpace, Space PROVE Spread
  OBVIOUS
<1> USE Sizes
<1>1. /\ kernel_brk \in Nat /\ HeapStart <= kernel_brk /\ kernel_brk <= StacksStart
      /\ thread_stack_brk \in Nat /\ StacksStart <= thread_stack_brk /\ thread_stack_brk <= StacksEnd
  BY DEF TypeSpace
<1>2. heap \subseteq Nat /\ \A v \in heap : v < kernel_brk
  BY <1>1 DEF Space
<1>3. Tops \subseteq StacksStart..StacksEnd
  <2>1. \A k \in 1..Len(free_thread_stacks) : free_thread_stacks[k] \in StacksStart..StacksEnd
    BY ElementOfSeq DEF TypeSpace
  <2> QED
    BY <2>1 DEF Tops, In, TypeSpace
<1>4. ASSUME NEW t \in Tops
      PROVE  /\ t \in Nat /\ StacksStart + StackStep <= t /\ t <= StacksEnd
             /\ StackOf(t) \subseteq VPages
             /\ heap \cap StackOf(t) = {} /\ GuardOf(t) \notin heap
  <2>1. t \in Nat /\ StacksStart + StackStep <= t /\ t <= StacksEnd
    BY <1>3 DEF Space
  <2>2. ASSUME NEW v \in StackOf(t)
        PROVE  v \in Nat /\ StacksStart < v /\ v < StacksEnd
    BY <2>1 DEF StackOf
  <2>3. StackOf(t) \subseteq VPages
    <3>1. \A v \in StackOf(t) : v \in Nat /\ HeapStart <= v /\ v < StacksEnd
      BY <2>2
    <3> QED
      BY <3>1, PageNumbers
  <2>4. \A v \in heap : v \notin StackOf(t)
    BY <1>1, <1>2, <2>2
  <2>5. GuardOf(t) \notin heap
    BY <1>1, <1>2, <2>1 DEF GuardOf
  <2> QED
    BY <2>1, <2>3, <2>4, <2>5
<1>5. ASSUME NEW s \in Tops, NEW t \in Tops, s # t
      PROVE  StackOf(s) \cap StackOf(t) = {} /\ GuardOf(s) \notin StackOf(t)
  <2>1. s + StackStep <= t \/ t + StackStep <= s
    BY <1>5 DEF Space
  <2>2. s \in Nat /\ t \in Nat
    BY <1>4
  <2> QED
    BY <2>1, <2>2 DEF StackOf, GuardOf
<1>6. ASSUME NEW s \in Tops PROVE GuardOf(s) \notin StackOf(s)
  <2>1. s \in Nat
    BY <1>4
  <2> QED
    BY <2>1 DEF StackOf, GuardOf
<1> QED
  BY <1>1, <1>2, <1>4, <1>5, <1>6 DEF Spread

LEMMA ApartNext == TypeSpace' /\ Space' => Spread'
BY Apart, PTL

-----------------------------------------------------------------------------
LEMMA InitLayout == Init => Layout
<1> SUFFICES ASSUME Init PROVE Layout
  OBVIOUS
<1> USE DEF Init
<1>1. PfTypeOK
  <2>1. Region(0).start \in Nat /\ num_regions \in Nat
    BY RegionType
  <2>2. align_page(Region(0).start) \in Nat
    BY <2>1, AlignPage
  <2> QED
    BY <2>1, <2>2, EmptyIn DEF MMU_init_pf_alloc, PfTypeOK
<1>2. TypeEntries /\ TypeTables /\ TypeTlb
  BY DEF TypeEntries, TypeTables, TypeTlb
<1>3. TypeSpace
  BY EmptyIn, Sizes DEF TypeSpace
<1>4. TypeWork
  BY EmptyIn DEF TypeWork
<1>5. Space
  BY EmptyIn DEF Space, Tops
<1>6. Phase
  BY DEF Phase, MMU_init_pf_alloc
<1>7. Pages
  <2>1. Owned = {}
    BY DEF Owned
  <2>2. \A v \in VPages : present[v] = FALSE /\ allocated[v] = FALSE
    OBVIOUS
  <2> QED
    BY <2>1, <2>2, EmptyIn DEF Pages
<1> QED
  BY <1>1, <1>2, <1>3, <1>4, <1>5, <1>6, <1>7, TypeSplit DEF Layout

(* With nothing to do, the mapped pages are the owned ones. *)
LEMMA IdlePages ==
  ASSUME Layout, todo = << >>, undo = << >>
  PROVE  \A v \in VPages : (present[v] \/ allocated[v]) <=> v \in Owned
<1>1. In(todo) = {} /\ In(undo) = {}
  BY EmptyIn
<1> QED
  BY <1>1, Zenon DEF Layout, Pages

LEMMA LayoutAllocStack ==
  ASSUME Layout, MMU_alloc_stack
  PROVE  Layout'
<1> DEFINE reuse == free_thread_stacks # << >>
           start == IF reuse THEN Head(free_thread_stacks) - StackStep ELSE thread_stack_brk
           top == start + StackStep
<1> USE Sizes
<1>1. /\ TypeSpace /\ Space /\ TypeWork /\ Phase
      /\ todo = << >> /\ undo = << >> /\ fault = NoPage
  BY TypeSplit DEF Layout, MMU_alloc_stack, Idle
<1>2. free_thread_stacks \in Seq(StacksStart..StacksEnd)
  BY <1>1 DEF TypeSpace
<1>3. /\ start \in Nat /\ StacksStart <= start
      /\ reuse => top = Head(free_thread_stacks) /\ top \in In(free_thread_stacks)
  <2>1. CASE reuse
    <3>1. Head(free_thread_stacks) \in In(free_thread_stacks)
      BY <1>2, <2>1, Popped
    <3>2. Head(free_thread_stacks) \in Nat /\ StacksStart + StackStep <= Head(free_thread_stacks)
      BY <1>1, <3>1, Apart DEF Tops, Spread
    <3> DEFINE h == Head(free_thread_stacks)
    <3>3. start = h - StackStep
      BY <2>1
    <3> HIDE DEF h, start, reuse
    <3>4. start \in Nat /\ StacksStart <= start /\ start + StackStep = h
      BY <3>2, <3>3 DEF h
    <3> QED
      BY <3>1, <3>4 DEF h
  <2>2. CASE ~reuse
    BY <1>1, <2>2, Apart DEF Spread
  <2> QED
    BY <2>1, <2>2
<1>4. /\ top <= StacksEnd /\ todo' = [k \in 1..StackPages |-> start + k]
      /\ stacks' = stacks \cup {top}
      /\ reuse => free_thread_stacks' = Tail(free_thread_stacks) /\ thread_stack_brk' = thread_stack_brk
      /\ ~reuse => thread_stack_brk' = top /\ free_thread_stacks' = free_thread_stacks
      /\ UNCHANGED <<pfVars, entries, tables, kernel_brk, heap, undo, fault, tlb>>
  BY DEF MMU_alloc_stack
<1>5. ~reuse => start = thread_stack_brk
  OBVIOUS
<1> HIDE DEF reuse, start
<1>6. top \in Nat /\ StacksStart + StackStep <= top /\ start = top - StackStep
  BY <1>3
<1> HIDE DEF top
<1>7. todo' \in Seq(VPages) /\ In(todo') = StackOf(top) /\ Distinct(todo') /\ todo' # << >>
  BY <1>4, <1>6, StackRows
<1>8. /\ top \notin stacks
      /\ \A t \in stacks : t + StackStep <= top \/ top + StackStep <= t
      /\ Tops' = Tops \cup {top}
      /\ top \notin In(free_thread_stacks')
      /\ Distinct(free_thread_stacks') /\ free_thread_stacks' \in Seq(StacksStart..StacksEnd)
      /\ In(free_thread_stacks') \subseteq In(free_thread_stacks)
      /\ \A t \in Tops : t # top => t + StackStep <= top \/ top + StackStep <= t
      /\ \A t \in Tops \cup {top} : StacksStart + StackStep <= t /\ t <= thread_stack_brk'
      /\ thread_stack_brk' \in StacksStart..StacksEnd
  <2>1. CASE reuse
    <3>1. /\ In(free_thread_stacks) = {top} \cup In(free_thread_stacks')
          /\ Distinct(free_thread_stacks') /\ top \notin In(free_thread_stacks')
          /\ free_thread_stacks' \in Seq(StacksStart..StacksEnd)
      <4>1. Distinct(free_thread_stacks) /\ free_thread_stacks # << >>
        BY <1>1, <2>1 DEF Space, reuse
      <4> DEFINE rest == Tail(free_thread_stacks)
      <4>2. /\ In(free_thread_stacks) = {Head(free_thread_stacks)} \cup In(rest)
            /\ Distinct(rest) /\ Head(free_thread_stacks) \notin In(rest)
            /\ rest \in Seq(StacksStart..StacksEnd)
        BY <1>2, <4>1, Popped
      <4>3. free_thread_stacks' = rest /\ Head(free_thread_stacks) = top
        BY <1>3, <1>4, <2>1
      <4> HIDE DEF rest
      <4> QED
        BY <4>2, <4>3
    <3>2. top \in Tops /\ top \notin stacks /\ Tops' = Tops \cup {top}
      BY <1>1, <1>4, <3>1 DEF Tops, Space
    <3> QED
      BY <1>1, <1>4, <2>1, <3>1, <3>2 DEF Space, Tops, TypeSpace
  <2>2. CASE ~reuse
    <3>1. thread_stack_brk' = top /\ top = thread_stack_brk + StackStep /\ thread_stack_brk \in Nat
      BY <1>1, <1>4, <1>5, <1>6, <2>2, Apart DEF Spread, top
    <3>2. \A t \in Tops : t \in Nat /\ StacksStart + StackStep <= t /\ t <= thread_stack_brk
      BY <1>1, Apart DEF Space, Spread
    <3>3. \A t \in Tops : t + StackStep <= top /\ t # top /\ t <= top
      BY <3>1, <3>2
    <3>4. top \in StacksStart..StacksEnd
      BY <1>4, <1>6
    <3>5. Tops' = Tops \cup {top} /\ stacks \subseteq Tops /\ In(free_thread_stacks) \subseteq Tops
      BY <1>4, <2>2 DEF Tops
    <3>6. free_thread_stacks' = free_thread_stacks /\ Distinct(free_thread_stacks)
      BY <1>1, <1>4, <2>2 DEF Space
    <3> QED
      BY <1>2, <1>6, <3>1, <3>2, <3>3, <3>4, <3>5, <3>6
  <2> QED
    BY <2>1, <2>2
<1>9. TypeSpace'
  <2>1. top \in StacksStart..StacksEnd
    BY <1>4, <1>6
  <2> QED
    BY <1>1, <1>4, <1>8, <2>1 DEF TypeSpace
<1>10. Space'
  <2>1. heap' \subseteq HeapStart..(kernel_brk' - 1)
    BY <1>1, <1>4 DEF Space
  <2>2. \A s, t \in Tops' : s # t => s + StackStep <= t \/ t + StackStep <= s
    BY <1>1, <1>8 DEF Space
  <2>3. stacks' \cap In(free_thread_stacks') = {}
    BY <1>1, <1>4, <1>8 DEF Space
  <2> QED
    BY <1>8, <2>1, <2>2, <2>3 DEF Space
<1>11. Phase'
  BY <1>1, <1>4 DEF Phase, pfVars
<1>12. Pages'
  <2>1. Owned' = Owned \cup StackOf(top)
    BY <1>4 DEF Owned
  <2>2. top \in Tops' /\ stacks \subseteq Tops'
    BY <1>8 DEF Tops
  <2>3. StackOf(top) \cap heap = {} /\ \A t \in stacks : StackOf(top) \cap StackOf(t) = {}
    BY <1>4, <1>8, <1>9, <1>10, <2>2, ApartNext DEF Spread
  <2>4. StackOf(top) \cap Owned = {}
    BY <2>3 DEF Owned
  <2>5. In(undo') = {} /\ Distinct(undo')
    BY <1>1, <1>4, EmptyIn
  <2>6. \A v \in VPages : (present[v] \/ allocated[v]) <=> v \in Owned
    BY <1>1, IdlePages
  <2>7. UNCHANGED <<present, allocated>>
    BY <1>4 DEF entries
  <2>8. \A v \in VPages : ~(present[v] /\ allocated[v])
    BY Zenon DEF Layout, Pages
  <2> QED
    BY <1>7, <2>1, <2>4, <2>5, <2>6, <2>7, <2>8, Zenon DEF Pages
<1>13. TypeWork'
  BY <1>1, <1>4, <1>7 DEF TypeWork
<1> QED
  BY <1>4, <1>9, <1>10, <1>11, <1>12, <1>13, Kept, TypeSplitNext DEF Layout

LEMMA LayoutAllocPage ==
  ASSUME Layout, MMU_alloc_page
  PROVE  Layout'
<1> USE Sizes
<1>1. /\ TypeSpace /\ Space /\ TypeWork /\ Phase
      /\ todo = << >> /\ undo = << >> /\ fault = NoPage
  BY TypeSplit DEF Layout, MMU_alloc_page, Idle
<1>2. /\ kernel_brk < StacksStart /\ todo' = <<kernel_brk>> /\ heap' = heap \cup {kernel_brk}
      /\ kernel_brk' = kernel_brk + 1
      /\ UNCHANGED <<pfVars, entries, tables, thread_stack_brk, free_thread_stacks,
                     stacks, undo, fault, tlb>>
  BY DEF MMU_alloc_page
<1>3. kernel_brk \in Nat /\ HeapStart <= kernel_brk /\ heap \subseteq HeapStart..(kernel_brk - 1)
  BY <1>1, Apart DEF Spread, Space
<1>4. kernel_brk \in VPages
  BY <1>2, <1>3, PageNumbers
<1>5. todo' \in Seq(VPages) /\ In(todo') = {kernel_brk} /\ Distinct(todo') /\ todo' # << >>
  BY <1>2, <1>4, SingleIn
<1>6. TypeSpace'
  BY <1>1, <1>2, <1>3, <1>4 DEF TypeSpace
<1>7. Space'
  <2>1. heap' \subseteq HeapStart..(kernel_brk' - 1)
    BY <1>2, <1>3
  <2>2. Tops' = Tops
    BY <1>2 DEF Tops
  <2> QED
    BY <1>1, <1>2, <2>1, <2>2 DEF Space
<1>8. Phase'
  BY <1>1, <1>2 DEF Phase, pfVars
<1>9. Pages'
  <2>1. Owned' = Owned \cup {kernel_brk}
    BY <1>2 DEF Owned
  <2>2. kernel_brk \notin Owned
    <3>1. kernel_brk \notin heap
      BY <1>3
    <3>2. ASSUME NEW t \in stacks PROVE kernel_brk \notin StackOf(t)
      <4>1. t \in Nat /\ StacksStart + StackStep <= t
        BY <1>1, Apart DEF Spread, Tops
      <4> QED
        BY <1>2, <1>3, <4>1 DEF StackOf
    <3> QED
      BY <3>1, <3>2 DEF Owned
  <2>3. In(undo') = {} /\ Distinct(undo')
    BY <1>1, <1>2, EmptyIn
  <2>4. \A v \in VPages : (present[v] \/ allocated[v]) <=> v \in Owned
    BY <1>1, IdlePages
  <2>5. UNCHANGED <<present, allocated>>
    BY <1>2 DEF entries
  <2>6. \A v \in VPages : ~(present[v] /\ allocated[v])
    BY Zenon DEF Layout, Pages
  <2> QED
    BY <1>5, <2>1, <2>2, <2>3, <2>4, <2>5, <2>6, Zenon DEF Pages
<1>10. TypeWork'
  BY <1>1, <1>2, <1>5 DEF TypeWork
<1> QED
  BY <1>2, <1>6, <1>7, <1>8, <1>9, <1>10, Kept, TypeSplitNext DEF Layout

LEMMA LayoutFreeStack ==
  ASSUME Layout, NEW top \in StacksStart..StacksEnd, MMU_free_stack(top)
  PROVE  Layout'
<1> USE Sizes
<1>1. /\ TypeSpace /\ Space /\ TypeWork /\ Phase
      /\ todo = << >> /\ undo = << >> /\ fault = NoPage /\ top \in stacks
  BY TypeSplit DEF Layout, MMU_free_stack, Idle
<1>2. /\ undo' = [k \in 1..StackPages |-> top - k]
      /\ free_thread_stacks' = <<top>> \o free_thread_stacks /\ stacks' = stacks \ {top}
      /\ UNCHANGED <<pfVars, entries, tables, thread_stack_brk, kernel_brk, heap, todo, fault, tlb>>
  BY DEF MMU_free_stack
<1>3. top \in Nat /\ StacksStart + StackStep <= top /\ top <= StacksEnd
  BY <1>1, Apart DEF Spread, Tops
<1>4. undo' \in Seq(VPages) /\ In(undo') = StackOf(top) /\ Distinct(undo')
  BY <1>2, <1>3, StackRows
<1>5. /\ free_thread_stacks' \in Seq(StacksStart..StacksEnd)
      /\ In(free_thread_stacks') = {top} \cup In(free_thread_stacks)
      /\ Distinct(free_thread_stacks')
  <2>1. free_thread_stacks \in Seq(StacksStart..StacksEnd)
    BY <1>1 DEF TypeSpace
  <2>2. Distinct(free_thread_stacks) /\ top \notin In(free_thread_stacks)
    BY <1>1 DEF Space
  <2> QED
    BY <1>2, <2>1, <2>2, Pushed
<1>6. TypeSpace'
  BY <1>1, <1>2, <1>5 DEF TypeSpace
<1>7. Space'
  <2>1. Tops' = Tops
    BY <1>1, <1>2, <1>5 DEF Tops
  <2>2. stacks' \cap In(free_thread_stacks') = {}
    BY <1>1, <1>2, <1>5 DEF Space
  <2> QED
    BY <1>1, <1>2, <1>5, <2>1, <2>2 DEF Space
<1>8. Phase'
  BY <1>1, <1>2 DEF Phase, pfVars
<1>9. Pages'
  <2>1. heap \cap StackOf(top) = {} /\ \A t \in stacks : t # top => StackOf(t) \cap StackOf(top) = {}
    BY <1>1, Apart DEF Spread, Tops
  <2>2. Owned = Owned' \cup StackOf(top) /\ Owned' \cap StackOf(top) = {}
    <3>1. \A v : v \in Owned <=> v \in heap \/ \E t \in stacks : v \in StackOf(t)
      BY Zenon DEF Owned
    <3>2. \A v : v \in Owned' <=> v \in heap \/ \E t \in stacks \ {top} : v \in StackOf(t)
      BY <1>2, Zenon DEF Owned
    <3>3. \A v \in StackOf(top) : v \notin heap /\ \A t \in stacks \ {top} : v \notin StackOf(t)
      BY <2>1, Zenon
    <3>4. \A v : v \in Owned <=> v \in Owned' \/ v \in StackOf(top)
      BY <1>1, <3>1, <3>2, Zenon
    <3> QED
      BY <3>2, <3>3, <3>4, Zenon
  <2>3. In(todo') = {} /\ Distinct(todo')
    BY <1>1, <1>2, EmptyIn
  <2>4. \A v \in VPages : (present[v] \/ allocated[v]) <=> v \in Owned
    BY <1>1, IdlePages
  <2>5. UNCHANGED <<present, allocated>>
    BY <1>2 DEF entries
  <2>6. \A v \in VPages : ~(present[v] /\ allocated[v])
    BY Zenon DEF Layout, Pages
  <2> QED
    BY <1>4, <2>2, <2>3, <2>4, <2>5, <2>6, Zenon DEF Pages
<1>10. TypeWork'
  BY <1>1, <1>2, <1>4 DEF TypeWork
<1> QED
  BY <1>2, <1>6, <1>7, <1>8, <1>9, <1>10, Kept, TypeSplitNext DEF Layout

LEMMA LayoutFreePage ==
  ASSUME Layout, NEW v \in VPages, MMU_free_page(v)
  PROVE  Layout'
<1>1. /\ TypeSpace /\ Space /\ TypeWork /\ Phase
      /\ todo = << >> /\ undo = << >> /\ fault = NoPage /\ v \in heap
  BY TypeSplit DEF Layout, MMU_free_page, Idle
<1>2. /\ undo' = <<v>> /\ heap' = heap \ {v}
      /\ UNCHANGED <<pfVars, entries, tables, thread_stack_brk, free_thread_stacks, kernel_brk,
                     stacks, todo, fault, tlb>>
  BY DEF MMU_free_page
<1>3. undo' \in Seq(VPages) /\ In(undo') = {v} /\ Distinct(undo')
  BY <1>2, SingleIn
<1>4. TypeSpace'
  BY <1>1, <1>2 DEF TypeSpace
<1>5. Space'
  BY <1>1, <1>2 DEF Space, Tops
<1>6. Phase'
  BY <1>1, <1>2 DEF Phase, pfVars
<1>7. Pages'
  <2>1. \A t \in stacks : v \notin StackOf(t)
    BY <1>1, Apart DEF Spread, Tops
  <2>2. Owned = Owned' \cup {v} /\ v \notin Owned'
    <3>1. \A w : w \in Owned <=> w \in heap \/ \E t \in stacks : w \in StackOf(t)
      BY Zenon DEF Owned
    <3>2. \A w : w \in Owned' <=> w \in heap \ {v} \/ \E t \in stacks : w \in StackOf(t)
      BY <1>2, Zenon DEF Owned
    <3> QED
      BY <1>1, <2>1, <3>1, <3>2, Zenon
  <2>3. In(todo') = {} /\ Distinct(todo')
    BY <1>1, <1>2, EmptyIn
  <2>4. \A w \in VPages : (present[w] \/ allocated[w]) <=> w \in Owned
    BY <1>1, IdlePages
  <2>5. UNCHANGED <<present, allocated>>
    BY <1>2 DEF entries
  <2>6. \A w \in VPages : ~(present[w] /\ allocated[w])
    BY Zenon DEF Layout, Pages
  <2> QED
    BY <1>3, <2>2, <2>3, <2>4, <2>5, <2>6, Zenon DEF Pages
<1>8. TypeWork'
  BY <1>1, <1>2, <1>3 DEF TypeWork
<1> QED
  BY <1>2, <1>4, <1>5, <1>6, <1>7, <1>8, Kept, TypeSplitNext DEF Layout

LEMMA LayoutMapPage ==
  ASSUME Layout, map_page
  PROVE  Layout'
<1> DEFINE h == Head(todo)
<1>1. /\ TypeEntries /\ TypeWork /\ Phase /\ Pages
      /\ todo # << >> /\ undo = << >> /\ fault = NoPage
  BY TypeSplit DEF Layout, map_page, Phase
<1>2. /\ present' = [present EXCEPT ![h] = FALSE] /\ allocated' = [allocated EXCEPT ![h] = TRUE]
      /\ base' = [base EXCEPT ![h] = 0] /\ todo' = Tail(todo)
      /\ UNCHANGED <<pfVars, tables, space, undo, fault, tlb>>
  BY DEF map_page
<1>3. /\ h \in VPages /\ todo' \in Seq(VPages) /\ In(todo) = {h} \cup In(todo')
      /\ Distinct(todo') /\ h \notin In(todo')
  <2>1. todo \in Seq(VPages) /\ Distinct(todo)
    BY <1>1 DEF TypeWork, Pages
  <2> QED
    BY <1>1, <1>2, <2>1, Popped
<1> HIDE DEF h
<1>4. TypeEntries'
  BY <1>1, <1>2, <1>3 DEF TypeEntries
<1>5. TypeWork'
  BY <1>1, <1>2, <1>3 DEF TypeWork
<1>6. Phase'
  <2>1. alloc' = alloc /\ page' = page
    BY <1>2 DEF pfVars
  <2> QED
    BY <1>1, <1>2, <2>1 DEF Phase
<1>7. \A v \in VPages : /\ present'[v] = (IF v = h THEN FALSE ELSE present[v])
                        /\ allocated'[v] = (IF v = h THEN TRUE ELSE allocated[v])
  BY <1>1, <1>2, <1>3 DEF TypeEntries
<1>8. Pages'
  <2>1. In(undo) = {} /\ undo' = undo /\ Owned' = Owned
    BY <1>1, <1>2, EmptyIn, Kept
  <2>2. h \in Owned
    BY <1>1, <1>3 DEF Pages
  <2> QED
    BY <1>1, <1>3, <1>7, <2>1, <2>2, Zenon DEF Pages
<1> QED
  BY <1>2, <1>4, <1>5, <1>6, <1>8, Kept, TypeSplitNext DEF Layout

LEMMA LayoutFree ==
  ASSUME Layout, free_pf_from_virtual_addr
  PROVE  Layout'
<1> DEFINE h == Head(undo)
<1>1. /\ PfTypeOK /\ TypeEntries /\ TypeWork /\ TypeTlb /\ Phase /\ Pages
      /\ undo # << >> /\ todo = << >> /\ fault = NoPage
  BY TypeSplit DEF Layout, free_pf_from_virtual_addr, Phase
<1>2. /\ undo' = Tail(undo)
      /\ present[h] => /\ free_pool' = MMU_pf_free(free_pool, base[h])
                       /\ present' = [present EXCEPT ![h] = FALSE] /\ allocated' = allocated
      /\ ~present[h] => /\ allocated' = [allocated EXCEPT ![h] = FALSE]
                        /\ free_pool' = free_pool /\ present' = present
      /\ tlb' = IF TlbCoherent THEN [tlb EXCEPT ![h] = NoFrame] ELSE tlb
      /\ UNCHANGED <<current_page, physical_region_index, alloc, page, taken, base, tables,
                     space, todo, fault>>
  BY DEF free_pf_from_virtual_addr
<1>3. /\ h \in VPages /\ undo' \in Seq(VPages) /\ In(undo) = {h} \cup In(undo')
      /\ Distinct(undo') /\ h \notin In(undo')
  <2>1. undo \in Seq(VPages) /\ Distinct(undo)
    BY <1>1 DEF TypeWork, Pages
  <2> QED
    BY <1>1, <1>2, <2>1, Popped
<1> HIDE DEF h
<1>4. base[h] \in Nat /\ free_pool \in Seq(Nat)
  BY <1>1, <1>3 DEF TypeEntries, PfTypeOK
<1>5. base[h] - (base[h] % PAGE_SIZE) \in Nat
  BY <1>4, PageSize, Remainder
<1>6. free_pool' \in Seq(Nat)
  <2> DEFINE f == base[h] - (base[h] % PAGE_SIZE)
  <2>1. MMU_pf_free(free_pool, base[h]) = <<f>> \o free_pool
    BY DEF MMU_pf_free, push_free_pf
  <2> HIDE DEF f
  <2>2. <<f>> \o free_pool \in Seq(Nat)
    BY <1>4, <1>5, Pushed DEF f
  <2> QED
    BY <1>2, <1>4, <2>1, <2>2
<1>7. PfTypeOK'
  BY <1>1, <1>2, <1>6 DEF PfTypeOK
<1>8. TypeEntries'
  BY <1>1, <1>2, <1>3 DEF TypeEntries
<1>9. TypeTlb'
  BY <1>1, <1>2, <1>3 DEF TypeTlb
<1>10. TypeWork'
  BY <1>1, <1>2, <1>3 DEF TypeWork
<1>11. Phase'
  BY <1>1, <1>2 DEF Phase
<1>12. /\ \A v \in VPages : v # h => present'[v] = present[v] /\ allocated'[v] = allocated[v]
       /\ ~present'[h]
       /\ ~present[h] => ~allocated'[h]
       /\ present[h] => allocated'[h] = allocated[h]
  <2>1. CASE present[h]
    BY <1>1, <1>2, <1>3, <2>1 DEF TypeEntries
  <2>2. CASE ~present[h]
    BY <1>1, <1>2, <1>3, <2>2 DEF TypeEntries
  <2> QED
    BY <2>1, <2>2
<1>13. Pages'
  <2>1. In(todo) = {} /\ todo' = todo /\ Owned' = Owned /\ Distinct(todo)
    BY <1>1, <1>2, EmptyIn, Kept
  <2>2. h \notin Owned /\ ~(present[h] /\ allocated[h])
    BY <1>1, <1>3, Zenon DEF Pages
  <2>3. \A v \in VPages : (present[v] \/ allocated[v]) <=> (v \in Owned \/ v \in In(undo))
    BY <1>1, <2>1, Zenon DEF Pages
  <2>4. ASSUME NEW v \in VPages
        PROVE  /\ (present'[v] \/ allocated'[v]) <=> (v \in Owned \/ v \in In(undo'))
               /\ ~(present'[v] /\ allocated'[v])
    <3>1. CASE v = h
      BY <1>3, <1>12, <2>2, <3>1, Zenon
    <3>2. CASE v # h
      BY <1>1, <1>3, <1>12, <2>3, <3>2, Zenon DEF Pages
    <3> QED
      BY <3>1, <3>2
  <2>5. In(undo') \cap Owned = {}
    BY <1>1, <1>3 DEF Pages
  <2> QED
    BY <1>3, <2>1, <2>4, <2>5, Zenon DEF Pages
<1> QED
  BY <1>2, <1>7, <1>8, <1>9, <1>10, <1>11, <1>13, Kept, TypeSplitNext DEF Layout

(* The allocator's part of a step. *)
LEMMA TypeAlloc ==
  ASSUME PfTypeOK, alloc = "done" <=> page # NoFrame, MMU_pf_alloc \/ Received \/ check_addr
  PROVE  PfTypeOK' /\ (alloc' = "done" <=> page' # NoFrame)
<1> USE DEF PfTypeOK
<1>1. CASE MMU_pf_alloc
  <2>1. CASE free_pool # << >>
    <3>1. Head(free_pool) \in Nat /\ Tail(free_pool) \in Seq(Nat)
      BY <2>1, Popped
    <3> QED
      BY <1>1, <2>1, <3>1 DEF MMU_pf_alloc
  <2>2. CASE free_pool = << >>
    BY <1>1, <2>2 DEF MMU_pf_alloc
  <2> QED
    BY <2>1, <2>2
<1>2. CASE Received
  BY <1>2 DEF Received
<1>3. CASE check_addr
  <2>1. /\ current_page' \in Nat /\ physical_region_index' \in 0..num_regions
        /\ alloc' \in {"check", "done", "panic"} /\ free_pool' = free_pool
        /\ \/ alloc' = "done" /\ page' = Candidate /\ taken' = taken \cup {Candidate}
           \/ alloc' # "done" /\ page' = page /\ taken' = taken
        /\ Candidate \in Nat
    BY <1>3, SearchType
  <2>2. alloc = "check"
    BY <1>3 DEF check_addr
  <2> QED
    BY <2>1, <2>2
<1> QED
  BY <1>1, <1>2, <1>3

LEMMA LayoutTable ==
  ASSUME Layout, get_or_alloc_table
  PROVE  Layout'
<1>1. PfTypeOK /\ TypeTables /\ TypeWork /\ Phase
  BY TypeSplit DEF Layout
<1>2. /\ todo # << >> /\ (MMU_pf_alloc \/ Received)
      /\ UNCHANGED <<entries, space, todo, undo, fault, tlb>>
  BY DEF get_or_alloc_table
<1>3. PfTypeOK' /\ (alloc' = "done" <=> page' # NoFrame)
  BY <1>1, <1>2, TypeAlloc DEF Phase
<1>4. TypeTables'
  <2>1. page \in Nat \cup {NoFrame}
    BY <1>1 DEF PfTypeOK
  <2>2. tables' = tables \/ tables' = [tables EXCEPT ![TableOf(Head(todo))] = page]
    BY DEF get_or_alloc_table
  <2>3. TableOf(Head(todo)) \in Tables
    <3>1. Head(todo) \in VPages
      BY <1>1, <1>2, Popped DEF TypeWork
    <3> QED
      BY <3>1, PageNumbers
  <2> QED
    BY <1>1, <2>1, <2>2, <2>3 DEF TypeTables
<1>5. Phase'
  BY <1>1, <1>2, <1>3 DEF Phase, entries
<1> QED
  BY <1>2, <1>3, <1>4, <1>5, Kept, TypeSplitNext DEF Layout

LEMMA LayoutSearch ==
  ASSUME Layout, Search
  PROVE  Layout'
<1>1. PfTypeOK /\ Phase
  BY TypeSplit DEF Layout
<1>2. check_addr /\ UNCHANGED <<entries, tables, space, todo, undo, fault, tlb>>
  BY DEF Search
<1>3. PfTypeOK' /\ (alloc' = "done" <=> page' # NoFrame)
  BY <1>1, <1>2, TypeAlloc DEF Phase
<1>4. Phase'
  BY <1>1, <1>2, <1>3 DEF Phase, entries
<1> QED
  BY <1>2, <1>3, <1>4, Kept, TypeSplitNext DEF Layout

LEMMA LayoutFault ==
  ASSUME Layout, NEW v \in VPages, page_fault(v)
  PROVE  Layout'
<1>1. PfTypeOK /\ TypeWork /\ Phase /\ todo = << >> /\ undo = << >>
  BY TypeSplit DEF Layout, page_fault, Idle
<1>2. /\ MMU_pf_alloc /\ fault' = v /\ allocated[v]
      /\ UNCHANGED <<entries, tables, space, todo, undo, tlb>>
  BY DEF page_fault
<1>3. PfTypeOK' /\ (alloc' = "done" <=> page' # NoFrame)
  BY <1>1, <1>2, TypeAlloc DEF Phase
<1>4. Phase'
  BY <1>1, <1>2, <1>3 DEF Phase, entries
<1>5. TypeWork'
  BY <1>1, <1>2 DEF TypeWork
<1> QED
  BY <1>2, <1>3, <1>4, <1>5, Kept, TypeSplitNext DEF Layout

LEMMA LayoutHandler ==
  ASSUME Layout, page_fault_handler
  PROVE  Layout'
<1>1. PfTypeOK /\ TypeEntries /\ TypeWork /\ Phase /\ Pages
  BY TypeSplit DEF Layout
<1>2. /\ fault # NoPage /\ Received /\ alloc = "done"
      /\ base' = [base EXCEPT ![fault] = page] /\ present' = [present EXCEPT ![fault] = TRUE]
      /\ allocated' = [allocated EXCEPT ![fault] = FALSE] /\ fault' = NoPage
      /\ UNCHANGED <<tables, space, todo, undo, tlb>>
  BY DEF page_fault_handler, Received
<1>3. PfTypeOK' /\ (alloc' = "done" <=> page' # NoFrame)
  BY <1>1, <1>2, TypeAlloc DEF Phase
<1>4. fault \in VPages /\ page \in Nat /\ allocated[fault] /\ todo = << >> /\ undo = << >>
  BY <1>1, <1>2 DEF Phase, TypeWork, PfTypeOK
<1>5. TypeEntries'
  BY <1>1, <1>2, <1>4 DEF TypeEntries
<1>6. TypeWork'
  BY <1>1, <1>2 DEF TypeWork
<1>7. Phase'
  BY <1>2, <1>3, <1>4 DEF Phase
<1>8. Pages'
  <2>1. \A w \in VPages : /\ present'[w] = (IF w = fault THEN TRUE ELSE present[w])
                          /\ allocated'[w] = (IF w = fault THEN FALSE ELSE allocated[w])
    BY <1>1, <1>2, <1>4 DEF TypeEntries
  <2>2. todo' = todo /\ undo' = undo /\ Owned' = Owned
    BY <1>2, Kept
  <2> QED
    BY <1>1, <1>4, <2>1, <2>2, Zenon DEF Pages
<1> QED
  BY <1>2, <1>3, <1>5, <1>6, <1>7, <1>8, Kept, TypeSplitNext DEF Layout

LEMMA LayoutTlb ==
  ASSUME Layout, NEW v \in VPages, walk(v) \/ tlb_evict(v)
  PROVE  Layout'
<1>1. TypeEntries /\ TypeTlb /\ Phase
  BY TypeSplit DEF Layout
<1>2. UNCHANGED <<pfVars, entries, tables, space, todo, undo, fault>>
  BY DEF walk, tlb_evict
<1>3. TypeTlb'
  <2>1. base[v] \in Nat
    BY <1>1 DEF TypeEntries
  <2> QED
    BY <1>1, <2>1 DEF TypeTlb, walk, tlb_evict
<1>4. Phase'
  BY <1>1, <1>2 DEF Phase, entries, pfVars
<1> QED
  BY <1>2, <1>3, <1>4, Kept, TypeSplitNext DEF Layout

LEMMA LayoutStep == Layout /\ [Next]_vars => Layout'
<1> SUFFICES ASSUME Layout, [Next]_vars PROVE Layout'
  OBVIOUS
<1>1. CASE \E v \in VPages : walk(v) \/ page_fault(v) \/ tlb_evict(v) \/ MMU_free_page(v)
  BY <1>1, LayoutTlb, LayoutFault, LayoutFreePage, Zenon
<1>2. CASE \E top \in StacksStart..StacksEnd : MMU_free_stack(top)
  BY <1>2, LayoutFreeStack, Zenon
<1>3. CASE UNCHANGED vars
  <2>1. UNCHANGED <<pfVars, entries, tables, space, todo, undo, fault, tlb>>
    BY <1>3 DEF vars
  <2>2. Phase'
    BY <2>1 DEF Layout, Phase, entries, pfVars
  <2> QED
    BY <2>1, <2>2, Kept, TypeSplitNext DEF Layout
<1> QED
  BY <1>1, <1>2, <1>3, LayoutAllocStack, LayoutAllocPage, LayoutTable, LayoutMapPage,
     LayoutFree, LayoutSearch, LayoutHandler, Zenon DEF Next

(* Virtual memory keeps its types for any memory map: in particular every  *)
(* page that is mapped or freed lies in the kernel's heap or stacks, and   *)
(* no break passes its limit.                                              *)
THEOREM TypeCorrect == Spec => []TypeOK
<1>1. Init => Layout
  BY InitLayout
<1>2. Layout /\ [Next]_vars => Layout'
  BY LayoutStep
<1>3. Layout => TypeOK
  BY DEF Layout
<1> QED
  BY <1>1, <1>2, <1>3, PTL DEF Spec

(* A page is reserved or present exactly when a live thread or block owns  *)
(* it, and guard pages stay unmapped, for any memory map and any history   *)
(* of stacks made, freed and made again.                                   *)
THEOREM MappedExactly == Spec => []MappedIffOwned
<1>1. Init => Layout
  BY InitLayout
<1>2. Layout /\ [Next]_vars => Layout'
  BY LayoutStep
<1>3. Layout => MappedIffOwned
  <2> SUFFICES ASSUME Layout PROVE MappedIffOwned
    OBVIOUS
  <2>1. ASSUME todo = << >>, undo = << >>
        PROVE  \A v \in VPages : (present[v] \/ allocated[v]) <=> v \in Owned
    BY <2>1, IdlePages
  <2>2. \A top \in stacks : GuardOf(top) \notin Owned
    BY TypeSplit, Apart DEF Layout, Spread, Tops, Owned
  <2>3. \A v \in VPages : ~(present[v] /\ allocated[v])
    BY Zenon DEF Layout, Pages
  <2> QED
    BY <2>1, <2>2, <2>3, Zenon DEF MappedIffOwned
<1> QED
  BY <1>1, <1>2, <1>3, PTL DEF Spec

-----------------------------------------------------------------------------
(* Frames.  Injective in pages and in tables, disjoint uses, nothing lost. *)
OnePage == \A v, w \in VPages : present[v] /\ present[w] /\ base[v] = base[w] => v = w
OneTable == \A t, u \in Tables : tables[t] # NoFrame /\ tables[t] = tables[u] => t = u
Disjoint(pool, paged, tabled, flight) ==
    /\ pool \cap (paged \cup tabled \cup flight) = {}
    /\ paged \cap (tabled \cup flight) = {}
    /\ tabled \cap flight = {}

Frames ==
    /\ Distinct(free_pool) /\ OnePage /\ OneTable
    /\ Disjoint(Pooled, Paged, Tabled, InFlight)
    /\ taken = Pooled \cup Paged \cup Tabled \cup InFlight

LEMMA FramesMeaning == Frames <=> FramesExclusive /\ NothingLeaked
BY Zenon DEF Frames, Disjoint, OnePage, OneTable, Distinct, FramesExclusive, NothingLeaked

LEMMA PooledIn == Pooled = In(free_pool) /\ Pooled' = In(free_pool')
BY DEF Pooled, In

(* What leaves the uses of frames alone. *)
LEMMA FramesKept ==
  /\ UNCHANGED <<present, base>> => Paged' = Paged /\ (OnePage => OnePage')
  /\ UNCHANGED tables => Tabled' = Tabled /\ (OneTable => OneTable')
  /\ UNCHANGED page => InFlight' = InFlight
  /\ UNCHANGED free_pool => Pooled' = Pooled
<1>1. UNCHANGED <<present, base>> => Paged' = Paged /\ (OnePage => OnePage')
  BY Zenon DEF Paged, OnePage
<1>2. UNCHANGED tables => Tabled' = Tabled /\ (OneTable => OneTable')
  BY Zenon DEF Tabled, OneTable
<1>3. UNCHANGED page => InFlight' = InFlight
  BY Zenon DEF InFlight
<1>4. UNCHANGED free_pool => Pooled' = Pooled
  BY Zenon DEF Pooled
<1> QED
  BY <1>1, <1>2, <1>3, <1>4, Zenon

LEMMA FramesUntouched ==
  ASSUME Frames, UNCHANGED <<free_pool, page, taken, present, base, tables>>
  PROVE  Frames'
<1>1. /\ Paged' = Paged /\ Tabled' = Tabled /\ InFlight' = InFlight /\ Pooled' = Pooled
      /\ taken' = taken /\ free_pool' = free_pool /\ OnePage' /\ OneTable'
  BY FramesKept, Zenon DEF Frames
<1> QED
  BY <1>1, Zenon DEF Frames

LEMMA FramesAlloc ==
  ASSUME Layout, Frames, MMU_pf_alloc, UNCHANGED <<present, base, tables>>
  PROVE  Frames'
<1>1. alloc = "idle" /\ taken' = taken /\ page = NoFrame /\ free_pool \in Seq(Nat)
  BY TypeSplit DEF MMU_pf_alloc, Layout, Phase, PfTypeOK
<1>2. CASE free_pool = << >>
  BY <1>1, <1>2, FramesUntouched DEF MMU_pf_alloc
<1>3. CASE free_pool # << >>
  <2> DEFINE f == Head(free_pool)
             rest == Tail(free_pool)
  <2>1. page' = f /\ free_pool' = rest
    BY <1>3 DEF MMU_pf_alloc
  <2>2. f \in Nat /\ In(free_pool) = {f} \cup In(rest) /\ Distinct(rest) /\ f \notin In(rest)
    BY <1>1, <1>3, Popped DEF Frames
  <2> HIDE DEF f, rest
  <2>3. f # NoFrame
    BY <2>2
  <2>4. InFlight = {} /\ InFlight' = {f}
    BY <1>1, <2>1, <2>3 DEF InFlight
  <2>5. Pooled = {f} \cup Pooled' /\ f \notin Pooled' /\ Distinct(free_pool')
    BY <2>1, <2>2, PooledIn
  <2>6. Paged' = Paged /\ Tabled' = Tabled /\ OnePage' /\ OneTable'
    BY FramesKept DEF Frames
  <2>7. Disjoint(Pooled, Paged, Tabled, {}) /\ taken = Pooled \cup Paged \cup Tabled
    BY <2>4 DEF Frames
  <2>8. Disjoint(Pooled', Paged, Tabled, {f}) /\ taken = Pooled' \cup Paged \cup Tabled \cup {f}
    BY <2>5, <2>7 DEF Disjoint
  <2> QED
    BY <1>1, <2>4, <2>5, <2>6, <2>8, Zenon DEF Frames
<1> QED
  BY <1>2, <1>3

LEMMA FramesSearch ==
  ASSUME TidyMap, Layout, Bump, InMemory, InMemory', Frames, Search
  PROVE  Frames'
<1>1. PfTypeOK /\ check_addr /\ UNCHANGED <<present, base, tables>> /\ page = NoFrame
  BY TypeSplit DEF Search, entries, Layout, Phase, check_addr
<1>2. /\ free_pool' = free_pool /\ Candidate \in Nat
      /\ \/ alloc' = "done" /\ page' = Candidate /\ taken' = taken \cup {Candidate}
         \/ page' = page /\ taken' = taken
      /\ alloc' = "done" => Candidate \notin taken
  BY <1>1, SearchType, BumpStep
<1> DEFINE c == Candidate
<1> HIDE DEF c
<1>3. CASE page' = page /\ taken' = taken
  BY <1>1, <1>2, <1>3, FramesUntouched
<1>4. CASE page' = c /\ taken' = taken \cup {c} /\ c \notin taken
  <2>1. InFlight = {} /\ InFlight' = {c}
    BY <1>1, <1>2, <1>4 DEF InFlight, c
  <2>2. Pooled' = Pooled /\ Paged' = Paged /\ Tabled' = Tabled /\ OnePage' /\ OneTable'
    BY <1>1, <1>2, FramesKept DEF Frames
  <2>3. Disjoint(Pooled, Paged, Tabled, {}) /\ taken = Pooled \cup Paged \cup Tabled
    BY <2>1 DEF Frames
  <2>4. Disjoint(Pooled, Paged, Tabled, {c}) /\ taken' = Pooled \cup Paged \cup Tabled \cup {c}
    BY <1>4, <2>3 DEF Disjoint
  <2>5. Distinct(free_pool')
    BY <1>2 DEF Frames
  <2> QED
    BY <2>1, <2>2, <2>4, <2>5, Zenon DEF Frames
<1> QED
  BY <1>2, <1>3, <1>4 DEF c

(* The frame on its way becomes a table, or goes behind a page. *)
LEMMA FramesTable ==
  ASSUME Layout, Frames, get_or_alloc_table
  PROVE  Frames'
<1>1. UNCHANGED <<present, base>> /\ todo # << >> /\ tables[TableOf(Head(todo))] = NoFrame
  BY DEF get_or_alloc_table, entries
<1>2. CASE MMU_pf_alloc /\ UNCHANGED tables
  BY <1>1, <1>2, FramesAlloc
<1>3. CASE Received /\ tables' = [tables EXCEPT ![TableOf(Head(todo))] = page]
  <2> DEFINE t == TableOf(Head(todo))
  <2>1. t \in Tables
    <3>1. Head(todo) \in VPages
      BY <1>1, TypeSplit, Popped DEF Layout, TypeWork
    <3> QED
      BY <3>1, PageNumbers
  <2>2. tables \in [Tables -> Nat \cup {NoFrame}] /\ tables[t] = NoFrame
    BY <1>1, TypeSplit DEF Layout, TypeTables
  <2>3. /\ page # NoFrame /\ page' = NoFrame /\ free_pool' = free_pool /\ taken' = taken
        /\ tables' = [tables EXCEPT ![t] = page]
    BY <1>3 DEF Received, Layout, Phase
  <2> HIDE DEF t
  <2>4. \A u \in Tables : tables'[u] = IF u = t THEN page ELSE tables[u]
    BY <2>1, <2>2, <2>3
  <2>5. InFlight = {page} /\ InFlight' = {}
    BY <2>3 DEF InFlight
  <2>6. Tabled' = Tabled \cup {page}
    <3>1. \A x \in Tabled' : x \in Tabled \cup {page}
      BY <2>4 DEF Tabled
    <3>2. page \in Tabled'
      BY <2>1, <2>3, <2>4 DEF Tabled
    <3>3. ASSUME NEW x \in Tabled PROVE x \in Tabled'
      <4>1. PICK u \in Tables : tables[u] # NoFrame /\ x = tables[u]
        BY <3>3 DEF Tabled
      <4>2. u # t /\ tables'[u] = tables[u]
        BY <2>2, <2>4, <4>1
      <4> QED
        BY <4>1, <4>2 DEF Tabled
    <3> QED
      BY <3>1, <3>2, <3>3
  <2>7. Disjoint(Pooled, Paged, Tabled, {page}) /\ taken = Pooled \cup Paged \cup Tabled \cup {page}
    BY <2>5 DEF Frames
  <2>8. page \notin Tabled
    BY <2>7 DEF Disjoint
  <2>9. OneTable'
    <3>1. \A u \in Tables : tables[u] # NoFrame => tables[u] # page
      BY <2>8 DEF Tabled
    <3>2. ASSUME NEW u \in Tables, NEW w \in Tables, tables'[u] # NoFrame, tables'[u] = tables'[w]
          PROVE  u = w
      <4>1. CASE u = t \/ w = t
        BY <2>3, <2>4, <3>1, <3>2, <4>1
      <4>2. CASE u # t /\ w # t
        BY <2>4, <3>2, <4>2 DEF Frames, OneTable
      <4> QED
        BY <4>1, <4>2
    <3> QED
      BY <3>2 DEF OneTable
  <2>10. Pooled' = Pooled /\ Paged' = Paged /\ OnePage' /\ Distinct(free_pool')
    BY <1>1, <2>3, FramesKept DEF Frames
  <2>11. Disjoint(Pooled, Paged, Tabled \cup {page}, {})
    BY <2>7 DEF Disjoint
  <2> QED
    BY <2>3, <2>5, <2>6, <2>7, <2>9, <2>10, <2>11 DEF Frames
<1> QED
  BY <1>2, <1>3 DEF get_or_alloc_table

LEMMA FramesHandler ==
  ASSUME Layout, Frames, page_fault_handler
  PROVE  Frames'
<1>1. /\ page # NoFrame /\ page' = NoFrame /\ free_pool' = free_pool /\ taken' = taken
      /\ tables' = tables /\ fault # NoPage
      /\ base' = [base EXCEPT ![fault] = page] /\ present' = [present EXCEPT ![fault] = TRUE]
  BY DEF page_fault_handler, Received, Layout, Phase
<1>2. fault \in VPages /\ TypeEntries
  BY <1>1, TypeSplit DEF Layout, TypeWork
<1>3. ~present[fault]
  BY <1>1, <1>2, Zenon DEF Layout, Phase, Pages
<1>4. \A v \in VPages : /\ v = fault => present'[v] /\ base'[v] = page
                        /\ v # fault => present'[v] = present[v] /\ base'[v] = base[v]
  BY <1>1, <1>2 DEF TypeEntries
<1>5. InFlight = {page} /\ InFlight' = {}
  BY <1>1 DEF InFlight
<1>6. Disjoint(Pooled, Paged, Tabled, {page}) /\ taken = Pooled \cup Paged \cup Tabled \cup {page}
  BY <1>5 DEF Frames
<1>7. Paged' = Paged \cup {page}
  <2>1. \A x \in Paged' : x \in Paged \cup {page}
    BY <1>4 DEF Paged
  <2>2. page \in Paged'
    BY <1>2, <1>4 DEF Paged
  <2>3. ASSUME NEW x \in Paged PROVE x \in Paged'
    <3>1. PICK v \in VPages : present[v] /\ x = base[v]
      BY <2>3 DEF Paged
    <3>2. v # fault /\ present'[v] /\ base'[v] = base[v]
      BY <1>3, <1>4, <3>1
    <3> QED
      BY <3>1, <3>2 DEF Paged
  <2> QED
    BY <2>1, <2>2, <2>3
<1>8. OnePage'
  <2>1. \A v \in VPages : present[v] => base[v] # page
    BY <1>6 DEF Disjoint, Paged
  <2>2. ASSUME NEW v \in VPages, NEW w \in VPages, present'[v], present'[w], base'[v] = base'[w]
        PROVE  v = w
    <3>1. CASE v = fault \/ w = fault
      BY <1>4, <2>1, <2>2, <3>1
    <3>2. CASE v # fault /\ w # fault
      BY <1>4, <2>2, <3>2 DEF Frames, OnePage
    <3> QED
      BY <3>1, <3>2
  <2> QED
    BY <2>2 DEF OnePage
<1>9. Pooled' = Pooled /\ Tabled' = Tabled /\ OneTable' /\ Distinct(free_pool')
  BY <1>1, FramesKept DEF Frames
<1>10. Disjoint(Pooled, Paged \cup {page}, Tabled, {})
  BY <1>6 DEF Disjoint
<1> QED
  BY <1>1, <1>5, <1>6, <1>7, <1>8, <1>9, <1>10 DEF Frames

(* A page to be mapped was not present, so that no frame is forgotten. *)
LEMMA FramesMap ==
  ASSUME Layout, Frames, map_page
  PROVE  Frames'
<1> DEFINE h == Head(todo)
<1>1. /\ todo # << >> /\ UNCHANGED <<free_pool, page, taken, tables>>
      /\ present' = [present EXCEPT ![h] = FALSE] /\ base' = [base EXCEPT ![h] = 0]
  BY DEF map_page, pfVars
<1>2. TypeEntries /\ todo \in Seq(VPages) /\ undo = << >> /\ Pages
  BY <1>1, TypeSplit DEF Layout, TypeWork, Phase
<1>3. h \in VPages /\ h \in In(todo) /\ In(undo) = {}
  BY <1>1, <1>2, Popped, EmptyIn
<1> HIDE DEF h
<1>4. ~present[h]
  BY <1>2, <1>3, Zenon DEF Pages
<1>5. \A v \in VPages : /\ ~present'[h]
                        /\ v # h => present'[v] = present[v] /\ base'[v] = base[v]
  BY <1>1, <1>2, <1>3 DEF TypeEntries
<1>6. Paged' = Paged
  <2>1. \A x \in Paged' : x \in Paged
    BY <1>5 DEF Paged
  <2>2. \A x \in Paged : x \in Paged'
    BY <1>4, <1>5 DEF Paged
  <2> QED
    BY <2>1, <2>2
<1>7. OnePage'
  BY <1>5 DEF Frames, OnePage
<1>8. /\ Pooled' = Pooled /\ Tabled' = Tabled /\ InFlight' = InFlight
      /\ OneTable' /\ Distinct(free_pool')
  BY <1>1, FramesKept DEF Frames
<1> QED
  BY <1>1, <1>6, <1>7, <1>8, Zenon DEF Frames

(* A present page's frame goes to the pool, whole. *)
LEMMA FramesFree ==
  ASSUME Layout, Bump, Frames, free_pf_from_virtual_addr
  PROVE  Frames'
<1> DEFINE h == Head(undo)
           f == base[h]
<1>1. /\ undo # << >> /\ UNCHANGED <<page, taken, base, tables>>
      /\ present[h] => /\ free_pool' = MMU_pf_free(free_pool, f)
                       /\ present' = [present EXCEPT ![h] = FALSE]
      /\ ~present[h] => free_pool' = free_pool /\ present' = present
  BY DEF free_pf_from_virtual_addr
<1>2. TypeEntries /\ h \in VPages /\ free_pool \in Seq(Nat)
  BY <1>1, TypeSplit, Popped DEF Layout, TypeWork, PfTypeOK
<1>3. CASE ~present[h]
  BY <1>1, <1>3, FramesUntouched
<1>4. CASE present[h]
  <2>1. f \in Paged /\ f \in taken
    BY <1>2, <1>4 DEF Frames, Paged
  <2>2. f \in Nat /\ f % PAGE_SIZE = 0
    BY <2>1, AlignedFacts DEF Bump
  <2>3. free_pool' = <<f>> \o free_pool
    <3> HIDE DEF f, h
    <3>1. f - (f % PAGE_SIZE) = f
      BY <2>2
    <3> QED
      BY <1>1, <1>4, <3>1 DEF MMU_pf_free, push_free_pf
  <2>4. Disjoint(Pooled, Paged, Tabled, InFlight)
    BY DEF Frames
  <2>5. f \notin Pooled
    BY <2>1, <2>4 DEF Disjoint
  <2>6. Pooled' = Pooled \cup {f} /\ Distinct(free_pool')
    <3>1. Distinct(free_pool) /\ f \notin In(free_pool)
      BY <2>5, PooledIn DEF Frames
    <3>2. In(free_pool') = {f} \cup In(free_pool) /\ Distinct(free_pool')
      BY <1>2, <2>2, <2>3, <3>1, Pushed
    <3> QED
      BY <3>2, PooledIn
  <2>7. /\ ~present'[h] /\ base' = base
        /\ \A v \in VPages : v # h => present'[v] = present[v]
    BY <1>1, <1>2, <1>4 DEF TypeEntries
  <2>8. \A v \in VPages : present[v] /\ base[v] = f => v = h
    BY <1>2, <1>4 DEF Frames, OnePage
  <2> HIDE DEF f, h
  <2>9. Paged' = Paged \ {f}
    <3>1. \A x \in Paged' : x \in Paged /\ x # f
      BY <2>7, <2>8 DEF Paged
    <3>2. ASSUME NEW x \in Paged, x # f PROVE x \in Paged'
      <4>1. PICK v \in VPages : present[v] /\ x = base[v]
        BY <3>2 DEF Paged
      <4>2. v # h
        BY <3>2, <4>1 DEF f
      <4> QED
        BY <2>7, <4>1, <4>2 DEF Paged
    <3> QED
      BY <3>1, <3>2
  <2>10. OnePage'
    BY <2>7 DEF Frames, OnePage
  <2>11. Tabled' = Tabled /\ InFlight' = InFlight /\ OneTable'
    BY <1>1, FramesKept DEF Frames
  <2>12. Disjoint(Pooled \cup {f}, Paged \ {f}, Tabled, InFlight)
    BY <2>1, <2>4 DEF Disjoint
  <2>13. taken' = (Pooled \cup {f}) \cup (Paged \ {f}) \cup Tabled \cup InFlight
    BY <1>1, <2>1 DEF Frames
  <2> QED
    BY <2>6, <2>9, <2>10, <2>11, <2>12, <2>13 DEF Frames
<1> QED
  BY <1>3, <1>4

-----------------------------------------------------------------------------
IInv == Layout /\ Bump /\ Frames

LEMMA InitIInv ==
  ASSUME TidyMap, Init
  PROVE  IInv
<1> DEFINE r == Region(0)
<1>1. r.start \in Nat /\ r.end \in Nat /\ 0 \in 0..(num_regions - 1)
  <2>1. r.start \in Nat /\ r.end \in Nat
    BY RegionType, Zenon
  <2>2. num_regions \in Nat \ {0}
    BY RegionType, Zenon
  <2> QED
    BY <2>1, <2>2
<1>2. /\ align_page(r.start) \in Nat /\ Aligned(align_page(r.start)) /\ align_page(r.start) < r.end
      /\ align_page(r.end) \in Nat /\ r.end <= align_page(r.end)
  BY <1>1, AlignPage DEF TidyMap
<1>3. current_page = align_page(r.start) /\ physical_region_index = 0 /\ taken = {}
  BY DEF Init, MMU_init_pf_alloc
<1>4. Bump
  <2>1. current_page <= align_page(r.end)
    BY <1>1, <1>2, <1>3
  <2> QED
    BY <1>2, <1>3, <2>1 DEF Bump
<1>5. Frames
  <2>1. free_pool = << >> /\ page = NoFrame
    BY DEF Init, MMU_init_pf_alloc
  <2>2. Pooled = {} /\ Distinct(free_pool)
    BY <2>1, EmptyIn, PooledIn
  <2>3. \A v \in VPages : ~present[v]
    BY DEF Init
  <2>4. \A t \in Tables : tables[t] = NoFrame
    BY DEF Init
  <2>5. Paged = {} /\ Tabled = {} /\ InFlight = {}
    BY <2>1, <2>3, <2>4 DEF Paged, Tabled, InFlight
  <2> QED
    BY <1>3, <2>2, <2>3, <2>4, <2>5 DEF Frames, Disjoint, OnePage, OneTable
<1> QED
  BY <1>4, <1>5, InitLayout DEF IInv

LEMMA IInvStep ==
  ASSUME TidyMap, IInv, InMemory, InMemory', [Next]_vars
  PROVE  IInv'
<1>1. Layout /\ Bump /\ Frames
  BY DEF IInv
<1>2. Layout'
  BY <1>1, LayoutStep
<1>3. UNCHANGED <<current_page, physical_region_index, taken>> => Bump'
  BY <1>1 DEF Bump
<1>4. CASE Search
  <2>1. check_addr /\ PfTypeOK
    BY <1>1, <1>4, TypeSplit DEF Search, Layout
  <2> QED
    BY <1>1, <1>2, <1>4, <2>1, BumpStep, FramesSearch DEF IInv
<1>5. CASE get_or_alloc_table
  <2>1. UNCHANGED <<current_page, physical_region_index, taken>>
    BY <1>5 DEF get_or_alloc_table, MMU_pf_alloc, Received
  <2> QED
    BY <1>1, <1>2, <1>3, <1>5, <2>1, FramesTable DEF IInv
<1>6. CASE page_fault_handler
  <2>1. UNCHANGED <<current_page, physical_region_index, taken>>
    BY <1>6 DEF page_fault_handler, Received
  <2> QED
    BY <1>1, <1>2, <1>3, <1>6, <2>1, FramesHandler DEF IInv
<1>7. CASE map_page
  <2>1. UNCHANGED <<current_page, physical_region_index, taken>>
    BY <1>7 DEF map_page, pfVars
  <2> QED
    BY <1>1, <1>2, <1>3, <1>7, <2>1, FramesMap DEF IInv
<1>8. CASE free_pf_from_virtual_addr
  <2>1. UNCHANGED <<current_page, physical_region_index, taken>>
    BY <1>8 DEF free_pf_from_virtual_addr
  <2> QED
    BY <1>1, <1>2, <1>3, <1>8, <2>1, FramesFree DEF IInv
<1>9. CASE \E v \in VPages : page_fault(v)
  <2>1. /\ MMU_pf_alloc /\ UNCHANGED <<present, base, tables>>
        /\ UNCHANGED <<current_page, physical_region_index, taken>>
    BY <1>9 DEF page_fault, MMU_pf_alloc, entries
  <2> QED
    BY <1>1, <1>2, <1>3, <2>1, FramesAlloc DEF IInv
<1>10. CASE \/ MMU_alloc_stack \/ MMU_alloc_page \/ UNCHANGED vars
            \/ \E v \in VPages : walk(v) \/ tlb_evict(v) \/ MMU_free_page(v)
            \/ \E top \in StacksStart..StacksEnd : MMU_free_stack(top)
  <2>1. UNCHANGED <<pfVars, entries, tables>>
    BY <1>10, Zenon DEF MMU_alloc_stack, MMU_alloc_page, vars, walk, tlb_evict, MMU_free_page,
       MMU_free_stack
  <2>2. /\ UNCHANGED <<free_pool, page, taken, present, base, tables>>
        /\ UNCHANGED <<current_page, physical_region_index, taken>>
    BY <2>1, Zenon DEF pfVars, entries
  <2> QED
    BY <1>1, <1>2, <1>3, <2>2, FramesUntouched DEF IInv
<1> QED
  BY <1>4, <1>5, <1>6, <1>7, <1>8, <1>9, <1>10, Zenon DEF Next

(* A frame has one use at a time, on a machine with a tidy memory map and  *)
(* as long as memory lasts: page faults, page tables, freed stacks and     *)
(* freed heap pages never make two owners share a frame, or the free pool  *)
(* hold a frame in use or a frame twice.                                   *)
THEOREM OneUsePerFrame ==
  ASSUME TidyMap
  PROVE  Spec /\ []InMemory => []FramesExclusive
<1>1. Init => IInv
  BY InitIInv
<1>2. IInv /\ InMemory /\ InMemory' /\ [Next]_vars => IInv'
  BY IInvStep
<1>3. IInv => FramesExclusive
  BY FramesMeaning DEF IInv
<1> QED
  BY <1>1, <1>2, <1>3, PTL DEF Spec

(* ... and no frame is lost: what the allocator took from the regions is   *)
(* in use, on its way, or in the pool.                                     *)
THEOREM NoFrameLost ==
  ASSUME TidyMap
  PROVE  Spec /\ []InMemory => []NothingLeaked
<1>1. Init => IInv
  BY InitIInv
<1>2. IInv /\ InMemory /\ InMemory' /\ [Next]_vars => IInv'
  BY IInvStep
<1>3. IInv => NothingLeaked
  BY FramesMeaning DEF IInv
<1> QED
  BY <1>1, <1>2, <1>3, PTL DEF Spec

LEMMA UsableStep ==
  ASSUME TidyMap, PageBorders, IInv, FramesUsable, InMemory, InMemory', [Next]_vars
  PROVE  FramesUsable'
<1>1. CASE taken' = taken
  BY <1>1 DEF FramesUsable
<1>2. CASE taken' # taken
  <2>1. Search
    BY <1>2, Zenon DEF Next, vars, pfVars, MMU_alloc_stack, MMU_alloc_page, get_or_alloc_table,
       map_page, free_pf_from_virtual_addr, page_fault_handler, walk, page_fault, tlb_evict,
       MMU_free_page, MMU_free_stack, MMU_pf_alloc, Received
  <2>2. check_addr /\ PfTypeOK /\ Bump
    BY <2>1, TypeSplit DEF Search, IInv, Layout
  <2>3. alloc' = "done" /\ taken' = taken \cup {Candidate}
    BY <1>2, <2>2, SearchType
  <2>4. /\ \E n \in 1..num_regions : /\ physical_regions[n].start <= Candidate
                                     /\ Candidate + PAGE_SIZE <= physical_regions[n].end
        /\ ~Overlaps(Candidate, kernel) /\ ~Overlaps(Candidate, multiboot)
    BY <2>2, <2>3, CandidateUsable
  <2> DEFINE c == Candidate
  <2> HIDE DEF c
  <2>5. \A f \in taken' : f \in taken \/ f = c
    BY <2>3 DEF c
  <2> QED
    BY <2>4, <2>5, Zenon DEF FramesUsable, c
<1> QED
  BY <1>1, <1>2

(* Every frame handed out is usable memory from its first byte to its      *)
(* last, where regions end and used memory begins at page borders as well. *)
THEOREM OnlyUsableFrames ==
  ASSUME TidyMap, PageBorders
  PROVE  Spec /\ []InMemory => []FramesUsable
<1>1. Init => IInv /\ FramesUsable
  BY InitIInv DEF Init, MMU_init_pf_alloc, FramesUsable
<1>2. IInv /\ FramesUsable /\ InMemory /\ InMemory' /\ [Next]_vars => IInv' /\ FramesUsable'
  BY IInvStep, UsableStep
<1> QED
  BY <1>1, <1>2, PTL DEF Spec
===============================================================================
