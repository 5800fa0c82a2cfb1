-------------------------------- MODULE Memory --------------------------------
(***************************************************************************)
(* Virtual memory over PfAlloc: page table entries and demand paging       *)
(* (mem/page_table.c), kernel stacks (mem/stack_alloc.c), the page heap    *)
(* (mem/heap_alloc.c), and the CPU's TLB (external).                       *)
(*                                                                         *)
(* Virtual pages are page numbers.  The three levels of tables that        *)
(* get_or_alloc_table fills in alike are one level, a table for TableSpan  *)
(* pages.  The list nodes of MMU_free_stack come from kmalloc, which is    *)
(* not part of this module.                                                *)
(***************************************************************************)
EXTENDS PfAlloc, FiniteSets

CONSTANTS
    HeapStart,      \* KERNEL_HEAP_START
    StacksStart,    \* KERNEL_STACKS_START, where the heap has to end
    StackPages,     \* STACK_SIZE / PAGE_SIZE
    MaxStacks,      \* bound: stacks ever carved out of the stack region
    TableSpan,      \* NUM_ENTRIES
    MaxFrames,      \* bound: frames in circulation when a page is touched
    NoPage,
    TlbPages,       \* bound: pages whose cached translation is followed
    TlbCoherent     \* the TLB forgets a page when its entry is cleared

ASSUME MemoryAssumption ==
    /\ HeapStart \in Nat \ {0} /\ StacksStart \in Nat /\ HeapStart < StacksStart
    /\ StackPages \in Nat \ {0} /\ MaxStacks \in Nat /\ TableSpan \in Nat \ {0}
    /\ MaxFrames \in Nat
    /\ NoPage \notin Nat
    /\ TlbPages \subseteq Nat
    /\ TlbCoherent \in BOOLEAN

VARIABLES
    present, allocated, base,   \* fields of each page's table entry
    tables,                     \* frame of each page table, or NoFrame
    thread_stack_brk, free_thread_stacks,
    kernel_brk,
    stacks,                     \* tops of the stacks of live threads
    heap,                       \* heap pages in use
    todo,                       \* pages the running MMU_alloc_* has still to map
    undo,                       \* pages the running MMU_free_* has still to free
    fault,                      \* page whose fault is being handled, or NoPage
    tlb                         \* cached translations, or NoFrame

entries == <<present, allocated, base>>
space == <<thread_stack_brk, free_thread_stacks, kernel_brk, stacks, heap>>
vars == <<pfVars, entries, tables, space, todo, undo, fault, tlb>>

StackStep == StackPages + 1             \* with the guard page
StacksEnd == StacksStart + MaxStacks * StackStep
VPages == HeapStart..(StacksEnd - 1)
TableOf(v) == v \div TableSpan
Tables == {TableOf(v) : v \in VPages}

StackOf(top) == (top - StackPages)..(top - 1)
GuardOf(top) == top - StackStep
Owned == heap \cup UNION {StackOf(top) : top \in stacks}

TypeOK ==
    /\ PfTypeOK
    /\ present \in [VPages -> BOOLEAN] /\ allocated \in [VPages -> BOOLEAN]
    /\ base \in [VPages -> Nat]
    /\ tables \in [Tables -> Nat \cup {NoFrame}]
    /\ thread_stack_brk \in StacksStart..StacksEnd
    /\ free_thread_stacks \in Seq(StacksStart..StacksEnd)
    /\ kernel_brk \in HeapStart..StacksStart
    /\ stacks \subseteq StacksStart..StacksEnd
    /\ heap \subseteq VPages
    /\ todo \in Seq(VPages) /\ undo \in Seq(VPages)
    /\ fault \in VPages \cup {NoPage}
    /\ tlb \in [VPages -> Nat \cup {NoFrame}]

Init ==
    /\ MMU_init_pf_alloc
    /\ present = [v \in VPages |-> FALSE]
    /\ allocated = [v \in VPages |-> FALSE]
    /\ base = [v \in VPages |-> 0]
    /\ tables = [t \in Tables |-> NoFrame]
    /\ thread_stack_brk = StacksStart /\ free_thread_stacks = << >>
    /\ kernel_brk = HeapStart
    /\ stacks = {} /\ heap = {}
    /\ todo = << >> /\ undo = << >> /\ fault = NoPage
    /\ tlb = [v \in VPages |-> NoFrame]

Idle == todo = << >> /\ undo = << >> /\ fault = NoPage /\ alloc = "idle"

-----------------------------------------------------------------------------
(* MMU_alloc_stack: the stack freed last, or a new one behind a guard      *)
(* page; its pages are then mapped one by one, lowest first.               *)
MMU_alloc_stack ==
    /\ Idle
    /\ LET reuse == free_thread_stacks # << >>
           start == IF reuse THEN Head(free_thread_stacks) - StackStep
                             ELSE thread_stack_brk
       IN /\ start + StackStep <= StacksEnd
          /\ todo' = [k \in 1..StackPages |-> start + k]
          /\ stacks' = stacks \cup {start + StackStep}
          /\ IF reuse
               THEN /\ free_thread_stacks' = Tail(free_thread_stacks)
                    /\ UNCHANGED thread_stack_brk
               ELSE /\ thread_stack_brk' = thread_stack_brk + StackStep
                    /\ UNCHANGED free_thread_stacks
    /\ UNCHANGED <<pfVars, entries, tables, kernel_brk, heap, undo, fault, tlb>>

(* A slip: the heap may grow into the stacks. *)
MMU_alloc_page_no_end ==
    /\ Idle
    /\ kernel_brk <= StacksStart
    /\ todo' = <<kernel_brk>>
    /\ heap' = heap \cup {kernel_brk}
    /\ kernel_brk' = kernel_brk + 1
    /\ UNCHANGED <<pfVars, entries, tables, thread_stack_brk, free_thread_stacks,
                   stacks, undo, fault, tlb>>

(* MMU_alloc_page: the next page of the heap.  At the end of the heap it   *)
(* returns NULL and changes nothing.                                       *)
MMU_alloc_page ==
    /\ Idle
    /\ kernel_brk < StacksStart
    /\ todo' = <<kernel_brk>>
    /\ heap' = heap \cup {kernel_brk}
    /\ kernel_brk' = kernel_brk + 1
    /\ UNCHANGED <<pfVars, entries, tables, thread_stack_brk, free_thread_stacks,
                   stacks, undo, fault, tlb>>

(* get_or_alloc_table: the table of the page to map is missing. *)
get_or_alloc_table ==
    /\ todo # << >> /\ tables[TableOf(Head(todo))] = NoFrame
    /\ \/ /\ MMU_pf_alloc
          /\ UNCHANGED tables
       \/ /\ Received
          /\ tables' = [tables EXCEPT ![TableOf(Head(todo))] = page]
    /\ UNCHANGED <<entries, space, todo, undo, fault, tlb>>

(* map_page(v, 0, PAGE_ALLOCATED | ...): the whole entry is overwritten. *)
map_page ==
    /\ todo # << >> /\ tables[TableOf(Head(todo))] # NoFrame
    /\ present' = [present EXCEPT ![Head(todo)] = FALSE]
    /\ allocated' = [allocated EXCEPT ![Head(todo)] = TRUE]
    /\ base' = [base EXCEPT ![Head(todo)] = 0]
    /\ todo' = Tail(todo)
    /\ UNCHANGED <<pfVars, tables, space, undo, fault, tlb>>

-----------------------------------------------------------------------------
(* An owner touches its page and misses the TLB: the CPU walks the tables. *)
walk(v) ==
    /\ Idle
    /\ v \in Owned \cap TlbPages /\ tlb[v] = NoFrame /\ present[v]
    /\ tlb' = [tlb EXCEPT ![v] = base[v]]
    /\ UNCHANGED <<pfVars, entries, tables, space, todo, undo, fault>>

(* ... finds no present entry, and page_fault_handler finds it allocated.  *)
page_fault(v) ==
    /\ Idle
    /\ v \in Owned /\ tlb[v] = NoFrame /\ ~present[v] /\ allocated[v]
    /\ free_pool # << >> \/ Cardinality(taken) < MaxFrames
    /\ MMU_pf_alloc
    /\ fault' = v
    /\ UNCHANGED <<entries, tables, space, todo, undo, tlb>>

(* The rest of page_fault_handler. *)
page_fault_handler ==
    /\ fault # NoPage
    /\ Received
    /\ base' = [base EXCEPT ![fault] = page]
    /\ present' = [present EXCEPT ![fault] = TRUE]
    /\ allocated' = [allocated EXCEPT ![fault] = FALSE]
    /\ fault' = NoPage
    /\ UNCHANGED <<tables, space, todo, undo, tlb>>

(* The TLB drops entries as it likes. *)
tlb_evict(v) ==
    /\ Idle
    /\ tlb[v] # NoFrame
    /\ tlb' = [tlb EXCEPT ![v] = NoFrame]
    /\ UNCHANGED <<pfVars, entries, tables, space, todo, undo, fault>>

-----------------------------------------------------------------------------
(* A slip: the frame is not returned. *)
free_pf_from_virtual_addr_leaks ==
    /\ undo # << >>
    /\ undo' = Tail(undo)
    /\ present' = [present EXCEPT ![Head(undo)] = FALSE]
    /\ allocated' = [allocated EXCEPT ![Head(undo)] = FALSE]
    /\ tlb' = IF TlbCoherent THEN [tlb EXCEPT ![Head(undo)] = NoFrame] ELSE tlb
    /\ UNCHANGED <<pfVars, base, tables, space, todo, fault>>

(* free_pf_from_virtual_addr, for the pages to free in turn: a present     *)
(* page's frame goes back to the pool; the reservation of any other page   *)
(* ends.  The entry's base stays, and no invlpg follows.                   *)
free_pf_from_virtual_addr ==
    /\ undo # << >>
    /\ undo' = Tail(undo)
    /\ IF present[Head(undo)]
         THEN /\ free_pool' = MMU_pf_free(free_pool, base[Head(undo)])
              /\ present' = [present EXCEPT ![Head(undo)] = FALSE]
              /\ UNCHANGED allocated
         ELSE /\ allocated' = [allocated EXCEPT ![Head(undo)] = FALSE]
              /\ UNCHANGED <<free_pool, present>>
    /\ tlb' = IF TlbCoherent THEN [tlb EXCEPT ![Head(undo)] = NoFrame] ELSE tlb
    /\ UNCHANGED <<current_page, physical_region_index, alloc, page, taken, base, tables,
                   space, todo, fault>>

(* A slip: one page too low. *)
MMU_free_stack_off_by_one(top) ==
    /\ Idle /\ top \in stacks
    /\ undo' = [k \in 1..StackPages |-> top - 1 - k]
    /\ free_thread_stacks' = <<top>> \o free_thread_stacks
    /\ stacks' = stacks \ {top}
    /\ UNCHANGED <<pfVars, entries, tables, thread_stack_brk, kernel_brk, heap, todo, fault, tlb>>

(* MMU_free_stack, called by kexit_isr on a stack of its own: the pages    *)
(* from the top down to the guard page.  Nothing else runs before they are *)
(* freed, so the stack is on the list from the beginning.                  *)
MMU_free_stack(top) ==
    /\ Idle /\ top \in stacks
    /\ undo' = [k \in 1..StackPages |-> top - k]
    /\ free_thread_stacks' = <<top>> \o free_thread_stacks
    /\ stacks' = stacks \ {top}
    /\ UNCHANGED <<pfVars, entries, tables, thread_stack_brk, kernel_brk, heap, todo, fault, tlb>>

(* MMU_free_page, called for the pages of a large block by kfree. *)
MMU_free_page(v) ==
    /\ Idle /\ v \in heap
    /\ undo' = <<v>>
    /\ heap' = heap \ {v}
    /\ UNCHANGED <<pfVars, entries, tables, thread_stack_brk, free_thread_stacks, kernel_brk,
                   stacks, todo, fault, tlb>>

-----------------------------------------------------------------------------
Search == check_addr /\ UNCHANGED <<entries, tables, space, todo, undo, fault, tlb>>

Next ==
    \/ MMU_alloc_stack
    \/ MMU_alloc_page
    \/ get_or_alloc_table
    \/ map_page
    \/ free_pf_from_virtual_addr
    \/ Search
    \/ page_fault_handler
    \/ \E v \in VPages : walk(v) \/ page_fault(v) \/ tlb_evict(v) \/ MMU_free_page(v)
    \/ \E top \in StacksStart..StacksEnd : MMU_free_stack(top)

(* The CPU goes on with what it has begun; nobody has to ask for memory. *)
Fairness ==
    /\ WF_vars(get_or_alloc_table)
    /\ WF_vars(map_page)
    /\ WF_vars(free_pf_from_virtual_addr)
    /\ WF_vars(Search)
    /\ WF_vars(page_fault_handler)

Spec == Init /\ [][Next]_vars /\ Fairness

-----------------------------------------------------------------------------
Pooled == {free_pool[k] : k \in 1..Len(free_pool)}
Paged == {base[v] : v \in {w \in VPages : present[w]}}
Tabled == {tables[t] : t \in {u \in Tables : tables[u] # NoFrame}}
InFlight == {page} \ {NoFrame}

(* A frame has one use: it is once in the free pool, or it is one page     *)
(* table, or it is behind one present page, or it is on its way to one.    *)
FramesExclusive ==
    /\ \A j, k \in 1..Len(free_pool) : free_pool[j] = free_pool[k] => j = k
    /\ \A v, w \in VPages : present[v] /\ present[w] /\ base[v] = base[w] => v = w
    /\ \A t, u \in Tables : tables[t] # NoFrame /\ tables[t] = tables[u] => t = u
    /\ Pooled \cap (Paged \cup Tabled \cup InFlight) = {}
    /\ Paged \cap (Tabled \cup InFlight) = {}
    /\ Tabled \cap InFlight = {}

(* Every frame handed out is usable memory from its first byte to its      *)
(* last: inside a region, and clear of the kernel and the multiboot tags.  *)
Overlaps(f, r) == f < r.end /\ r.start < f + PAGE_SIZE
FramesUsable ==
    \A f \in taken :
        /\ \E n \in 1..num_regions : /\ physical_regions[n].start <= f
                                     /\ f + PAGE_SIZE <= physical_regions[n].end
        /\ ~Overlaps(f, kernel)
        /\ ~Overlaps(f, multiboot)

(* No frame is lost: what the bump pointer gave out is in use or pooled,   *)
(* also after stacks and heap pages came and went.                         *)
NothingLeaked == taken = Pooled \cup Paged \cup Tabled \cup InFlight

(* A page is reserved or present exactly when a live thread or block owns  *)
(* it: freeing a stack frees its own pages and nothing above or below, and *)
(* the guard page under each stack stays unmapped.                         *)
MappedIffOwned ==
    /\ todo = << >> /\ undo = << >> =>
          \A v \in VPages : (present[v] \/ allocated[v]) <=> v \in Owned
    /\ \A top \in stacks : GuardOf(top) \notin Owned
    /\ \A v \in VPages : ~(present[v] /\ allocated[v])

(* The search for a frame ends: stepping over the kernel, the multiboot    *)
(* tags and the gaps between regions never goes round in circles.          *)
SearchEnds == alloc = "check" ~> alloc # "check"

(* MMU_pf_free "returns a physical page frame to the free pool": from then *)
(* on no owner of a page reaches it.  Every translation an owner may use   *)
(* is the one in the page table.                                           *)
FreedFramesUnreachable ==
    todo = << >> => \A v \in Owned : tlb[v] # NoFrame => present[v] /\ tlb[v] = base[v]
===============================================================================
