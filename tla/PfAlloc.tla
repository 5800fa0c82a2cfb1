------------------------------- MODULE PfAlloc -------------------------------
(***************************************************************************)
(* The page frame allocator mem/pf_alloc.c: a free pool (last in, first    *)
(* out), and behind it a bump pointer that walks the usable regions of     *)
(* physical memory and steps over the kernel and the multiboot tags.       *)
(*                                                                         *)
(* The goto loop of MMU_pf_alloc is one action per turn.  Nothing else     *)
(* changes its state meanwhile, which is an assumption: map_page calls it  *)
(* with interrupts on, and the handler of an interrupt must not be the     *)
(* first to touch a page, since page_fault_handler would enter it again.   *)
(* Addresses are numbers, a frame is named by its address.                 *)
(* range_contains_addr subtracts unsigned numbers, which makes it the      *)
(* usual test of a half-open range.                                        *)
(***************************************************************************)
EXTENDS Integers, Sequences

CONSTANTS
    PAGE_SIZE,
    physical_regions,       \* mmap: usable memory, as [start, end] records
    kernel, multiboot,      \* mmap: memory in use, as [start, end] records
    NoFrame

ASSUME PfAllocAssumption ==
    /\ PAGE_SIZE \in Nat \ {0}
    /\ physical_regions \in Seq([start : Nat, end : Nat])
    /\ Len(physical_regions) > 0
    /\ {kernel, multiboot} \subseteq [start : Nat, end : Nat]
    /\ NoFrame \notin Nat

VARIABLES
    free_pool,              \* pf_info: the linked list, head first
    current_page,
    physical_region_index,
    alloc,                  \* MMU_pf_alloc: "idle", in its loop, done, or panicked
    page,                   \* ... its result
    taken                   \* history: frames the bump pointer has handed out

pfVars == <<free_pool, current_page, physical_region_index, alloc, page, taken>>

num_regions == Len(physical_regions)

(* The table has zeroes behind the last region. *)
Region(n) == IF n < num_regions THEN physical_regions[n + 1] ELSE [start |-> 0, end |-> 0]

align_page(addr) == ((addr + PAGE_SIZE - 1) \div PAGE_SIZE) * PAGE_SIZE

(* A slip: the end counts as inside. *)
range_contains_addr_closed(addr, r) == r.start <= addr /\ addr <= r.end

range_contains_addr(addr, r) == r.start <= addr /\ addr < r.end

PfTypeOK ==
    /\ free_pool \in Seq(Nat)
    /\ current_page \in Nat
    /\ physical_region_index \in 0..num_regions
    /\ alloc \in {"idle", "check", "done", "panic"}
    /\ page \in Nat \cup {NoFrame}
    /\ taken \subseteq Nat

MMU_init_pf_alloc ==
    /\ free_pool = << >>
    /\ current_page = align_page(Region(0).start)
    /\ physical_region_index = 0
    /\ alloc = "idle"
    /\ page = NoFrame
    /\ taken = {}

(* A slip: the popped frame stays in the pool. *)
MMU_pf_alloc_keeps_head ==
    /\ alloc = "idle"
    /\ IF free_pool # << >>
         THEN alloc' = "done" /\ page' = Head(free_pool)
         ELSE alloc' = "check" /\ UNCHANGED page
    /\ UNCHANGED <<free_pool, current_page, physical_region_index, taken>>

(* MMU_pf_alloc: pop_free_pf first, else on to check_addr. *)
MMU_pf_alloc ==
    /\ alloc = "idle"
    /\ IF free_pool # << >>
         THEN alloc' = "done" /\ page' = Head(free_pool) /\ free_pool' = Tail(free_pool)
         ELSE alloc' = "check" /\ UNCHANGED <<free_pool, page>>
    /\ UNCHANGED <<current_page, physical_region_index, taken>>

(* Where one turn of check_addr looks: at the current page, or at the      *)
(* beginning of the next region.  The new page is not tested against its   *)
(* own region.                                                             *)
Outside == ~range_contains_addr(current_page, Region(physical_region_index))
Candidate == IF Outside THEN align_page(Region(physical_region_index + 1).start)
                        ELSE current_page

(* A slip: the kernel is not stepped over. *)
check_addr_no_kernel ==
    /\ alloc = "check"
    /\ IF Outside /\ physical_region_index >= num_regions
         THEN /\ alloc' = "panic"
              /\ UNCHANGED <<current_page, physical_region_index, page, taken>>
         ELSE /\ physical_region_index' = physical_region_index + IF Outside THEN 1 ELSE 0
              /\ IF range_contains_addr(Candidate, multiboot)
                   THEN /\ current_page' = align_page(multiboot.end)
                        /\ UNCHANGED <<alloc, page, taken>>
                   ELSE /\ page' = Candidate
                        /\ current_page' = Candidate + PAGE_SIZE
                        /\ taken' = taken \cup {Candidate}
                        /\ alloc' = "done"
    /\ UNCHANGED free_pool

(* One turn of check_addr: panic, step over memory in use and check again, *)
(* or return the page.                                                     *)
check_addr ==
    /\ alloc = "check"
    /\ IF Outside /\ physical_region_index >= num_regions
         THEN /\ alloc' = "panic"
              /\ UNCHANGED <<current_page, physical_region_index, page, taken>>
         ELSE /\ physical_region_index' = physical_region_index + IF Outside THEN 1 ELSE 0
              /\ IF range_contains_addr(Candidate, multiboot)
                   THEN /\ current_page' = align_page(multiboot.end)
                        /\ UNCHANGED <<alloc, page, taken>>
                 ELSE IF range_contains_addr(Candidate, kernel)
                   THEN /\ current_page' = align_page(kernel.end)
                        /\ UNCHANGED <<alloc, page, taken>>
                   ELSE /\ page' = Candidate
                        /\ current_page' = Candidate + PAGE_SIZE
                        /\ taken' = taken \cup {Candidate}
                        /\ alloc' = "done"
    /\ UNCHANGED free_pool

(* The caller has the page. *)
Received ==
    /\ alloc = "done"
    /\ alloc' = "idle"
    /\ page' = NoFrame
    /\ UNCHANGED <<free_pool, current_page, physical_region_index, taken>>

(* The pool as a list: a frame's own first word is the link. *)
push_free_pf(pool, pf) == <<pf>> \o pool

(* The pool after MMU_pf_free(pf), where pf may point into the frame. *)
MMU_pf_free(pool, pf) == push_free_pf(pool, pf - (pf % PAGE_SIZE))
==============================================================================
