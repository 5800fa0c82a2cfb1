-------------------------------- MODULE KMalloc --------------------------------
(***************************************************************************)
(* The kernel heap lib/kmalloc.c as operators on a heap record:            *)
(*   head    pool -> its free list, first block first                      *)
(*   avail   pool -> its counter                                           *)
(*   brk     where MMU_alloc_page takes the next page from                 *)
(*   pool    block handed out -> the pool its header names                 *)
(*   wild    a block was freed that was not handed out: kfree then reads   *)
(*           the pool from a header that a free-list link has overwritten  *)
(* A block is named by the address of its header.  A request too large for *)
(* every pool, which only the self tests make (test.c), is left out.       *)
(***************************************************************************)
EXTENDS Integers, Sequences

CONSTANTS
    PAGE_SIZE,
    PoolSizes,      \* block_size of each pool, in rising order
    HeaderSize      \* sizeof(block_header_t)

ASSUME KMallocAssumption ==
    /\ PAGE_SIZE \in Nat \ {0}
    /\ PoolSizes \in Seq(Nat \ {0}) /\ Len(PoolSizes) > 0
    /\ \A p \in DOMAIN PoolSizes : PAGE_SIZE % PoolSizes[p] = 0
    /\ HeaderSize \in Nat \ {0}

Pools == DOMAIN PoolSizes
BlocksPerPage(p) == PAGE_SIZE \div PoolSizes[p]
Fits(size) == size \in Nat /\ \E p \in Pools : size + HeaderSize <= PoolSizes[p]

(* f with the value v at x, where f may have had none. *)
Put(f, x, v) == [y \in DOMAIN f \cup {x} |-> IF y = x THEN v ELSE f[y]]

EmptyHeap ==
    [head |-> [p \in Pools |-> << >>], avail |-> [p \in Pools |-> 0],
     brk |-> PAGE_SIZE, pool |-> << >>, wild |-> FALSE]

(* The first pool whose blocks are large enough. *)
PoolFor(size) ==
    CHOOSE p \in Pools : /\ size + HeaderSize <= PoolSizes[p]
                         /\ \A q \in 1..(p - 1) : PoolSizes[q] < size + HeaderSize

(* A new page becomes the free list; a list that was there is forgotten. *)
allocate_blocks(h, p) ==
    [h EXCEPT !.head[p] = [i \in 1..BlocksPerPage(p) |-> h.brk + (i - 1) * PoolSizes[p]],
              !.avail[p] = BlocksPerPage(p),
              !.brk = @ + PAGE_SIZE]

pop_free_block(h, p) == [h EXCEPT !.head[p] = Tail(@), !.avail[p] = @ - 1]

(* kmalloc(size), as the heap after it and the block it returns. *)
kmalloc(h, size) ==
    LET p == PoolFor(size)
        g == IF h.avail[p] = 0 THEN allocate_blocks(h, p) ELSE h
        block == Head(g.head[p])
    IN [heap |-> [pop_free_block(g, p) EXCEPT !.pool = Put(@, block, p)], block |-> block]

push_free_block(h, p, block) == [h EXCEPT !.head[p] = <<block>> \o @, !.avail[p] = @ + 1]

(* kfree(block), for a block that is not NULL. *)
kfree(h, block) ==
    IF block \in DOMAIN h.pool
      THEN [push_free_block(h, h.pool[block], block) EXCEPT
              !.pool = [b \in DOMAIN h.pool \ {block} |-> h.pool[b]]]
      ELSE [h EXCEPT !.wild = TRUE]

(* Every pool's counter is the length of its list, so that an empty list   *)
(* is never popped and no list is forgotten; no block is free twice, or    *)
(* free and in use.                                                        *)
PoolsSound(h) ==
    /\ ~h.wild
    /\ \A p \in Pools :
          /\ h.avail[p] = Len(h.head[p])
          /\ \A i, j \in 1..Len(h.head[p]) : h.head[p][i] = h.head[p][j] => i = j
          /\ \A i \in 1..Len(h.head[p]) : h.head[p][i] \notin DOMAIN h.pool
===============================================================================
