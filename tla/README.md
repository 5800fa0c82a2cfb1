# HaydenOS in TLA+

HaydenOS is a small x86-64 kernel: cooperative kernel threads on one CPU,
device interrupts, demand-paged memory, a keyboard, a serial port, an ATA disk
with a FAT file system, and a first user program. This directory holds
specifications of the parts of it in which order, interruption and limits
decide whether the code is right, the TLC configurations that check them on
small instances, and TLAPS proofs for instances of any size.

`PROJECT.json` lists components, runs, source lines of every definition,
hazards, findings and theorems. Paths below are relative to
`src/src/kernel/` in that file's notation.

## 1. Inventory

| Component | State | Operations | Talks to |
|---|---|---|---|
| process queues `proc/proc_queue.c` | head and tail per queue; one next/prev pair per process, shared by all queues | append, remove, pop | scheduler, wait queues |
| scheduler `proc/scheduler.c` | run queue, cursor `current` | admit, remove, `rr_next` | `proc.c` |
| threads `proc/proc.c` | `curr_proc`, `next_proc`, `orig_proc` | create, run, yield, exit, block, unblock head / all | every driver that blocks |
| context switch `irq/isr_wrapper.asm` | the registers; a `regfile` per process | compare, save, load at the end of every interrupt and system call | `curr_proc`, `next_proc` |
| idle loop `kernel.c` | none | CLI, `PROC_run`, STI, hlt | threads |
| circular buffer `lib/circ_buff.c` | array, read head, write head | `consumer_read`, `producer_write`, full, empty | keyboard, serial |
| keyboard `dev/keyboard.c` | modifiers, release flag, buffer, wait queue | initialisation, `keyboard_handler`, `getc` | buffer, threads |
| serial `dev/serial.c` | buffer, status, wait queue | `SER_write`, `SER_writeb`, `init_hw_write`, `serial_isr` | buffer, threads, UART |
| page frames `mem/pf_alloc.c` | free pool, bump pointer, region index | init, alloc, free | page tables |
| page tables `mem/page_table.c` | four levels of tables, the CPU's TLB | map, page fault, free, set-up | page frames |
| kernel stacks `mem/stack_alloc.c` | `thread_stack_brk`, list of freed stacks | alloc, free | page tables, `kmalloc` |
| page heap `mem/heap_alloc.c` | `kernel_brk` | alloc and free pages | page tables |
| `lib/kmalloc.c` | block pools with free lists | `kmalloc`, `kcalloc`, `kfree` | page heap |
| multiboot `mem/multiboot.c` | the memory map | parse | page frames |
| interrupts `irq/irq.c`, system calls `syscall.asm`, `init_syscalls.c` | handler tables, PIC masks | register, dispatch, mask | all drivers |
| VFS, partitions, FAT `fs/` | registered drivers, superblocks, FAT sector cache, open files | probe, path walk, read, lseek, close | ATA |
| ATA `dev/ata.c` | device record | probe, read sectors by polling | block layer |
| VGA `dev/vga.c`, `lib/printk.c`, `lib/string.c` | cursor, screen | characters, formatting | serial |
| ELF loader, GDT and TSS, boot code | descriptors | straight-line set-up | memory, VFS |
| `test/`, `src/user` | demo game, self tests, one user program | none of the kernel's own logic | system calls |

Everything runs on one CPU and threads give it up voluntarily, so the hard
behaviour is made by interrupts. They are on in thread code and in system calls
outside a CLI/STI pair (the system-call gate is a trap gate), and off in device
handlers. What makes each component correct, and where it is hard:

* **Queues and scheduler.** Run queue and wait queues share one pair of link
  fields, `append_proc` relies on the NULLs the last removal left behind, and
  blocking, waking and exiting may hit the first, the last or the only element.
  No thread may be lost or linked twice; whose turn is next must survive the
  removal of the running thread.
* **Threads and context switch.** A thread that has put itself on a wait queue
  still executes until its yield. `yield_sys_call` turns interrupts on before
  the registers are switched. kmain must not halt with a runnable thread.
* **Drivers that block.** A wake-up must not be lost between test and sleep;
  one event wakes one sleeper; a woken thread may find that another one was
  faster; a status flag must not claim an interrupt that will never come.
* **Circular buffer.** Producer (interrupt) and consumer (interrupts on) share
  it without a lock.
* **Memory.** A frame has one use at a time and is never lost; freeing and
  reuse agree on which pages a stack has; the search for a frame ends; cached
  translations do not outlive the mapping.
* **Keyboard hardware.** Commands may have to be sent again, and an answer may
  be a key or the byte of a self test; decoding keeps a flag between bytes; a
  byte left in the controller, or an interrupt not ended, silences the keyboard.
* **File system and disk.** One thread, but many layers that rely on each other:
  a drive that works while it is polled, translated block numbers, one cached
  sector of the table for every file, names in pieces, inodes allocated and freed
  by the dozen. An open file must give its own bytes, and calls must return.
* **`kmalloc`.** Counter and free list of a pool must agree; a block is free once
  or in use.

## 2. Modules

| Module | Models | Used by |
|---|---|---|
| `ProcQueue` | `proc_queue.c` and `scheduler.c` as operators on the link fields | `Scheduler`, `Proc` |
| `RoundRobin` | abstract: a ring of threads with a cursor, and wait queues as sequences | refined by `Scheduler` |
| `Scheduler` | `proc.c` with the context switch as one step | refined by `Proc` |
| `Proc` | `proc.c`, `isr_wrapper.asm`, kmain's loop, `getc` and the keyboard interrupt | |
| `Fifo` | abstract: a bounded queue with a reader's hand | refined by `CircBuff` |
| `CircBuff` | `circ_buff.c`, `consumer_read` in pieces | |
| `Serial` | `serial.c` and the UART | |
| `PfAlloc` | `pf_alloc.c` | `Memory` |
| `Memory` | page table entries, demand paging, stacks, page heap, TLB | |
| `Keyboard` | `keyboard.c`, the PS/2 controller and keyboard, one PIC line and its entry in the handler table of `irq.c` | |
| `KMalloc` | `kmalloc.c` as operators on a heap record | `Ata`, `Fs` |
| `Ata` | `ata.c`, `part_read_block`, the list of block devices, and the drive | `Fs` |
| `Files` | abstract: handles on byte sequences | refined by `Fs` |
| `Fs` | `part.c`, `vfs.c`, `fat.c` and `kmain_thread`'s way through them | |
| `ProcQueue_proofs`, `Scheduler_proofs`, `Proc_proofs`, `CircBuff_proofs`, `Serial_proofs`, `Keyboard_proofs`, `Memory_proofs`, `Fs_proofs` | theorems about the module they are named after | |
| `MCScheduler`, `MCProc`, `MCCircBuff`, `MCSerial`, `MCMemory`, `MCKeyboard`, `MCFs` | instances for TLC | |

Definitions carry the names of the functions they model. A definition called
`..._no_wrap`, `..._leaks` and so on, marked as a slip, is a plausible mistake
in that function; it is never part of a specification. Putting it in the
function's place makes TLC violate the property it is listed with in
`PROJECT.json`, which shows that the property depends on the code.

### ProcQueue, RoundRobin, Scheduler

`mem` holds `next` and `prev` of every process and `head` and `tail` of every
queue. `remove_proc`, `append_proc` and `pop_proc` map a memory to a memory,
assignment by assignment, including the fields they do *not* write. `elems` is a
history variable: the sequence each queue is meant to hold. It is read by no
guard and is what the links are compared with.

Actions are the system calls and wake-ups of `proc.c`. The region from
`PROC_reschedule` to the `iretq` is one step; `PROC_block_on` is two (up to its
STI, then its yield), because an interrupt may wake the thread in between. Each
turn of `PROC_unblock_all` is a step. Threads are created while kmain runs; the
repository does so before kmain's loop (`curr_proc = NULL`), and `Scheduler` also
allows it between turns of the loop.

### Proc

Takes the one step of `Scheduler` apart. `cpu` is the part of the registers that
matters: whose code it is, where it is, where it will return, and `rcx`, `rbx`
as read by the compare in CONTEXT_SWITCH. `ctx` is the `regfile` of each process.
With `WindowOpen = FALSE` no interrupt arrives inside the switch, and `Proc`
implements `Scheduler`; with `WindowOpen = TRUE` it models the code as it is.
Loading the context of a freed process leads to the point "wild", from which
nothing is promised.

### Fifo, CircBuff

`consumer_read` is four steps: test, `read_head++`, load, wrap. C leaves the order of
the second and third open, so both orders occur. `producer_write` is one step
(an interrupt handler). `queue` and `due` are history variables that the
refinement mapping uses.

### Serial

`SER_write`, `SER_writeb`, `init_hw_write` and `serial_isr` step by step, against a
UART that sends a character whenever it has one and raises its request when it
becomes empty. `ints` says whether the running call has interrupts on: they come
on for good when `wait_event_interruptable` returns. `WindowOpen` plays the same
role as in `Proc`. Characters are numbered modulo `Stamp`, which is larger than
buffer and UART together, so two pending characters never have the same number.

### PfAlloc, Memory

`PfAlloc` keeps the free pool as a sequence and performs the `goto check_addr`
loop turn by turn. It is taken to run undisturbed: `map_page` calls it with
interrupts on, and an interrupt whose pushes are the first to touch a page of the
stack would fault and enter it again. `Memory` adds table entries (`present`, `allocated`, `base`),
one level of tables in place of three alike, stacks, heap pages, page faults in
two steps (the allocation is a search in between), and a TLB. `tlb` holds the
translations the CPU has cached. It is filled by a walk and may drop entries at
any time; `TlbCoherent = TRUE` lets it forget a page that is freed, as an invlpg
in `free_pf_from_virtual_addr` would; `FALSE` is the code as it is. `todo` and
`undo` are what is left of the loops of an allocation and of a release: the pages
it has still to map or to free, one per step. The stack
list's nodes are left out: they never change which pages a stack has.

### Keyboard

`KBD_init` step by step, up to each byte written to or read from the keyboard,
against a device that answers a command with ACK or RESEND, follows a reset with
0xAA, and sends scan codes whenever a key moves and it scans. `configure` is one
step: both ports are off, so nothing else happens, and the configuration byte,
which the code reads without waiting for it (line 180), is taken to be there.
`keyboard_handler` is one step (interrupts are off; the keyboard can only fill the
output buffer behind it). Keys are of three kinds, which is all the `switch`
tells apart: characters, shift keys, and keys it does not know, one of them with
the prefix E0. The control and alt bits are read by nobody and left out. `typed`,
`chars`, `lost_to_full`, `ups` and `both` are history variables.

### KMalloc, Ata, Files, Fs

`KMalloc` follows the code: a pool's free list is a sequence, its counter a
separate number, a header is what a block in use has and a free one has lost.
Requests larger than every pool are left out; only the self tests make them
(`test/test.c:52`).

`Ata` interleaves the driver's polling with a drive that is busy, then not busy,
then has data or an error. Each of the drive's address registers remembers two
values, so that which bytes go first matters. A buffer is described by the block
its contents came from; reading the wrong block is visible at once.

`Fs` is `kmain_thread` and what it calls: probe, MBR, partitions, detection, path
walk, open files. A step goes from one block read to the next, or handles one
directory entry or one cluster. A long name is a sequence of pieces of 13 characters, stored
last piece first; `name` is the buffer that keeps what it held. A classic name is 11
characters and the attribute byte, which ends the string only if it is 0. `Dotted`
are the names, and pieces of names, that begin with a dot: `FAT_readdir` passes
over them all (`fat.c:318`). The entries of
the table have reserved upper bits. The point "wild" is where the code follows a
pointer it should not have. `Files` says what all this is for: `handles` maps to
file and position, `got` to the bytes of a read, both changed in the step in which
the read returns.

## 3. Runs

| Run | Expect | Shows |
|---|---|---|
| `scheduler` | pass | Links spell the intended queues; no thread is lost, or reachable after exit; the cursor stands on the running thread; kmain halts only when idle; the lists implement `RoundRobin`; no starvation once blocking stops |
| `proc_quiet` | pass | Outside the switch, interrupts do no harm: control goes to eligible threads, `getc` never reads an empty buffer, each character has a woken reader while anybody waits, and `Proc` implements `Scheduler` |
| `proc_switch` | violation | An interrupt inside CONTEXT_SWITCH: the CPU runs a thread that is not runnable |
| `circbuff` | pass | The buffer is a FIFO of `BUFF_SIZE - 1` in every interleaving |
| `serial_quiet` | pass | BUSY always means an interrupt to come, nothing is stranded, order is kept, sleepers are woken, output drains |
| `serial_open` | violation | `serial_isr` inside the final `init_hw_write` leaves BUSY with nothing under way |
| `memory` | pass | One use per frame, no leak, frames are usable memory, pages are mapped exactly while owned, guard pages stay unmapped, the search ends |
| `memory_frames` | violation | A region that ends inside a page: its last frame sticks out of it |
| `memory_tlb` | violation | A reused stack is reached through the old translation |
| `keyboard` | pass | `KBD_init` succeeds only with a keyboard that really scans in set 2; typed characters arrive in order, with the losses the code has and no others; initialisation ends, and no byte stays in the controller |
| `disk` | pass | The cached sector is the one it is taken for; the heap is sound and nothing in use is free; open files behave as `Files` says; every call returns |
| `disk_missing` | violation | A missing file is asked for: the walk returns the inode of its directory and not NULL |

**Bounds, and why they are enough.** `scheduler`: four threads make first,
middle, last and only elements exist at once, and two wait queues make blocking
and waking compete. `proc_quiet`: three readers (one running, one woken, one
asleep) on a buffer of two (empty, part full, full). `circbuff`: four slots, all
positions and fill levels of both heads. `serial_*`: a buffer of three, two
characters per hand-over and a UART of three, so that a string of four
overfills the buffer, needs several hand-overs, and leaves a partial one; two
writers, so that one can sleep while the other prints. `memory*`: two stacks of
two pages with guard pages and one heap page over two page tables; `MaxFrames`
keeps six frames in circulation, so that the pool is both empty and refilled in
any order; the regions put a gap, an unaligned start, the kernel and the
multiboot tags in the allocator's way; the TLB is followed for one page of a
stack, `TlbPages`, since entries of different pages do not interact. Addresses
have four bytes to a page. `keyboard`: two character keys and both shift keys, one
unknown key; three key presses, and any number of releases of held keys, so that
an unknown key can be let go before a known one is pressed, and both shift keys
can be down; up to three RESENDs in a row (`N_TRIES` is 3); one key during
initialisation; a buffer of two, which three keys overfill. `disk`: clusters of
two bytes and four table entries to a sector, so that a file of five bytes has
three clusters whose entries lie in different sectors; two layouts, one
backwards and one dealt out; two open files that take turns at the one cached
sector; two directories of two clusters, with a long name that begins in one and
ends in the other, a terminated classic name, a dotted one and a volume label; a
second FAT partition; reads of three
bytes, which end inside a cluster, at its border and at the end of the file;
pages of 32 bytes and pools of 4 and 16, so that pools run empty.

**Restrictions of `disk`.** Callers ask for files that exist (`PathsExist`;
`disk_missing` shows the other case) by paths no item of which begins with a dot or
like a classic name that is not terminated, and seek inside the file. The drive raises DRQ as it clears BSY after IDENTIFY
(`PromptIdentify`), and the partition has a FAT signature.
Clusters are one
sector (the code ignores `sectors_per_cluster`). There are no deleted entries and no
names of exactly 13, 26, ... characters. `DirsAssumption` states what is asked of
directories and paths. Section 5 says what the code does outside
these.

**Deadlock** is checked in every run but two: some action is always possible.
In `keyboard` and `disk` the system may rest: nobody types, initialisation has
failed, no drive was found, or callers have used up `MaxLookups`.

**Fairness.** `Scheduler`: kmain's loop goes on, a running thread eventually
yields, `PROC_unblock_all` finishes. `Proc`: the CPU executes what it is in the
middle of (weak fairness), and a thread that returns to its own code again and
again yields again and again (strong fairness: threads are cooperative, and
interrupts and switches disable the yield now and then). Nothing is assumed of
interrupts. `Serial`: a call that has begun goes on, the UART sends, and a latched
request is delivered (strong fairness: the PIC keeps the request, and interrupts
come on between driver calls again and again). `Memory`: an allocation that has
begun goes on. `Keyboard`: initialisation, hardware and handlers go on; nobody has
to type or to read. `Fs`: the thread and the drive go on with what they have begun;
no caller has to ask for anything.

**Liveness.** Round robin alone does not exclude starvation: woken threads join
behind, and the cursor steps back when the running thread leaves, so that two
threads which keep blocking and being woken can take turns while the thread at the
head of the ring waits. `NoStarvation` is therefore stated for executions in
which blocking stops.

## 4. Proofs

All proofs are for instances of any size: any set of threads, queues, keys,
pages and regions, any buffer. Theorems of one module share one inductive
invariant, called `IInv`, with one lemma per action; TLC has checked each `IInv`
on the instance of the module's run.

* **Queues** (`ProcQueue_proofs`). For the representation predicate `Spells`
  (links and ends agree with a sequence), each operator is shown to turn a memory
  that spells the queues into one that spells the changed queues and leaves the
  other queues alone: `AppendProc`, `RemoveProc`, `PopIsRemove`, `BlockOn`,
  `UnblockHead`, `RrNextFacts`, `CursorStepsBack`.
* **Scheduler** (`Scheduler_proofs`). `TypeOK`, `QueuesWellFormed`,
  `LiveThreadsQueued`, `CursorFollowsRunning` and `HaltOnlyWhenIdle` are
  invariants. None is inductive alone: the links stay right only because the
  thread that blocks is on the run queue (cursor and liveness of threads), the
  cursor stays right only because the links are, and `append_proc` is right only
  for a thread with NULL links. `IInv` is their conjunction with `PhasesFit`,
  which says that only a thread is ever between the halves of `PROC_block_on`.
  `Refinement` shows that each step is a step of `RoundRobin` or leaves it
  unchanged.
* **Threads and switch** (`Proc_proofs`). Supposing that no interrupt arrives
  inside CONTEXT_SWITCH (`~WindowOpen`), all invariants of run `proc_quiet` hold
  and `Proc` implements `Scheduler`. `Control` says, for every point at which the
  CPU can be, who `curr_proc`, `next_proc`, the cursor and the saved contexts
  name there, so that the load in CONTEXT_SWITCH is known to load the thread
  `PROC_reschedule` chose. `WaitersRead` says that whoever sleeps on the keyboard
  is inside `getc`. `ReaderPerCharacter` counts: the cardinality of the woken
  readers is followed through every append, removal and read. The hypothesis is
  not there to help the proof: without it the theorems are false (`proc_switch`, and
  section 5).
* **Circular buffer** (`CircBuff_proofs`). `IInv` is `TypeOK`, `HoldsQueue` (the
  array between the heads is the queue, at every point of a read) and
  `ReaderSlotSafe` (the slot being read is not one the producer may write).
  `FullExactlyAtCapacity` follows from it, and `Refinement` shows the buffer
  implements `Fifo`.
* **Serial** (`Serial_proofs`). Types hold in any case; the other three invariants
  with `~WindowOpen`, and `serial_open` shows what happens otherwise.
  `WaitingForInterrupt` is about status and UART, but is true only because
  whoever fills the UART found the driver idle and is alone with it. `Exclusion`
  and `Filling` say so; `Answered` and `Draining` say what the end of a hand-over
  will find.
* **Keyboard** (`Keyboard_proofs`). `InitHonest` says what holds at the end of
  `KBD_init`; the invariant is about the dialogue that leads there. `Dialogue`:
  one command at a time, at most one byte under way that can be taken for an
  answer, and none while the driver waits for none. `Obeyed`: a command whose ACK
  is under way has been carried out. `Configured`: the controller stays as
  `configure` and CMD_ENABLE_P1 left it. The self test's byte and early keys are
  neither ACK nor RESEND, which is part of `KeyboardAssumption` (scan codes of
  set 2 are below 0x84, the answers are 0xFA and 0xFE).
  `TypedArrives` compares what was typed with what was decoded, while bytes are
  still on their way. `Accounted` relates the two through the bytes: `Meant` says how
  bytes are meant to be read, one at a time; the driver has read what led to some
  state of that reading (`Heard`), the bytes under way (`Stream`) lead from there
  (`Leads`) to another, and that one is what the user did (`Done`). The states in
  between are the witness: a key moved adds one at the end, the handler takes one
  off at the front, and no induction over the bytes is needed. `Heard` holds the
  losses: a release that belongs to no break code will cost one character, and
  was paid for by an unknown key. The account begins late: keys pressed before
  the reset may have been flushed by `configure`. But a `KBD_init` that succeeds
  has seen the keyboard forget its bytes after the reset, or it would have read
  the self test's byte for an answer (`Doomed`), and there the history starts anew.
* **Memory** (`Memory_proofs`). For every memory map: types, and `MappedIffOwned`.
  Its invariant `Layout` says where stacks and heap pages lie (`Space`: stacks in
  use or freed are a step apart, so that pages and guard pages never meet), that
  one operation runs at a time (`Phase`), and which pages are mapped in the middle
  of one (`Pages`). What is proved of frames supposes two things of the memory
  map and of the execution. `TidyMap`: regions ascend, share no page and each
  holds the beginning of a page, and neither kernel nor tags straddle the end of
  a region. `InMemory`: the bump pointer has not gone past the last region; when it
  does, the code's late test (section 5) hands out page 0 again, and the theorems
  say nothing more. `Bump` (frames handed out are aligned and behind the bump
  pointer) and `Frames` (every frame handed out has exactly one use) then give
  `FramesExclusive` and `NothingLeaked`. `FramesUsable` further needs `PageBorders`:
  regions end, and kernel and tags begin, on page borders. Both maps in `MCMemory` are
  tidy; the one of run `memory_frames` has no page borders, and the property
  fails there.
* **Heap and file system** (`Fs_proofs`). `HeapSound` is an invariant for every disk,
  every set of pools and any number of open files. `Kmalloc` and `Kfree` show what
  the two calls do to a heap that is `HeapOK`: besides `PoolsSound`, free blocks of
  different pools are different, and blocks lie below the end of the heap, so that
  a new page brings new blocks (its blocks differ because `block_size` divides the
  page). What frees a block is right only if the block is in use, and nothing
  points to it afterwards only if it had one purpose: `Ownership` gives every
  block in use one purpose, `Pointers` says that the inodes pointed to and the files in
  slots exist, and `Points` what the thread has in its hands at each point.
  `CacheCoherent` and `TypeOK` hold on every disk laid out soundly, whatever paths
  are asked for; a walk through a result that was never set ends at the point "wild".
  Their invariant `DInv` follows a block from the medium to its reader. `Devices`:
  drive and partition say of themselves what the disk says. `Transfer`: while the
  driver polls, the bytes in the drive's registers mean the block asked for
  (`SixDigits`), and when the read returns that block is in the buffer it was meant for.
  `Chains`: cluster numbers at hand are clusters of the disk, 0 or the end, so that the
  sector of their entry exists and the entry read is theirs (`NextFacts`). `Cursors`:
  positions and lengths stay within file and request.
  `Walks` is the invariant of `FS_inode_for_path` and the scan of `FAT_readdir` under
  it. The directory walked is the one the path leads to so far (`OnPath`), and the block
  at hand holds that directory's entries there (`BlockEntries`). Up to the entry at
  hand, the name buffer spells the long name under way (`Spelling`), although its
  pieces come last first and a name may begin in one cluster and end in the next, and
  `path_search.result` points to what the item names if that was seen already
  (`Outcome`). `NameTest` is the heart of it: `strcmp` finds the item exactly at
  the entries that go by it, whatever an earlier name left in the buffer. If the file
  asked for exists, every item is found, and the walk ends at its size and first
  cluster. For a missing file that is false, as `disk_missing` shows; so `Walks`
  speaks of existing files only, and `FilesRefined` supposes `PathsExist`.
  What a sound directory is, is `DirsAssumption`: every long entry is a piece of the
  long name of an entry behind it, the pieces numbered and only the last one
  terminated; subdirectories are marked, have size 0 and clusters enough. It also
  asks two things of path items: they do not begin with a dot, and their first piece
  is not a classic name that the buffer holds unterminated. `PathsExist` says
  that every path asked for leads from the root through directories to its file, each
  item naming one object only. These are the restrictions of
  `disk` in section 3, and outside most of them the code does something else
  (section 5).
  `FilesRefined` shows that with `PathsExist`, `Fs` implements `Files`. Two more invariants carry it:
  `Named` (an open file has the size and first cluster of its path) and `Progress`,
  the loop invariant of `FAT_file_read`: the bytes gathered are those of the file
  from where the read began (`Gathered`), and the cluster at hand is the cursor's, or,
  while the next one is looked up, the one before, unless the request or the file is
  at its end (`Placing`). `ChainNext` says that the table leads from each cluster of
  a file to the next, `Piece` that a cluster's bytes are the file's there. Only
  the end of a read, and open, lseek, close and taking the bytes, are steps of
  `Files`; the position of a file being read is where the read began, so that all others
  stutter.

The assumptions are those named in the modules: the constants are distinct,
`RunQ` is a queue, sizes are positive, and the like.

**Model-checked only.** All liveness (`NoStarvation`, `KeysAreServed`,
`WritersWoken`, `OutputDrains`, `SearchEnds`, `Responsive`, `CallsReturn`): the prover does not handle
fairness.
Every invariant and every refinement that a passing run checks is a theorem.

## 5. Findings

Five runs show that the code and its own comments disagree; `PROJECT.json` quotes
them. `proc.c:84`: the switch window. `serial.c:128`: the status race.
`pf_alloc.c:84`: only the first byte of a page is tested. `page_table.c:247`: no
invlpg. `vfs.c:104`: `path_search.result` is tested for NULL but never set to it, so
that a missing file opens as the directory it is missing from (and reads as an empty
file), an item missing in the middle of a path is skipped, and a missing first
item is whatever the stack held.

Three more show up in the models when a configuration is changed:

* `kernel.c:65`, a second consequence of the switch window. A key pressed while the
  CPU switches to kmain makes the reader runnable; kmain goes on behind `PROC_run`
  and executes hlt without testing the run queue again. `ProcSwitch.cfg` with
  `HaltOnlyWhenIdle` as its invariant gives the trace.
* `pf_alloc.c:89`. The region index is compared with `num_regions` before it is
  incremented, so that, when memory runs out, the zero entry behind the last region
  is entered and page 0 handed out a second time, in place of the panic "No
  physical memory remaining!". With a second region that ends at 44, `FramesExclusive`
  fails in `Memory.cfg`.
* `vfs.c:33`. `FS_probe` never goes on to the next file system, so that a partition
  without a FAT signature is probed for ever, and the NULL that `kernel.c:92` tests
  for is never returned. With `FatSignature = FALSE`, `CallsReturn` fails in `Disk.cfg`.

The `memory` run further assumes that the multiboot tags begin on a page border, or
in a page the kernel covers; the code tests the first byte of a page only.

Keyboard: a break code of an unknown key (an arrow, say) costs the next key
pressed; letting go of one shift key while the other is down ends the shift.
`TypedArrives` states these losses exactly, and that there are no others. The self
test's byte and a key pressed during initialisation are taken for answers and
make it fail; after three RESENDs the last answer is not read. The comments at
`keyboard.c:181` have the clock bits the wrong way round.

File system, outside the restrictions of `disk`: names that begin with a dot are
never found (`fat.c:318`). Classic 8.3 names are terminated only if the attribute
byte is 0 (`fat.c:104`); otherwise they never match, and if it is they match with
their blanks. A
name of exactly 13 characters ends in what the buffer held. A cursor beyond the end of
the file makes the unsigned difference huge (`fat.c:187`). If the first partition is not
FAT32, a NULL device is probed (`kernel.c:92`). With two FAT32 partitions the list of
block devices becomes a cycle, because the copy of the drive's record keeps its
`next` (`part.c:73`); nothing walks the list. Inodes of the directories walked and of
closed files are never freed.

## 6. Plan

Done: queues, scheduler, switch, idle loop, circular buffer, `getc`, serial, page
frames, demand paging, stacks, page heap, keyboard, heap pools, ATA, partitions,
VFS and FAT; the proofs above.

Not modelled, and why: boot code, GDT and TSS, the layout of the IDT, the
construction of the first page tables, `free_multiboot_sections` and multiboot parsing run once, before
the modelled state exists, in one order. `printk`, `string.c` and the VGA console
turn values into characters without deciding anything. The ELF loader is a caller of the file
operations like any other. Which registers survive a switch (CONTEXT_SWITCH
leaves `rbp` alone) depends on the compiler. The demo game, the self tests and the
user program hold none of the kernel's logic.
