--------------------------------- MODULE Files ---------------------------------
(***************************************************************************)
(* What the file system promises whoever opens files: a handle is a file   *)
(* and a position; reading returns the bytes from the position on, as many *)
(* as were asked for and are left, and moves the position behind them.     *)
(* Disk blocks, clusters, caches and directories are not visible.          *)
(***************************************************************************)
EXTENDS Integers, Sequences

CONSTANTS
    Slots,          \* the caller's file_t pointers
    Paths,
    Lengths,        \* lengths read
    Closed

VARIABLES
    content,        \* path -> the bytes of the file; nobody writes
    handles,        \* slot -> Closed, or file and position
    got             \* the bytes read, until the caller has taken them

Left(h) == Len(content[h.path]) - h.pos
Smaller(a, b) == IF a < b THEN a ELSE b

FilesInit == handles = [s \in Slots |-> Closed] /\ got = << >>

Open(s, p) ==
    /\ handles[s] = Closed
    /\ handles' = [handles EXCEPT ![s] = [path |-> p, pos |-> 0]]
    /\ UNCHANGED got

Read(s, len) ==
    /\ handles[s] # Closed
    /\ LET h == handles[s]
           n == Smaller(len, Left(h))
       IN /\ got' = SubSeq(content[h.path], h.pos + 1, h.pos + n)
          /\ handles' = [handles EXCEPT ![s].pos = @ + n]

(* The whole file, wherever the position is. *)
Mmap(s) ==
    /\ handles[s] # Closed
    /\ got' = content[handles[s].path]
    /\ UNCHANGED handles

Seek(s, offset) ==
    /\ handles[s] # Closed
    /\ handles' = [handles EXCEPT ![s].pos = offset]
    /\ UNCHANGED got

Close(s) ==
    /\ handles[s] # Closed
    /\ handles' = [handles EXCEPT ![s] = Closed]
    /\ UNCHANGED got

Take == got' = << >> /\ UNCHANGED handles

FilesNext ==
    /\ UNCHANGED content
    /\ Take \/ \E s \in Slots :
          \/ \E p \in Paths : Open(s, p)
          \/ \E len \in Lengths : Read(s, len)
          \/ Mmap(s)
          \/ handles[s] # Closed /\ \E offset \in 0..Len(content[handles[s].path]) : Seek(s, offset)
          \/ Close(s)

FilesSpec == FilesInit /\ [][FilesNext]_<<content, handles, got>>
===============================================================================
