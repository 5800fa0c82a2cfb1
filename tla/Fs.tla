----------------------------------- MODULE Fs -----------------------------------
(***************************************************************************)
(* From the disk to open files, as kmain_thread in kernel.c puts it        *)
(* together: the drive and its partitions (dev/ata.c, fs/part.c,           *)
(* fs/block.c), the FAT32 file system fs/fat.c with its one-sector cache   *)
(* of the table, the path walk of fs/vfs.c, and the file operations a      *)
(* caller such as the ELF loader uses.  One thread does all of it; what    *)
(* takes turns with it is the drive.                                       *)
(*                                                                         *)
(* The disk is given by where each file and directory lies (layout) and    *)
(* what the directories say.  A byte is named by its block and its place   *)
(* in the block.  A long name comes in pieces of 13 characters; a piece    *)
(* may hold the terminating zero.                                          *)
(***************************************************************************)
EXTENDS Ata, Functions

CONSTANTS
    PartTypes,      \* MBR: which of the four partitions are FAT32 (LBA)
    PartStart,      \* MBR: lba_addr of partition 0
    PartLen,        \* MBR: num_sectors of partition 0
    BootSignatures, \* whether the MBR's signature is there
    FatSignature,   \* whether the FAT signature is there
    reserved_sectors, num_fats, sectors_per_fat,
    EntsPerFat,     \* table entries in a sector (128)
    DirEnts,        \* DIR_ENTS_PER_SECTOR (16)
    ClusterSize,    \* bytes in a cluster (512)
    TABLE_VAL_MAX,
    EntryMod,       \* 2^28: the bits above are reserved
    OffMod,         \* 2^64, the range of off_t
    NamePieces,     \* pieces the name buffer of FAT_readdir holds
    Dotted,         \* the names, and pieces of names, that begin with a dot
    Objects,        \* files and directories, and files that are only asked for
    Dirs,           \* directory -> its entries
    Sizes,          \* object -> st_size
    Layouts,        \* the possible maps: object -> its clusters, in order
    PathOf,         \* file -> its path, as a sequence of names
    Root,
    SizeOfNode, SizeOfBlock,    \* sizes of inodes, names and files, and of 512-byte buffers
    Slots, Lengths, MaxLookups,
    Garbage         \* the value of a local variable before it is set

Smaller(a, b) == IF a < b THEN a ELSE b

cluster_to_sector(c) == reserved_sectors + sectors_per_fat * num_fats + (c - 2)

(* A sound disk: clusters have an entry in the table, lie in the partition *)
(* and belong to one file, which has enough of them.                       *)
WellPlaced(l) ==
    /\ l \in [Objects -> Seq(2..(TABLE_VAL_MAX - 1))]
    /\ \A o \in Objects : \A i \in 1..Len(l[o]) :
          l[o][i] < sectors_per_fat * EntsPerFat /\ cluster_to_sector(l[o][i]) < PartLen
    /\ \A o, p \in Objects : \A i \in 1..Len(l[o]), j \in 1..Len(l[p]) :
          l[o][i] = l[p][j] => o = p /\ i = j
    /\ \A o \in Objects : Sizes[o] <= Len(l[o]) * ClusterSize

ASSUME FsAssumption ==
    /\ {reserved_sectors, num_fats, sectors_per_fat, EntsPerFat, DirEnts, ClusterSize}
          \subseteq Nat \ {0}
    /\ PartStart \in Nat /\ PartLen \in Nat /\ PartStart + PartLen <= NumSectors
    /\ reserved_sectors + sectors_per_fat * num_fats <= PartLen
    /\ EntryMod \in Nat /\ TABLE_VAL_MAX \in 1..(EntryMod - 1) /\ OffMod \in Nat
    /\ BootSignatures \subseteq BOOLEAN /\ FatSignature \in BOOLEAN
    /\ Sizes \in [Objects -> 0..(OffMod - 1)]
    /\ Root \in Objects /\ DOMAIN PathOf \subseteq Objects
    /\ \A l \in Layouts : WellPlaced(l)
    /\ \A d \in DOMAIN Dirs :
          /\ d \in Objects /\ Dirs[d] \in Seq(Range(Dirs[d]))
          /\ \A e \in Range(Dirs[d]) : ~e.lfn => e.object \in Objects \cup {NULL}
    /\ Fits(SizeOfNode) /\ Fits(SizeOfBlock)
    /\ {"mbr", "sb", "fat", "dir", "file"} \subseteq Buffers
    /\ NULL \notin Slots /\ Lengths \subseteq Nat /\ MaxLookups \in Nat /\ Garbage # NULL
    /\ NULL \notin [path : DOMAIN PathOf, pos : Nat]

(* The n entries before entry k of directory d hold its long name, the     *)
(* last piece first.                                                       *)
LongName(d, k, n) ==
    /\ n \in 1..NamePieces /\ n < k /\ ~Dirs[d][k].lfn
    /\ \A i \in 1..n : LET e == Dirs[d][k - i]
                       IN e.lfn /\ e.order = i /\ e.ends = (i = n)

(* Entry k of directory d goes by the name of a path item: its long name,  *)
(* or, if it has none, its classic one, with its blanks, if that ends in   *)
(* the buffer.  What goes by that name.                                    *)
Entitled(d, k, item) ==
    \/ LongName(d, k, Len(item)) /\ \A i \in 1..Len(item) : Dirs[d][k - i].text = item[i]
    \/ /\ ~Dirs[d][k].lfn /\ Dirs[d][k].ends /\ item = <<Dirs[d][k].text>>
       /\ k > 1 => ~Dirs[d][k - 1].lfn
CalledBy(d, item) == {Dirs[d][k].object : k \in {j \in 1..Len(Dirs[d]) : Entitled(d, j, item)}}

(* A sound directory: every long entry is a piece of a long name, and      *)
(* directories are marked as such and have no size.                        *)
WellFormed(d) ==
    /\ \A k \in 1..Len(Dirs[d]) :
          IF Dirs[d][k].lfn
            THEN \E j \in 1..Len(Dirs[d]) : \E n \in 1..NamePieces :
                     LongName(d, j, n) /\ k \in (j - n)..(j - 1)
            ELSE /\ Dirs[d][k].dir = (Dirs[d][k].object \in DOMAIN Dirs)
                 /\ Dirs[d][k].ends \in BOOLEAN
    /\ Sizes[d] = 0
    /\ \A l \in Layouts : l[d] # << >> /\ Len(Dirs[d]) <= Len(l[d]) * DirEnts

(* A path leads from the root through the directories via to file o. *)
LeadsTo(p, via, o) ==
    /\ via[1] = Root
    /\ \A i \in 1..(Len(p) - 1) : CalledBy(via[i], p[i]) = {via[i + 1]}
    /\ CalledBy(via[Len(p)], p[Len(p)]) = {o}

(* A file that is asked for exists; they all do. *)
Exists(o) == \E via \in [1..Len(PathOf[o]) -> DOMAIN Dirs] : LeadsTo(PathOf[o], via, o)
PathsExist == \A o \in DOMAIN PathOf : Exists(o)

(* A path item does not begin with a dot, which FAT_readdir never shows,   *)
(* nor like a classic name that does not end in the buffer: 11 characters, *)
(* the attribute byte and what was there.                                  *)
Unmistakable(item) ==
    /\ item \in Seq(Range(item)) \ {<< >>}
    /\ item[1] \notin Dotted
    /\ \A d \in DOMAIN Dirs : \A e \in Range(Dirs[d]) :
          ~e.lfn /\ ~e.ends => e.text # item[1]

ASSUME DirsAssumption ==
    /\ NamePieces \in Nat \ {0} /\ Root \in DOMAIN Dirs /\ NULL \notin Objects
    /\ \A d \in DOMAIN Dirs : WellFormed(d)
    /\ \A o \in DOMAIN PathOf :
          /\ PathOf[o] \in Seq(Range(PathOf[o])) \ {<< >>}
          /\ \A item \in Range(PathOf[o]) : Unmistakable(item)

VARIABLES
    layout, boot_sig,       \* the disk
    at, cont,               \* where kmain_thread is; where it returns to from get_next_cluster_num
    partitions,             \* parse_MBR's result
    sb, root_inode,         \* FAT_detect's result
    inodes, files,          \* block -> the inode or the file_t in it
    path, cwd, result,      \* FS_inode_for_path; asked is the file whose path it is
    asked, lookups,
    data, name, valid_classic_entry, dir_ent,   \* FAT_readdir
    cluster_num,            \* FAT_readdir and FAT_file_read
    slot, skip, len, dst, start, mmap,  \* FAT_file_read, FAT_file_mmap
    cached_sector,          \* get_FAT; its cached_FAT is buf["fat"]
    slots, got              \* the caller's open files, and the bytes a read gave it

disk == <<layout, boot_sig>>
mount == <<partitions, sb, root_inode, devs, blk>>
walk == <<path, cwd, result, asked, lookups>>
dir == <<data, name, valid_classic_entry, dir_ent>>
read == <<slot, skip, len, dst, start, mmap>>
caller == <<slots, got>>
call == <<kind, work, status, regs, probe, drive, rd, buf>>
vars == <<ataVars, disk, at, cont, partitions, sb, root_inode, inodes, files, walk, dir,
          cluster_num, read, cached_sector, caller>>

-----------------------------------------------------------------------------
(* The disk (external): FAT32 as it is laid out. *)

Fat0 == PartStart + reserved_sectors
Data0 == Fat0 + num_fats * sectors_per_fat
EOC == EntryMod - 1

(* The value of a table entry, and the entry itself, whose upper bits are  *)
(* reserved.  Entries 0 and 1 do not stand for clusters.                   *)
Clusters == UNION {Range(layout[o]) : o \in Objects}
Follows(c, d) ==
    \E o \in Objects : \E i \in 1..Len(layout[o]) - 1 : layout[o][i] = c /\ layout[o][i + 1] = d

FatValue(c) ==
    IF \E d \in Clusters : Follows(c, d) THEN CHOOSE d \in Clusters : Follows(c, d) ELSE EOC

FatEntry(block, n) ==
    IF block \in Fat0..(Data0 - 1)
      THEN LET c == ((block - Fat0) % sectors_per_fat) * EntsPerFat + n
           IN FatValue(c) + (c % 2) * EntryMod
      ELSE 0

(* The entries in a block of a directory. *)
DirBlock(block) ==
    LET holds(o) == \E i \in DOMAIN layout[o] : Data0 + layout[o][i] - 2 = block
        o == CHOOSE o \in DOMAIN Dirs : holds(o)
        i == CHOOSE i \in DOMAIN layout[o] : Data0 + layout[o][i] - 2 = block
    IN IF \E d \in DOMAIN Dirs : holds(d)
         THEN SubSeq(Dirs[o], (i - 1) * DirEnts + 1, Smaller(i * DirEnts, Len(Dirs[o])))
         ELSE << >>

FirstCluster(o) == IF layout[o] = << >> THEN 0 ELSE layout[o][1]

(* The bytes of a file. *)
Content(o) ==
    [k \in 1..Sizes[o] |-> <<Data0 + layout[o][((k - 1) \div ClusterSize) + 1] - 2,
                             (k - 1) % ClusterSize>>]

-----------------------------------------------------------------------------
Blank == [n \in 1..NamePieces |-> [text |-> Garbage, ends |-> FALSE]]

Init ==
    /\ AtaInit
    /\ layout \in Layouts /\ boot_sig \in BootSignatures
    /\ at = "probe" /\ cont = "none"
    /\ partitions = << >> /\ sb = NULL /\ root_inode = NULL
    /\ inodes = << >> /\ files = << >>
    /\ path = << >> /\ cwd = NULL /\ result = NULL /\ asked = NULL /\ lookups = 0
    /\ data = NULL /\ name = Blank /\ valid_classic_entry = TRUE /\ dir_ent = 1
    /\ cluster_num = 0
    /\ slot = NULL /\ skip = 0 /\ len = 0 /\ dst = << >> /\ start = 0 /\ mmap = FALSE
    /\ cached_sector = 0
    /\ slots = [s \in Slots |-> NULL] /\ got = << >>

(* A buffer and the cluster number go out of use. *)
Forget(b) == buf' = [buf EXCEPT ![b] = NULL] /\ cluster_num' = 0

(* The thread is at point p, and no block read is under way. *)
At(p) == at = p /\ rd.pc = "idle"

(* ... in the caller, which has taken what it read last. *)
Called == At("ready") /\ got = << >>

(* ... at point p, where a block read has just returned. *)
Back(p) == at = p /\ rd.pc = "back" /\ rd' = Idle

-----------------------------------------------------------------------------
(* kmain_thread: ATA_probe has returned; parse_MBR reads block 0. *)
parse_MBR_begin ==
    /\ At("probe")
    /\ \/ /\ probe = "none"
          /\ at' = "stopped"
          /\ UNCHANGED call
       \/ /\ probe = "found"
          /\ at' = "mbr"
          /\ read_block(drive, 0, "mbr")
    /\ UNCHANGED <<disk, cont, mount, heap, inodes, files, walk, dir, cluster_num, read,
                   cached_sector, caller>>

parse_MBR ==
    /\ Back("mbr")
    /\ at' = IF buf["mbr"] # 0 \/ ~boot_sig THEN "stopped" ELSE "part"
    /\ UNCHANGED <<kind, work, status, regs, probe, drive, buf, disk, cont, mount, heap,
                   inodes, files, walk, dir, cluster_num, read, cached_sector, caller>>

(* One turn of parse_MBR's loop: the partition's device, a copy of the     *)
(* drive's (with its link in the list of devices), and its name.           *)
parse_partition ==
    /\ At("part")
    /\ IF PartTypes[Len(partitions) + 1]
         THEN LET d == kmalloc(heap, SizeOfDev)
              IN /\ heap' = kmalloc(d.heap, SizeOfNode).heap
                 /\ partitions' = Append(partitions, d.block)
                 /\ devs' = Put(devs, d.block, [devs[drive] EXCEPT !.type = "PARTITION",
                                !.lba_offset = PartStart, !.num_sectors = PartLen])
                 /\ blk' = BLK_register([blk EXCEPT !.next = Put(@, d.block, @[drive])], d.block)
         ELSE partitions' = Append(partitions, NULL) /\ UNCHANGED <<heap, devs, blk>>
    /\ at' = IF Len(partitions') = 4 THEN "register" ELSE "part"
    /\ UNCHANGED <<call, disk, cont, sb, root_inode, inodes, files, walk, dir, cluster_num,
                   read, cached_sector, caller>>

(* FS_register(FAT_detect), and FS_probe(partitions[0]), which reads the   *)
(* name of a device that may be NULL.                                      *)
FS_register ==
    /\ At("register")
    /\ heap' = kmalloc(heap, SizeOfNode).heap
    /\ at' = IF partitions[1] = NULL THEN "wild" ELSE "detect"
    /\ UNCHANGED <<call, disk, cont, mount, inodes, files, walk, dir, cluster_num, read,
                   cached_sector, caller>>

(* One turn of FS_probe's loop: FAT_detect, to its read.  The loop never   *)
(* goes on to another file system.                                         *)
FS_probe ==
    /\ At("detect")
    /\ LET m == kmalloc(heap, SizeOfBlock)
       IN sb' = m.block /\ heap' = m.heap
    /\ at' = "detected"
    /\ read_block(partitions[1], 0, "sb")
    /\ UNCHANGED <<disk, cont, partitions, root_inode, devs, blk, inodes, files, walk, dir,
                   cluster_num, read, cached_sector, caller>>

(* FAT_init_inode: the heap and the inodes after it. *)
FAT_init_inode(ino, is_dir, size) ==
    LET m == kmalloc(heap, SizeOfNode)
    IN [heap |-> m.heap, inode |-> m.block,
        inodes |-> Put(inodes, m.block, [st_ino |-> ino, dir |-> is_dir, st_size |-> size])]

FAT_detect ==
    /\ Back("detected")
    /\ IF buf["sb"] = PartStart /\ FatSignature
         THEN LET m == FAT_init_inode(FirstCluster(Root), TRUE, 0)
              IN /\ heap' = m.heap /\ inodes' = m.inodes /\ root_inode' = m.inode
                 /\ at' = "ready"
                 /\ UNCHANGED sb
         ELSE /\ heap' = kfree(heap, sb) /\ sb' = NULL
              /\ at' = "detect"
              /\ UNCHANGED <<inodes, root_inode>>
    /\ UNCHANGED <<kind, work, status, regs, probe, drive, buf, disk, cont, partitions, devs,
                   blk, files, walk, dir, cluster_num, read, cached_sector, caller>>

-----------------------------------------------------------------------------
(* get_FAT and get_next_cluster_num, for whoever set cont. *)

(* A slip: the cache counts as filled by any sector. *)
fat_sector_any == IF cached_sector = 0 THEN reserved_sectors + cluster_num \div EntsPerFat
                                       ELSE cached_sector

fat_sector == reserved_sectors + cluster_num \div EntsPerFat

get_FAT_miss ==
    /\ At("next") /\ cached_sector # fat_sector
    /\ at' = "fill"
    /\ read_block(partitions[1], fat_sector, "fat")
    /\ UNCHANGED <<disk, cont, mount, heap, inodes, files, walk, dir, cluster_num, read,
                   cached_sector, caller>>

(* Whatever read_block has returned. *)
get_FAT_fill ==
    /\ Back("fill")
    /\ cached_sector' = fat_sector
    /\ at' = "next"
    /\ UNCHANGED <<kind, work, status, regs, probe, drive, buf, heap, disk, cont, mount,
                   inodes, files, walk, dir, cluster_num, read, caller>>

(* A slip: the reserved bits are taken for part of the cluster number. *)
next_cluster_raw == FatEntry(buf["fat"], cluster_num % EntsPerFat)

next_cluster == FatEntry(buf["fat"], cluster_num % EntsPerFat) % EntryMod

get_next_cluster_num ==
    /\ At("next") /\ cached_sector = fat_sector
    /\ cluster_num' = next_cluster
    /\ at' = cont /\ cont' = "none"
    /\ UNCHANGED <<call, disk, mount, heap, inodes, files, walk, dir, read,
                   cached_sector, caller>>

(* A slip: clusters are read into the buffer of the cached sector. *)
FAT_read_cluster_shared(b) == read_block(partitions[1], cluster_to_sector(cluster_num), "fat")

FAT_read_cluster(b) == read_block(partitions[1], cluster_to_sector(cluster_num), b)

-----------------------------------------------------------------------------
(* FS_inode_for_path, for the path of file o.  Its local variable          *)
(* path_search.result is not initialised.                                  *)
FS_inode_for_path(o) ==
    /\ Called /\ lookups < MaxLookups
    /\ asked' = o /\ lookups' = lookups + 1
    /\ path' = PathOf[o]
    /\ cwd' = root_inode
    /\ result' = Garbage
    /\ at' = "walk"
    /\ UNCHANGED <<call, disk, cont, mount, heap, inodes, files, dir, cluster_num, read,
                   cached_sector, caller>>

(* The top of its loop: FAT_readdir(cwd), if it is a directory. *)
FAT_readdir_begin ==
    /\ At("walk")
    /\ IF inodes[cwd].dir
         THEN LET m == kmalloc(heap, SizeOfBlock)
              IN /\ data' = m.block /\ heap' = m.heap
                 /\ cluster_num' = inodes[cwd].st_ino
                 /\ name' = Blank /\ valid_classic_entry' = TRUE
                 /\ at' = "dir"
                 /\ UNCHANGED result
         ELSE /\ result' = NULL
              /\ at' = "walked"
              /\ UNCHANGED <<data, heap, cluster_num, name, valid_classic_entry>>
    /\ UNCHANGED <<dir_ent, call, disk, cont, mount, inodes, files, path, cwd, asked, lookups, read,
                   cached_sector, caller>>

(* FAT_readdir: the next cluster, or the end. *)
FAT_readdir_cluster ==
    /\ At("dir")
    /\ IF cluster_num < TABLE_VAL_MAX
         THEN FAT_read_cluster("dir") /\ at' = "scan" /\ UNCHANGED <<data, heap, cluster_num>>
         ELSE /\ heap' = kfree(heap, data) /\ data' = NULL
              /\ Forget("dir")
              /\ at' = "walk_next"
              /\ UNCHANGED <<kind, work, status, regs, probe, drive, rd>>
    /\ UNCHANGED <<disk, cont, mount, inodes, files, walk, name, valid_classic_entry, dir_ent,
                   read, cached_sector, caller>>

(* strcmp of the name buffer with a path item.  Only a piece that ends the *)
(* string can be the last one.                                             *)
SameName(buffer, item) ==
    \A n \in DOMAIN item : buffer[n].text = item[n] /\ buffer[n].ends = (n = Len(item))

(* A slip: the inode that was looked for is freed like the others. *)
path_cb_frees_all(m) ==
    /\ heap' = kfree(m.heap, m.inode)
    /\ inodes' = m.inodes
    /\ result' = IF SameName(name', Head(path)) THEN m.inode ELSE result

(* path_cb, with FAT_inode_free.  (Inodes made here have no data.) *)
path_cb(m) ==
    IF SameName(name', Head(path))
      THEN result' = m.inode /\ heap' = m.heap /\ inodes' = m.inodes
      ELSE heap' = kfree(m.heap, m.inode) /\ UNCHANGED <<result, inodes>>

get_long_dir_ent_name(e) == [name EXCEPT ![e.order] = [text |-> e.text, ends |-> e.ends]]

(* A classic name comes with the attribute byte behind it, which ends the  *)
(* string only if it is 0.                                                 *)
get_dir_ent_name(e) == [name EXCEPT ![1] = [text |-> e.text, ends |-> e.ends]]

(* What the entry of an object says of its place and size. *)
EntCluster(e) == IF e.object = NULL THEN 0 ELSE FirstCluster(e.object)
EntSize(e) == IF e.object = NULL THEN 0 ELSE Sizes[e.object]

FAT_readdir_scan ==
    /\ Back("scan")
    /\ at' = "entry" /\ dir_ent' = 1
    /\ UNCHANGED <<kind, work, status, regs, probe, drive, buf, disk, cont, mount, heap, inodes,
                   files, walk, data, name, valid_classic_entry, cluster_num, read,
                   cached_sector, caller>>

(* FAT_readdir: one directory entry, or the end of the cluster. *)
FAT_readdir_entry ==
    /\ At("entry")
    /\ IF dir_ent > Len(DirBlock(buf["dir"]))
         THEN /\ at' = "next" /\ cont' = "dir"
              /\ UNCHANGED <<heap, inodes, name, valid_classic_entry, result, dir_ent>>
         ELSE LET e == DirBlock(buf["dir"])[dir_ent]
              IN /\ valid_classic_entry' = ~e.lfn
                 /\ name' = IF e.lfn THEN get_long_dir_ent_name(e)
                            ELSE IF valid_classic_entry THEN get_dir_ent_name(e) ELSE name
                 /\ IF e.lfn \/ name'[1].text \in Dotted
                      THEN UNCHANGED <<heap, inodes, result>>
                      ELSE path_cb(FAT_init_inode(EntCluster(e), e.dir, EntSize(e)))
                 /\ dir_ent' = dir_ent + 1
                 /\ UNCHANGED <<at, cont>>
    /\ UNCHANGED <<call, disk, mount, files, path, cwd, asked, lookups, data, cluster_num, read,
                   cached_sector, caller>>

(* FS_inode_for_path: the rest of its loop.  A result that was never set   *)
(* is a pointer to anywhere.                                               *)
walk_next ==
    /\ At("walk_next")
    /\ IF result = NULL \/ Len(path) = 1
         THEN at' = "walked" /\ UNCHANGED <<cwd, path>>
         ELSE /\ at' = IF result \in DOMAIN inodes THEN "walk" ELSE "wild"
              /\ cwd' = result /\ path' = Tail(path)
    /\ UNCHANGED <<call, disk, cont, mount, heap, inodes, files, result, asked, lookups, dir,
                   cluster_num, read, cached_sector, caller>>

(* The caller opens the inode it was given: FAT_file_open. *)
FAT_file_open(s) ==
    /\ At("walked") /\ slots[s] = NULL
    /\ IF result \in DOMAIN inodes
         THEN LET m == kmalloc(heap, SizeOfNode)
              IN /\ heap' = m.heap
                 /\ files' = Put(files, m.block, [inode |-> result, path |-> asked, cursor |-> 0,
                                                  first_cluster |-> inodes[result].st_ino])
                 /\ slots' = [slots EXCEPT ![s] = m.block]
                 /\ at' = "ready"
         ELSE at' = "wild" /\ UNCHANGED <<heap, files, slots>>
    /\ path' = << >> /\ cwd' = NULL /\ result' = NULL /\ asked' = NULL
    /\ name' = Blank /\ dir_ent' = 1
    /\ UNCHANGED <<call, disk, cont, mount, inodes, lookups, data, valid_classic_entry,
                   cluster_num, read, cached_sector, got>>

-----------------------------------------------------------------------------
File(s) == files[slots[s]]
Inode(s) == inodes[File(s).inode]

SetCursor(s, offset) == files' = [files EXCEPT ![slots[s]].cursor = offset]

FAT_file_lseek(s, offset) ==
    /\ Called /\ slots[s] # NULL
    /\ SetCursor(s, offset)
    /\ UNCHANGED <<call, disk, at, cont, mount, heap, inodes, walk, dir, cluster_num, read,
                   cached_sector, caller>>

FAT_file_close(s) ==
    /\ Called /\ slots[s] # NULL
    /\ heap' = kfree(heap, slots[s])
    /\ files' = [f \in DOMAIN files \ {slots[s]} |-> files[f]]
    /\ slots' = [slots EXCEPT ![s] = NULL]
    /\ UNCHANGED <<call, disk, at, cont, mount, inodes, walk, dir, cluster_num, read,
                   cached_sector, got>>

(* FAT_file_read(file, dst, n), or FAT_file_mmap, which reads st_size      *)
(* bytes from the beginning and puts the cursor back.                      *)
FAT_file_read(s, n, whole) ==
    /\ Called /\ slots[s] # NULL
    /\ slot' = s /\ start' = File(s).cursor /\ mmap' = whole
    /\ len' = IF whole THEN Inode(s).st_size ELSE n
    /\ dst' = << >>
    /\ IF whole THEN SetCursor(s, 0) /\ skip' = 0
                ELSE skip' = File(s).cursor \div ClusterSize /\ UNCHANGED files
    /\ cluster_num' = File(s).first_cluster
    /\ at' = "seek"
    /\ UNCHANGED <<call, disk, cont, mount, heap, inodes, walk, dir, cached_sector, caller>>

(* The loop that looks for the cluster of the cursor. *)
FAT_file_read_seek ==
    /\ At("seek")
    /\ IF skip = 0 THEN at' = "file" /\ UNCHANGED <<skip, cont>>
       ELSE IF cluster_num >= TABLE_VAL_MAX THEN at' = "end" /\ UNCHANGED <<skip, cont>>
       ELSE at' = "next" /\ cont' = "seek" /\ skip' = skip - 1
    /\ UNCHANGED <<call, disk, mount, heap, inodes, files, walk, dir, cluster_num, slot, len,
                   dst, start, mmap, cached_sector, caller>>

FAT_file_read_cluster ==
    /\ At("file")
    /\ IF cluster_num < TABLE_VAL_MAX /\ Len(dst) < len
         THEN FAT_read_cluster("file") /\ at' = "copy"
         ELSE at' = "end" /\ UNCHANGED call
    /\ UNCHANGED <<disk, cont, mount, heap, inodes, files, walk, dir, cluster_num, read,
                   cached_sector, caller>>

(* A slip: the size of the file is not asked. *)
CopyLength_no_size(cursor, size) ==
    Smaller(len - Len(dst), ClusterSize - (cursor % ClusterSize))

(* How many bytes of the cluster are copied; the subtraction is unsigned. *)
CopyLength(cursor, size) ==
    Smaller(len - Len(dst),
            Smaller(ClusterSize - (cursor % ClusterSize), (size - cursor) % OffMod))

FAT_file_read_copy ==
    /\ Back("copy")
    /\ LET cursor == File(slot).cursor
           n == CopyLength(cursor, Inode(slot).st_size)
       IN /\ dst' = dst \o [k \in 1..n |-> <<buf["file"], (cursor % ClusterSize) + k - 1>>]
          /\ SetCursor(slot, cursor + n)
    /\ at' = "next" /\ cont' = "file"
    /\ UNCHANGED <<kind, work, status, regs, probe, drive, buf, heap, disk, mount, inodes, walk,
                   dir, cluster_num, slot, skip, len, start, mmap, cached_sector, caller>>

FAT_file_read_end ==
    /\ At("end")
    /\ got' = dst
    /\ IF mmap THEN SetCursor(slot, start) ELSE UNCHANGED files
    /\ at' = "ready"
    /\ slot' = NULL /\ dst' = << >> /\ len' = 0 /\ start' = 0 /\ skip' = 0 /\ mmap' = FALSE
    /\ Forget("file")
    /\ UNCHANGED <<kind, work, status, regs, probe, drive, rd, disk, cont, mount, heap, inodes,
                   walk, dir, cached_sector, slots>>

-----------------------------------------------------------------------------
(* The hardware and ATA_read_block below the file system. *)
Below ==
    /\ AtaNext
    /\ UNCHANGED <<disk, at, cont, partitions, sb, root_inode, inodes, files, walk, dir,
                   cluster_num, read, cached_sector, caller>>

(* What the thread does once it has begun. *)
Thread ==
    \/ parse_MBR_begin \/ parse_MBR \/ parse_partition \/ FS_register \/ FS_probe \/ FAT_detect
    \/ get_FAT_miss \/ get_FAT_fill \/ get_next_cluster_num
    \/ FAT_readdir_begin \/ FAT_readdir_cluster \/ FAT_readdir_scan \/ FAT_readdir_entry
    \/ walk_next
    \/ \E s \in Slots : FAT_file_open(s)
    \/ FAT_file_read_seek \/ FAT_file_read_cluster \/ FAT_file_read_copy
    \/ FAT_file_read_end

(* The caller takes the bytes of a read out of its buffer. *)
Take ==
    /\ At("ready") /\ got # << >>
    /\ got' = << >>
    /\ UNCHANGED <<call, disk, at, cont, mount, heap, inodes, files, walk, dir, cluster_num,
                   read, cached_sector, slots>>

(* What callers ask for: any path, a position inside the file. *)
Caller ==
    \/ Take
    \/ \E o \in DOMAIN PathOf : (\E s \in Slots : slots[s] = NULL) /\ FS_inode_for_path(o)
    \/ \E s \in Slots :
          \/ \E n \in Lengths : FAT_file_read(s, n, FALSE)
          \/ FAT_file_read(s, 0, TRUE)
          \/ slots[s] # NULL /\ \E offset \in 0..Inode(s).st_size : FAT_file_lseek(s, offset)
          \/ FAT_file_close(s)

Next == Below \/ Thread \/ Caller

(* The thread goes on with what it has begun, and the drive ends every     *)
(* command.  Nobody has to open or read a file.                            *)
Spec == Init /\ [][Next]_vars /\ WF_vars(Below) /\ WF_vars(Thread)

-----------------------------------------------------------------------------
OpenSlots == {s \in Slots : slots[s] # NULL}

(* Types; and a cursor stays inside its file. *)
TypeOK ==
    /\ AtaTypeOK
    /\ at \in {"probe", "mbr", "part", "register", "detect", "detected", "ready", "walk",
               "dir", "scan", "entry", "walk_next", "walked", "next", "fill", "seek", "file", "copy", "end",
               "stopped", "wild"}
    /\ cont \in {"none", "dir", "seek", "file"}
    /\ cluster_num \in 0..(EntryMod - 1)
    /\ lookups \in 0..MaxLookups
    /\ \A s \in OpenSlots : File(s).cursor \in 0..Inode(s).st_size

F == INSTANCE Files WITH
        Paths <- DOMAIN PathOf, Closed <- NULL,
        content <- [o \in DOMAIN PathOf |-> Content(o)],
        handles <- [s \in Slots |->
            IF slots[s] = NULL THEN NULL
            ELSE [path |-> File(s).path, pos |-> IF s = slot THEN start ELSE File(s).cursor]]

(* A file opened by its path is that file: reading, mapping and seeking    *)
(* give its bytes in order, whatever clusters it lies in, whichever sector *)
(* of the table is cached and in whatever order files take turns.          *)
ImplementsFiles == F!FilesSpec

(* The cached sector of the table is the sector get_FAT takes it for,      *)
(* translated into a block of the drive.                                   *)
CacheCoherent == cached_sector # 0 /\ at # "fill" => buf["fat"] = PartStart + cached_sector

Held == ({drive, sb, root_inode, cwd, result, data} \ {NULL, Garbage})
            \cup {slots[s] : s \in OpenSlots} \cup {File(s).inode : s \in OpenSlots}

(* The heap stays sound through readdir's stream of inodes, most of which  *)
(* are freed at once, and everything still pointed to is in use: open      *)
(* files and their inodes, the directory walked, the one looked for.  Two  *)
(* open files never share a file_t.                                        *)
HeapSound ==
    /\ PoolsSound(heap)
    /\ Held \subseteq DOMAIN heap.pool
    /\ \A s, t \in OpenSlots : slots[s] = slots[t] => s = t

(* The thread gets through mounting, path walks and reads, unless the      *)
(* drive reports an error, on which ATA_poll panics.                       *)
CallsReturn == []<>(at \in {"ready", "stopped"} \/ rd.pc = "panic")

(* FS_inode_for_path "handles no result" by returning NULL: a path that    *)
(* leads to no file gives no inode.                                        *)
NoResultIsNull == At("walked") /\ ~Exists(asked) => result = NULL
=================================================================================
