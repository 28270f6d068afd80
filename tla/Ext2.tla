-------------------------------- MODULE Ext2 --------------------------------
(***************************************************************************)
(* The ext2 driver (core/fs/ext2.c) behind its vfs_fs_ops_t, on a device   *)
(* that can fail.  As in Fat32, an action is one call of an operation, and *)
(* the call runs on a machine record that carries the volume, the driver's *)
(* memory, the return code and the device's fault plan.                    *)
(*                                                                         *)
(* A block is BS cells of a file, PPB block numbers, or DirUnits units of  *)
(* directory records; a record's rec is its rec_len in those units.  The   *)
(* inode table and the bitmaps are state of their own, with the block      *)
(* write that changes them.  The superblock's totals are the sums of the   *)
(* group counts, written next to them and read by no operation; they and   *)
(* i_blocks, which nothing reads either, are left out.  Reads and kmalloc  *)
(* do not fail here; in the code a failing read of a table looks like a    *)
(* hole.                                                                   *)
(*                                                                         *)
(* A path is one name, with a '/' in front of it or without.  What         *)
(* vfs_find_mount passes has none, unless the caller wrote two behind the  *)
(* mount point; the driver resolves only paths that begin with one.        *)
(***************************************************************************)
EXTENDS Integers, Sequences, SequencesExt, FiniteSets

CONSTANTS
  NumGroups,        \* fs->num_groups
  BlocksPerGroup,   \* fs->blocks_per_group
  InodesPerGroup,   \* fs->inodes_per_group
  BS,               \* fs->block_size, in cells of a file
  PPB,              \* PTRS_PER_BLOCK
  DirUnits,         \* fs->block_size, in units of directory records
  Metadata,         \* the blocks that hold bitmaps and inode tables
  Need,             \* the units that a record with a name takes: 8 + name_len, rounded up
  Beheaded,         \* a name without its first character
  Paths,            \* the paths that programs open: [slash, name], the name empty for the root
  Handles,          \* the open files a program can hold
  SeekTo,           \* the positions that programs seek to
  Counts,           \* the counts of reads and writes, in cells
  MaxPos            \* the largest position that is written

VARIABLES
  dev,              \* the device: bitmaps, inode table, blocks, group descriptors
  bgdt,             \* fs->bgdt, the group descriptors in memory
  fh,               \* the ext2_file_handle_t of every open file, and its position
  hit,              \* where the device failed: the write that was lost, <<>> for none
  undercut          \* history: a file was truncated while another handle of it was open

vars == <<dev, bgdt, fh, hit, undercut>>

EIO == -5
EISDIR == -21
ENOSPC == -28
ENOENT == -2
EXT2_ROOT_INO == 2
EXT2_NDIR_BLOCKS == 1          \* 12 in the code
Group == 0 .. NumGroups - 1
Block == 1 .. NumGroups * BlocksPerGroup
Ino == 1 .. NumGroups * InodesPerGroup
BlockGroup(b) == (b - 1) \div BlocksPerGroup
InoGroup(i) == (i - 1) \div InodesPerGroup

\* What a block holds.  A cell is 0 or the file and the position it was written at.
Cells(v) == [k |-> "cells", v |-> v]
Pointers(v) == [k |-> "ptrs", v |-> v]
Records(v) == [k |-> "dir", v |-> v]
ZeroCell == [ino |-> 0, at |-> 0]
Cell(ino, pos) == [ino |-> ino, at |-> pos]
Garbage == Cell(0, -1)
ZeroCells == [i \in 1 .. BS |-> ZeroCell]
Record(ino, name, rec) == [inode |-> ino, name |-> name, rec |-> rec]
\* i_block: the direct blocks, then the single, double and triple indirect one.
Inode(dir, size, blocks) == [dir |-> dir, i_size |-> size, i_block |-> blocks]
NoBlocks == [i \in 1 .. EXT2_NDIR_BLOCKS + 3 |-> 0]
NoInode == Inode(FALSE, 0, NoBlocks)
Closed == [open |-> FALSE]

\* ------------------------------------------------------------------ device

Machine(left, dead) == [dev |-> dev, bgdt |-> bgdt, fh |-> fh, left |-> left, dead |-> dead,
                        hit |-> <<>>, undercut |-> FALSE, rc |-> 0, n |-> 0, out |-> 0]

\* if (rc != 0) return rc, and the use of a value under a name.
Try(m, Then(_)) == IF m.rc # 0 THEN m ELSE Then(m)
With(v, Use(_)) == Use(v)
Fail(m, rc) == [m EXCEPT !.rc = rc]
Ignore(m) == [m EXCEPT !.rc = 0]

\* A write of the block that turns the device of m into d, or the one that the plan fails.
write_block(m, site, d) ==
  IF m.left = 0
  THEN [m EXCEPT !.rc = EIO, !.hit = IF @ = <<>> THEN <<site, m.dead>> ELSE @,
                 !.left = IF m.dead THEN 0 ELSE -1]
  ELSE [m EXCEPT !.dev = d, !.left = @ - 1, !.n = @ + 1, !.rc = 0]

ext2_write_block(m, site, b, v) == write_block(m, site, [m.dev EXCEPT !.blk[b] = v])
ext2_write_bgdt(m) == write_block(m, "bgdt", [m.dev EXCEPT !.bgdt = m.bgdt])
ext2_read_inode(m, ino) == m.dev.inode[ino]
ext2_write_inode(m, ino, in, site) == write_block(m, site, [m.dev EXCEPT !.inode[ino] = in])

\* ------------------------------------------------------------- allocation

Least(S) == CHOOSE x \in S : \A y \in S : x <= y

\* The first clear bit of the first group whose count is not zero; m.out = 0 if there is
\* none.  The result of the bitmap's write is not looked at.
ext2_alloc_block(m) ==
  With({b \in Block : b \notin m.dev.bbm /\ m.bgdt[BlockGroup(b)].blocks # 0}, LAMBDA free :
    IF free = {} THEN [m EXCEPT !.out = 0]
    ELSE [Ignore(write_block(m, "bitmap", [m.dev EXCEPT !.bbm = @ \cup {Least(free)}]))
            EXCEPT !.bgdt[BlockGroup(Least(free))].blocks = @ - 1, !.out = Least(free)])

\* Mutant of ext2_free_block: the count is left to the next mount.
FreeUncounted(m, b) ==
  IF b \notin Block THEN m
  ELSE Ignore(write_block(m, "truncate", [m.dev EXCEPT !.bbm = @ \ {b}]))

ext2_free_block(m, b) ==
  IF b \notin Block THEN m
  ELSE [Ignore(write_block(m, "truncate", [m.dev EXCEPT !.bbm = @ \ {b}]))
          EXCEPT !.bgdt[BlockGroup(b)].blocks = @ + 1]

ext2_alloc_inode(m) ==
  With({i \in Ino : i \notin m.dev.ibm /\ m.bgdt[InoGroup(i)].inodes # 0}, LAMBDA free :
    IF free = {} THEN [m EXCEPT !.out = 0]
    ELSE [Ignore(write_block(m, "bitmap", [m.dev EXCEPT !.ibm = @ \cup {Least(free)}]))
            EXCEPT !.bgdt[InoGroup(Least(free))].inodes = @ - 1, !.out = Least(free)])

ext2_free_inode(m, i) ==
  [write_block(m, "undo", [m.dev EXCEPT !.ibm = @ \ {i}]) EXCEPT !.bgdt[InoGroup(i)].inodes = @ + 1]

\* ---------------------------------------------------------------- mapping

Slots(level) == PPB ^ level

ext2_read_indirect(m, b, i) ==
  IF b = 0 THEN 0 ELSE IF m.dev.blk[b].k # "ptrs" THEN 0 ELSE m.dev.blk[b].v[i + 1]

\* The block at index i of the tree of the given level under block b.
RECURSIVE Lookup(_, _, _, _)
Lookup(m, b, level, i) ==
  IF level = 0 THEN b
  ELSE Lookup(m, ext2_read_indirect(m, b, i \div Slots(level - 1)), level - 1, i % Slots(level - 1))

\* The level of the tree that holds a logical block, and its index there.
Level(lbn) ==
  LET l == lbn - EXT2_NDIR_BLOCKS
  IN  IF l < 0 THEN <<0, lbn>>
      ELSE IF l < Slots(1) THEN <<1, l>>
      ELSE IF l - Slots(1) < Slots(2) THEN <<2, l - Slots(1)>>
      ELSE <<3, l - Slots(1) - Slots(2)>>

ext2_bmap(m, inode, lbn) ==
  LET t == Level(lbn)
  IN  IF t[1] = 0 THEN inode.i_block[t[2] + 1]
      ELSE Lookup(m, inode.i_block[EXT2_NDIR_BLOCKS + t[1]], t[1], t[2])

\* The table b of a level, allocated here if b is 0, is written after the tables under it,
\* so that no written table leads to an unwritten one; m.out is the table.
TableOf(m, b) ==
  IF b = 0 THEN [i \in 1 .. PPB |-> 0] ELSE IF m.dev.blk[b].k = "ptrs" THEN m.dev.blk[b].v ELSE [i \in 1 .. PPB |-> 0]
RECURSIVE ext2_set_indirect(_, _, _, _, _)
ext2_set_indirect(m, b, level, i, phys) ==
  With(IF b = 0 THEN ext2_alloc_block(m) ELSE [m EXCEPT !.out = b], LAMBDA a :
    IF a.out = 0 THEN Fail(a, ENOSPC)
    ELSE Try(IF level = 1 THEN [a EXCEPT !.out = phys]
             ELSE ext2_set_indirect(a, TableOf(m, b)[(i \div Slots(level - 1)) + 1],
                                    level - 1, i % Slots(level - 1), phys), LAMBDA t :
           [ext2_write_block(t, "table", a.out,
              Pointers([TableOf(m, b) EXCEPT ![(i \div Slots(level - 1)) + 1] = t.out])) EXCEPT !.out = a.out]))

\* Sets the mapping in the given inode, a field of m.  A failure leaves the inode alone, and
\* the blocks allocated on the way marked.
Mapped(m, inode, slot) ==
  IF m.rc # 0 THEN [m |-> m, inode |-> inode] ELSE [m |-> m, inode |-> [inode EXCEPT !.i_block[slot] = m.out]]
ext2_bmap_set(m, inode, lbn, phys) ==
  LET t == Level(lbn)
      slot == IF t[1] = 0 THEN t[2] + 1 ELSE EXT2_NDIR_BLOCKS + t[1]
  IN  Mapped(IF t[1] = 0 THEN [m EXCEPT !.rc = 0, !.out = phys]
             ELSE ext2_set_indirect([m EXCEPT !.rc = 0], inode.i_block[slot], t[1], t[2], phys),
             inode, slot)

\* -------------------------------------------------------------- directories

\* The records of one block, none in a hole.
RecordsOf(m, b) == IF b = 0 THEN <<>> ELSE IF m.dev.blk[b].k = "dir" THEN m.dev.blk[b].v ELSE <<>>

\* The records of a directory in the order of the scans.
RECURSIVE Scan(_, _, _)
Scan(m, inode, lbn) ==
  IF lbn * BS >= inode.i_size THEN <<>>
  ELSE RecordsOf(m, ext2_bmap(m, inode, lbn)) \o Scan(m, inode, lbn + 1)

ext2_dir_lookup(m, dir, name) ==
  With(SelectSeq(Scan(m, ext2_read_inode(m, dir), 0), LAMBDA r : r.inode # 0 /\ r.name = name), LAMBDA found :
    IF found = <<>> THEN 0 ELSE found[1].inode)

ext2_resolve_path(m, path) ==
  IF ~path.slash THEN 0
  ELSE IF path.name = "" THEN EXT2_ROOT_INO ELSE ext2_dir_lookup(m, EXT2_ROOT_INO, path.name)

\* The directory and the name of a new file: what follows the first character, a '/' or not.
\* The empty path has no parent.
ext2_resolve_parent(path) ==
  IF path.slash THEN <<EXT2_ROOT_INO, path.name>>
  ELSE IF path.name = "" THEN <<0, "">> ELSE <<EXT2_ROOT_INO, Beheaded[path.name]>>

Free(r) == IF r.inode = 0 THEN r.rec ELSE r.rec - Need[r.name]

\* The record k of a block shrinks to what it needs, and the new one takes the rest.
Insert(recs, k, ino, name) ==
  IF recs[k].inode = 0 THEN [recs EXCEPT ![k] = Record(ino, name, recs[k].rec)]
  ELSE SubSeq(recs, 1, k - 1)
         \o <<[recs[k] EXCEPT !.rec = Need[recs[k].name]], Record(ino, name, Free(recs[k]))>>
         \o SubSeq(recs, k + 1, Len(recs))

\* Mutant of SaveEntry: the inode that leads to the block goes first.
InodeFirst(m, dir, inode, phys, recs) ==
  Ignore(ext2_write_block(Ignore(ext2_write_inode(m, dir, inode, "dirinode")), "dir", phys, Records(recs)))

\* The block with the new record, and then the directory's inode, whatever became of the block.
SaveEntry(m, dir, inode, phys, recs) ==
  Ignore(ext2_write_inode(Ignore(ext2_write_block(m, "dir", phys, Records(recs))), dir, inode, "dirinode"))

\* A block that is new to the directory, in a hole or at its end.  A failure to map it is
\* not looked at.
SaveInNew(s, dir, phys, recs) ==
  SaveEntry(s.m, dir, [s.inode EXCEPT !.i_size = @ + BS], phys, recs)
AddBlock(m, dir, inode, lbn, ino, name) ==
  With(ext2_alloc_block(m), LAMBDA a :
    IF a.out = 0 THEN Fail(a, ENOSPC)
    ELSE SaveInNew(ext2_bmap_set(a, inode, lbn, a.out), dir, a.out, <<Record(ino, name, DirUnits)>>))

\* The first record from block lbn on with room for the name.
RECURSIVE AddFrom(_, _, _, _, _, _)
AddFrom(m, dir, inode, lbn, ino, name) ==
  LET phys == ext2_bmap(m, inode, lbn)
      recs == RecordsOf(m, phys)
      room == {k \in DOMAIN recs : Free(recs[k]) >= Need[name]}
  IN  IF lbn * BS >= inode.i_size \/ phys = 0 THEN AddBlock(m, dir, inode, lbn, ino, name)
      ELSE IF room # {} THEN SaveEntry(m, dir, inode, phys, Insert(recs, Least(room), ino, name))
      ELSE AddFrom(m, dir, inode, lbn + 1, ino, name)
ext2_dir_add_entry(m, dir, ino, name) == AddFrom(m, dir, ext2_read_inode(m, dir), 0, ino, name)

\* -------------------------------------------------------------- open, close

\* The failed entry gives the inode back; the result of the other writes is not looked at.
CreateIn(m, parent, name) ==
  With(ext2_alloc_inode(m), LAMBDA a :
    IF a.out = 0 THEN Fail(a, ENOSPC)
    ELSE With(ext2_dir_add_entry(Ignore(ext2_write_bgdt(ext2_write_inode(a, a.out, NoInode, "newinode"))),
                                 parent, a.out, name), LAMBDA e :
           IF e.rc # 0 THEN Fail(ext2_free_inode(e, a.out), e.rc) ELSE [e EXCEPT !.out = a.out]))
CreateFile(m, path) ==
  With(ext2_resolve_parent(path), LAMBDA p :
    IF p[1] = 0 THEN Fail(m, ENOENT) ELSE CreateIn(m, p[1], p[2]))

\* The data blocks up to the size, in order; the tables that map them are not freed.
Truncate(m, ino, inode) ==
  Ignore(ext2_write_inode(
    FoldLeft(LAMBDA t, lbn : ext2_free_block(t, ext2_bmap(m, inode, lbn)), m,
             [k \in 1 .. (inode.i_size + BS - 1) \div BS |-> k - 1]),
    ino, NoInode, "truncate"))

Attach(m, h, ino, inode, flags) ==
  [m EXCEPT !.fh[h] = [open |-> TRUE, ino |-> ino, inode |-> inode,
                       position |-> IF "APPEND" \in flags THEN inode.i_size ELSE 0]]

\* Nothing looks for other handles of the file, whose copies of the inode keep the blocks.
OpenInode(m, h, ino, flags) ==
  IF ext2_read_inode(m, ino).dir THEN Fail(m, EISDIR)
  ELSE IF "TRUNC" \in flags
  THEN Attach([Truncate(m, ino, ext2_read_inode(m, ino))
                 EXCEPT !.undercut = \E g \in Handles : m.fh[g].open /\ m.fh[g].ino = ino],
              h, ino, NoInode, flags)
  ELSE Attach(m, h, ino, ext2_read_inode(m, ino), flags)

ext2_vfs_open(m, h, path, flags) ==
  With(ext2_resolve_path(m, path), LAMBDA ino :
    IF ino # 0 THEN OpenInode(m, h, ino, flags)
    ELSE IF "CREAT" \notin flags THEN Fail(m, ENOENT)
    ELSE Try(CreateFile(m, path), LAMBDA c : OpenInode(c, h, c.out, flags)))

ext2_vfs_close(m, h) == [m EXCEPT !.fh[h] = Closed]

\* -------------------------------------------------------------- read, write

Minimum(a, b) == IF a < b THEN a ELSE b

\* One cell of a file, zero in a hole.
CellAt(m, inode, pos) ==
  LET phys == ext2_bmap(m, inode, pos \div BS)
  IN  IF phys = 0 THEN ZeroCell
      ELSE IF m.dev.blk[phys].k # "cells" THEN Garbage
      ELSE m.dev.blk[phys].v[(pos % BS) + 1]

\* The cells that a read returns.
ext2_vfs_read(m, h, count) ==
  LET f == m.fh[h]
      upto == Minimum(f.position + count, f.inode.i_size)
  IN  [k \in 1 .. (IF upto > f.position THEN upto - f.position ELSE 0) |->
         CellAt(m, f.inode, f.position + k - 1)]

\* A block with the cells of the write in it.
Filled(old, ino, pos, n) ==
  Cells([i \in 1 .. BS |-> IF i \in (pos % BS) + 1 .. (pos % BS) + n
                           THEN Cell(ino, (pos - (pos % BS)) + i - 1) ELSE old[i]])
CellsOf(m, b) == IF m.dev.blk[b].k = "cells" THEN m.dev.blk[b].v ELSE [i \in 1 .. BS |-> Garbage]

\* The block of a logical block of the open file and what it holds, allocated and zero if it
\* was a hole; m.out is the block.  If it cannot be mapped it stays marked.
MapNew(s, h, phys) == IF s.m.rc # 0 THEN s.m ELSE [s.m EXCEPT !.fh[h].inode = s.inode, !.out = phys]
BlockFor(m, h, lbn) ==
  With(ext2_bmap(m, m.fh[h].inode, lbn), LAMBDA phys :
    IF phys # 0 THEN [m EXCEPT !.out = phys]
    ELSE With(ext2_alloc_block(m), LAMBDA a :
           IF a.out = 0 THEN Fail(a, ENOSPC)
           ELSE MapNew(ext2_bmap_set(a, m.fh[h].inode, lbn, a.out), h, a.out)))
\* Mutant of OldCells: the buffer of a new block is not cleared.
NotCleared(m, h, lbn, phys) == CellsOf(m, phys)

OldCells(m, h, lbn, phys) == IF ext2_bmap(m, m.fh[h].inode, lbn) = 0 THEN ZeroCells ELSE CellsOf(m, phys)

\* The loop over the blocks.  An error leaves the function at once, the inode unwritten.
RECURSIVE WriteCells(_, _, _, _)
WriteCells(m, h, pos, todo) ==
  LET n == Minimum(todo, BS - (pos % BS))
  IN  IF todo = 0 THEN m
      ELSE Try(BlockFor(m, h, pos \div BS), LAMBDA b :
             Try(ext2_write_block(b, "data", b.out,
                   Filled(OldCells(m, h, pos \div BS, b.out), m.fh[h].ino, pos, n)), LAMBDA w :
               WriteCells(w, h, pos + n, todo - n)))

SaveInode(m, h, pos) ==
  With([m EXCEPT !.fh[h].position = pos,
                 !.fh[h].inode.i_size = IF pos > @ THEN pos ELSE @], LAMBDA f :
    Ignore(ext2_write_bgdt(Ignore(ext2_write_inode(f, f.fh[h].ino, f.fh[h].inode, "inode")))))

ext2_vfs_write(m, h, count) ==
  Try(WriteCells(m, h, m.fh[h].position, count), LAMBDA w :
    SaveInode(w, h, m.fh[h].position + count))

ext2_vfs_seek(m, h, new_pos) == IF new_pos < 0 THEN m ELSE [m EXCEPT !.fh[h].position = new_pos]

\* The records that a directory shows: those with an inode and a name.
ext2_vfs_readdir(m, path) ==
  With(ext2_resolve_path(m, path), LAMBDA ino :
    IF ino = 0 THEN <<>>
    ELSE SelectSeq(Scan(m, ext2_read_inode(m, ino), 0), LAMBDA r : r.inode # 0 /\ r.name # ""))

\* ------------------------------------------------------------ specification

\* What a call leaves behind; a machine that stopped mounts the volume again.  A behaviour
\* ends with its first fault, whose volume the properties judge, and with the truncation of
\* a file under an open handle, after which what is written through that handle goes into
\* blocks that are free.
Leave(m) ==
  LET crashed == m.dead /\ m.hit # <<>>
  IN  /\ hit = <<>> /\ ~undercut
      /\ dev' = m.dev
      /\ hit' = m.hit /\ undercut' = m.undercut
      /\ bgdt' = IF crashed THEN m.dev.bgdt ELSE m.bgdt
      /\ fh' = IF crashed THEN [h \in Handles |-> Closed] ELSE m.fh

\* A call without a fault, or with one at any of its writes.
Call(Op(_)) ==
  /\ hit = <<>> /\ ~undercut
  /\ \/ Leave(Op(Machine(-1, FALSE)))
     \/ \E k \in 0 .. Op(Machine(-1, FALSE)).n - 1, dead \in BOOLEAN : Leave(Op(Machine(k, dead)))

Open(h, path, flags) ==
  /\ ~fh[h].open
  /\ Call(LAMBDA m : ext2_vfs_open(m, h, path, flags))

Close(h) == fh[h].open /\ Leave(ext2_vfs_close(Machine(-1, FALSE), h))

Read(h, count) ==
  /\ fh[h].open
  /\ LET m == Machine(-1, FALSE)
     IN  Leave([m EXCEPT !.fh[h].position = @ + Len(ext2_vfs_read(m, h, count))])

Write(h, count) ==
  /\ fh[h].open
  /\ fh[h].position + count <= MaxPos
  /\ Call(LAMBDA m : ext2_vfs_write(m, h, count))

Seek(h, pos) == fh[h].open /\ Leave(ext2_vfs_seek(Machine(-1, FALSE), h, pos))

\* ext2_unmount writes the group descriptors; the mount that follows reads them.
Remount ==
  /\ \A h \in Handles : ~fh[h].open
  /\ Leave(ext2_write_bgdt(Machine(-1, FALSE)))

Flags == {{"CREAT"}, {"APPEND", "TRUNC"}, {"APPEND"}}

RootBlock == 1
UsedBlocks == {RootBlock} \cup Metadata
ReservedInos == 1 .. EXT2_ROOT_INO
Count(S, used, G(_), g) == Cardinality({x \in S \ used : G(x) = g})
Descriptors(bbm, ibm) ==
  [g \in Group |-> [blocks |-> Count(Block, bbm, BlockGroup, g), inodes |-> Count(Ino, ibm, InoGroup, g)]]

Init ==
  /\ dev = [bbm |-> UsedBlocks, ibm |-> ReservedInos,
            inode |-> [i \in Ino |-> IF i = EXT2_ROOT_INO
                                     THEN Inode(TRUE, BS, [NoBlocks EXCEPT ![1] = RootBlock]) ELSE NoInode],
            blk |-> [b \in Block |-> IF b = RootBlock THEN Records(<<Record(EXT2_ROOT_INO, ".", DirUnits)>>)
                                     ELSE Cells(ZeroCells)],
            bgdt |-> Descriptors(UsedBlocks, ReservedInos)]
  /\ bgdt = Descriptors(UsedBlocks, ReservedInos)
  /\ fh = [h \in Handles |-> Closed]
  /\ hit = <<>> /\ undercut = FALSE

Next ==
  \/ \E h \in Handles, p \in Paths, f \in Flags : Open(h, p, f)
  \/ \E h \in Handles : Close(h)
  \/ \E h \in Handles, n \in Counts : Read(h, n)
  \/ \E h \in Handles, n \in Counts : Write(h, n)
  \/ \E h \in Handles, p \in SeekTo : Seek(h, p)
  \/ Remount

Spec == Init /\ [][Next]_vars

\* --------------------------------------------------------------- properties

Volume == Machine(-1, FALSE)
\* The blocks of a tree of tables, the root of the tree included, one by one.
RECURSIVE TreeBlocks(_, _)
TreeBlocks(b, level) ==
  IF b = 0 THEN <<>>
  ELSE IF level = 0 \/ dev.blk[b].k # "ptrs" THEN <<b>>
  ELSE <<b>> \o FlattenSeq([i \in 1 .. PPB |-> TreeBlocks(dev.blk[b].v[i], level - 1)])
InodeBlocks(inode) ==
  FlattenSeq([i \in 1 .. EXT2_NDIR_BLOCKS + 3 |->
    TreeBlocks(inode.i_block[i], IF i <= EXT2_NDIR_BLOCKS THEN 0 ELSE i - EXT2_NDIR_BLOCKS)])

\* The inode of a file on the device, and as its open handles know it, which may be ahead
\* of the device or, after a write through another handle, behind it.
Images(i) == {dev.inode[i]} \cup {fh[h].inode : h \in {g \in Handles : fh[g].open /\ fh[g].ino = i}}
BlocksIn(images) == UNION {ToSet(InodeBlocks(inode)) : inode \in images}

\* No block is in two files, or twice in one, or free while it is in one.
SoundBlocks(images) ==
  /\ \A i \in DOMAIN images : /\ \A inode \in images[i] : IsInjective(InodeBlocks(inode))
                              /\ BlocksIn(images[i]) \subseteq dev.bbm
  /\ \A i, j \in DOMAIN images : i # j => BlocksIn(images[i]) \cap BlocksIn(images[j]) = {}

\* The records of a directory's block fill it, and each has room for its name.
Tiled(recs) ==
  /\ FoldLeft(LAMBDA n, r : n + r.rec, 0, recs) = DirUnits
  /\ \A k \in DOMAIN recs : Free(recs[k]) >= 0

\* The files in the root directory have inodes in use, each its own, and can be found by
\* their names.
Files == SelectSeq(ext2_vfs_readdir(Volume, [slash |-> TRUE, name |-> ""]), LAMBDA r : r.name # ".")
SoundNames ==
  /\ IsInjective([k \in DOMAIN Files |-> Files[k].inode])
  /\ \A r \in ToSet(Files) : r.inode \in dev.ibm /\ ext2_resolve_path(Volume, [slash |-> TRUE, name |-> r.name]) # 0

DirBlocks ==
  {ext2_bmap(Volume, dev.inode[EXT2_ROOT_INO], lbn) : lbn \in 0 .. (dev.inode[EXT2_ROOT_INO].i_size \div BS) - 1} \ {0}

Sound ==
  /\ SoundBlocks([i \in dev.ibm |-> {dev.inode[i]}])
  /\ \A b \in DirBlocks : dev.blk[b].k = "dir" /\ Tiled(dev.blk[b].v)
  /\ SoundNames

\* As long as the device works, no call damages the volume, those that fail on a full volume
\* and those through a second handle of a file included, until a file is truncated while
\* another handle of it is open: no block is used twice or free in use, on the device or in
\* the inodes that open handles keep; directory blocks are tiled by their records, and every
\* file has an inode of its own, although the same name may be there more than once; and the
\* group descriptors in memory count the clear bits of the bitmaps, through every failure
\* after an allocation and every unmount.
VolumeConsistent ==
  hit = <<>> =>
    /\ Sound
    /\ undercut \/ SoundBlocks([i \in dev.ibm |-> Images(i)])
    /\ bgdt = Descriptors(dev.bbm, dev.ibm)

\* The sites at which a lost write breaks the volume: a bit of a bitmap that is not set, and
\* the new block of a directory, whose errors the code does not look at; and the truncation
\* of a file, which frees its blocks before it writes the inode that no longer leads to them.
ExposedSites ==
  hit # <<>> /\ (hit \in {<<"bitmap", FALSE>>, <<"dir", FALSE>>} \/ hit[1] = "truncate")

\* A crash or a device error at any write of any call, other than at those sites, leaves a
\* sound volume: at worst blocks and inodes leak and counts are stale, because tables are
\* written from the leaves up, the inode after them, and the name after the inode.
FaultContained == ~ExposedSites => Sound

CellsInPlace(ino, lbn, phys) ==
  phys # 0 => /\ dev.blk[phys].k = "cells"
              /\ \A i \in 1 .. BS : dev.blk[phys].v[i] \in {ZeroCell, Cell(ino, lbn * BS + i - 1)}
FileInPlace(ino, inode) ==
  \A lbn \in 0 .. (MaxPos \div BS) - 1 : CellsInPlace(ino, lbn, ext2_bmap(Volume, inode, lbn))

\* Every cell of a file, in its size or behind it, is zero or holds what was last written to
\* this file at this position, at every level of ext2_bmap: ext2_bmap_set and ext2_bmap agree
\* across the boundaries between direct, single, double and triple indirect blocks, and no
\* block brings old data into a hole.  A lost write of the data itself, whose block is mapped
\* before it is written, and a lost bit of a bitmap are the only exceptions.
DataInPlace ==
  hit = <<>> \/ hit \notin {<<"data", TRUE>>, <<"data", FALSE>>, <<"bitmap", FALSE>>} =>
    \A r \in ToSet(Files) : \A inode \in Images(r.inode) : FileInPlace(r.inode, inode)
=============================================================================
