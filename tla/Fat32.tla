------------------------------- MODULE Fat32 -------------------------------
(***************************************************************************)
(* The FAT32 driver (core/fs/fat32.c) on a volume whose device can fail.   *)
(*                                                                         *)
(* One action of this module is one call through fat32_ops.  The call runs *)
(* on a machine record m that carries the volume, the driver's return code *)
(* and the device's fault plan through the functions of the driver, in the *)
(* order in which the code calls them: left device writes succeed, the one *)
(* after them fails; a device that is dead stays failed (the machine stops *)
(* inside the call), otherwise only that write is lost and the error paths *)
(* of the code run against a working device.  Reads and kmalloc fail only  *)
(* where mkdir looks for the name.  Elsewhere a failure of them returns    *)
(* from the call before its next write, or does what the failure of that   *)
(* write does: an entry keeps its first cluster and its size, a write to a *)
(* file goes on without it, and mkdir takes its cluster back.              *)
(*                                                                         *)
(* The unit of data is one directory slot: a cluster is a sequence of Units*)
(* of them, a unit of a file holds its writer's name, or zeros.  Zeros are *)
(* also the slot that ends a directory (FAT_ENTRY_END).                    *)
(***************************************************************************)
EXTENDS Integers, Sequences, SequencesExt, FiniteSets

CONSTANTS
  TotalClusters,  \* fs->total_clusters; the clusters are 2 .. TotalClusters + 1
  NumFats,        \* fs->num_fats
  Units,          \* bytes_per_cluster, in directory slots
  ShortNames,     \* the names that have an 8.3 form, those behind long names included
  FilePaths,      \* the paths that programs use for files
  DirPaths,       \* and for directories
  Handles,        \* the open files a program can hold
  MaxPos,         \* the largest position, in units
  MaxCount,       \* the largest count of a read or a write, in units
  MaxScan,        \* entries that a scan of a directory returns (512 in the code)
  Root            \* the set of initial contents of the root directory's cluster

VARIABLES
  fat,            \* the copies of the FAT; the driver reads the first
  blk,            \* the contents of the clusters
  fh,             \* the fat32_file_handle_t of every open file, and its position
  hit,            \* where the device failed: the write that was lost, <<>> for none
  diverged        \* history: an open handle no longer knows its file, or a name is there twice

vars == <<fat, blk, fh, hit, diverged>>

FREE == 0
EOC == -1
EIO == -5
EINVAL == -22
ENOSPC == -28
Cluster == 2 .. TotalClusters + 1
root_cluster == 2

\* The units.  Long-name entries in front of an 8.3 entry are a single unit that carries
\* the long name and the short name whose checksum they hold.
END == [k |-> "end"]
DELETED == [k |-> "deleted"]                     \* FAT_ENTRY_FREE
Entry(n, d, c, z) == [k |-> "entry", name |-> n, is_dir |-> d,
                      first_cluster |-> c, file_size |-> z]
Long(n, short) == [k |-> "long", name |-> n, of |-> short]
Data(n) == [k |-> "data", name |-> n]
Error(name) == [k |-> name]

Zero == [u \in 1 .. Units |-> END]
Closed == [open |-> FALSE]

\* ------------------------------------------------------------------ device

\* The machine: the volume and the open files, the fault plan, the return code, the number
\* of writes so far, and the results that functions hand back through pointers: a cluster,
\* the place of an entry, the units written, and whether the copy loop ran to its end.
Machine(left, dead) == [fat |-> fat, blk |-> blk, fh |-> fh, left |-> left, dead |-> dead,
                        hit |-> <<>>, diverged |-> FALSE, rc |-> 0, n |-> 0,
                        out |-> 0, at |-> <<>>, written |-> 0, fin |-> FALSE]

\* A block write: it happens, or the fault plan says that it is the one that fails.
write_blocks(m, site, f, b) ==
  IF m.left = 0
  THEN [m EXCEPT !.rc = EIO, !.hit = IF @ = <<>> THEN Append(site, m.dead) ELSE @,
                 !.left = IF m.dead THEN 0 ELSE -1]
  ELSE [m EXCEPT !.fat = f, !.blk = b, !.left = @ - 1, !.n = @ + 1, !.rc = 0]

fat32_read_fat_entry(m, c) == m.fat[1][c]

\* Every copy of the FAT in turn; the first that fails ends it.
fat32_write_fat_entry(m, c, v, site) ==
  IF c \notin Cluster THEN [m EXCEPT !.rc = EINVAL]
  ELSE FoldLeft(LAMBDA t, i : IF t.rc # 0 THEN t
                              ELSE write_blocks(t, <<site, i>>, [t.fat EXCEPT ![i][c] = v], t.blk),
                [m EXCEPT !.rc = 0], [i \in 1 .. NumFats |-> i])

fat32_write_cluster(m, c, b, site) ==
  IF c \notin Cluster THEN [m EXCEPT !.rc = EINVAL]
  ELSE write_blocks(m, <<site, 1>>, m.fat, [m.blk EXCEPT ![c] = b])

\* if (rc != 0) return rc, and the use of a value under a name.
Try(m, Then(_)) == IF m.rc # 0 THEN m ELSE Then(m)
OnError(m, Handle(_)) == IF m.rc = 0 THEN m ELSE Handle(m)
With(v, Use(_)) == Use(v)

\* The undo of an error path: the return code stays that of the error.
Undo(rc, m) == [m EXCEPT !.rc = rc]

\* The handles that are open on the entry at a place.  The driver does not look for them;
\* what it changes under them is history.
OpenAt(m, at) == {g \in Handles : IF m.fh[g].open THEN m.fh[g].at = at ELSE FALSE}
Diverge(m, how) == [m EXCEPT !.diverged = @ \/ how]

\* Names that have an 8.3 form.
fat32_name_to_83(name) == name \in ShortNames

\* ---------------------------------------------------------------- clusters

fat32_alloc_cluster(m) ==
  LET free == {c \in Cluster : fat32_read_fat_entry(m, c) = FREE}
      new == CHOOSE c \in free : \A d \in free : c <= d
  IN  IF free = {} THEN [m EXCEPT !.rc = ENOSPC]
      ELSE [fat32_write_fat_entry(m, new, EOC, "alloc") EXCEPT !.out = new]

fat32_extend_chain(m, last) ==
  Try(fat32_alloc_cluster(m), LAMBDA a :
    OnError(fat32_write_fat_entry(a, last, a.out, "link"), LAMBDA l :
      Undo(l.rc, fat32_write_fat_entry(l, a.out, FREE, "undo"))))

RECURSIVE fat32_free_chain(_, _, _)
fat32_free_chain(m, c, site) ==
  IF c \notin Cluster THEN m
  ELSE Try(fat32_write_fat_entry(m, c, FREE, site), LAMBDA t :
         IF fat32_read_fat_entry(m, c) = EOC THEN t
         ELSE fat32_free_chain(t, fat32_read_fat_entry(m, c), site))

\* The clusters that a scan from c visits; the scans stop after total_clusters of them.
RECURSIVE ChainFrom(_, _, _)
ChainFrom(m, c, max) ==
  IF c \notin Cluster \/ max = 0 THEN <<>>
  ELSE <<c>> \o ChainFrom(m, fat32_read_fat_entry(m, c), max - 1)
fat32_get_cluster_chain(m, c) == ChainFrom(m, c, TotalClusters)

\* -------------------------------------------------------------- directories

\* The slots of a chain of clusters, with their places.
SlotsOf(m, chain) ==
  [k \in 1 .. Units * Len(chain) |->
     LET c == chain[((k - 1) \div Units) + 1]
         i == ((k - 1) % Units) + 1
     IN  [at |-> <<c, i>>, v |-> m.blk[c][i]]]
RawSlots(m, dir) == SlotsOf(m, fat32_get_cluster_chain(m, dir))

\* The slots up to the one that ends the directory.  long is the name that the long-name
\* slot in front of an entry gives it; one whose checksum differs is dropped.
Named(raw) ==
  LET ends == {k \in 1 .. Len(raw) : raw[k].v = END}
      n == IF ends = {} THEN Len(raw) ELSE (CHOOSE k \in ends : \A j \in ends : k <= j) - 1
      named(k) == k > 1 /\ raw[k - 1].v.k = "long" /\ raw[k - 1].v.of = raw[k].v.name
  IN  [k \in 1 .. n |-> [at |-> raw[k].at, v |-> raw[k].v,
                         long |-> IF raw[k].v.k = "entry" /\ named(k) THEN raw[k - 1].v.name
                                  ELSE "none"]]
Slots(m, dir) == Named(RawSlots(m, dir))

\* The entries that a scan returns: the long name replaces the short one.
fat32_read_dir(m, dir) ==
  With(SelectSeq(Slots(m, dir), LAMBDA s : s.v.k = "entry"), LAMBDA es :
    [k \in 1 .. (IF Len(es) < MaxScan THEN Len(es) ELSE MaxScan) |->
       [e |-> es[k].v, name |-> IF es[k].long # "none" THEN es[k].long ELSE es[k].v.name]])

fat32_lookup(m, dir, name) ==
  With(SelectSeq(fat32_read_dir(m, dir), LAMBDA r : r.name = name), LAMBDA found :
    IF found = <<>> THEN Error("ENOENT") ELSE found[1].e)

\* The root directory is no entry of any directory.
RootEntry == Entry("/", TRUE, root_cluster, 0)

RECURSIVE fat32_resolve_from(_, _, _)
fat32_resolve_from(m, dir, path) ==
  With(fat32_lookup(m, dir, Head(path)), LAMBDA e :
    IF e.k # "entry" \/ Len(path) = 1 THEN e
    ELSE IF ~e.is_dir THEN Error("ENOTDIR")
    ELSE IF e.first_cluster = 0 THEN Error("EINVAL")
    ELSE fat32_resolve_from(m, e.first_cluster, Tail(path)))
fat32_resolve_path(m, path) ==
  IF path = <<>> THEN RootEntry ELSE fat32_resolve_from(m, root_cluster, path)

\* The parent's first cluster, 0 if the parent is not a directory.
fat32_resolve_parent_cluster(m, path) ==
  With(fat32_resolve_path(m, Front(path)), LAMBDA p :
    IF p.k = "entry" THEN IF p.is_dir THEN p.first_cluster ELSE 0 ELSE 0)

\* The place of the first slot of a list, <<>> if there is none.
Place(found) == IF found = <<>> THEN <<>> ELSE found[1].at

\* The place of the entry: matched by its long name, or else by its 8.3 name.
fat32_open_locate_dir_entry(m, path) ==
  Place(SelectSeq(Slots(m, fat32_resolve_parent_cluster(m, path)),
                  LAMBDA s : s.v.k = "entry" /\ Last(path) \in {s.long, s.v.name}))

\* A new, empty entry in the first slot that is free, or else in a cluster added to the chain.
CreateIn(m, raw, name) ==
  LET put(b, i) == [b EXCEPT ![i] = Entry(name, FALSE, 0, 0)]
  IN  With(Place(SelectSeq(raw, LAMBDA s : s.v \in {END, DELETED})), LAMBDA at :
        IF at # <<>>
        THEN [fat32_write_cluster(m, at[1], put(m.blk[at[1]], at[2]), "create") EXCEPT !.at = at]
        ELSE Try(fat32_extend_chain(m, raw[Len(raw)].at[1]), LAMBDA x :
               OnError([fat32_write_cluster(x, x.out, put(Zero, 1), "dir") EXCEPT !.at = <<x.out, 1>>],
                       LAMBDA w : Undo(w.rc, fat32_write_fat_entry(w, x.out, FREE, "undo")))))
\* Nothing looks whether the 8.3 name is there already, behind a long name.
fat32_create_file_entry(m, dir, name) ==
  IF ~fat32_name_to_83(name) THEN [m EXCEPT !.rc = EINVAL]
  ELSE With(CreateIn(m, RawSlots(m, dir), name), LAMBDA c :
         Diverge(c, c.rc = 0 /\ \E s \in ToSet(Slots(m, dir)) : s.v.k = "entry" /\ s.v.name = name))

\* The read-modify-write of one slot.  On a handle whose entry is gone the fields are
\* written into whatever the slot holds now.
PatchEntry(m, at, first, size, site) ==
  LET v == m.blk[at[1]][at[2]]
      w == IF v.k = "entry" THEN [v EXCEPT !.first_cluster = first, !.file_size = size]
           ELSE IF v.k = "data" THEN Data("garbage") ELSE v
  IN  fat32_write_cluster(m, at[1], [m.blk[at[1]] EXCEPT ![at[2]] = w], site)

SizeAt(m, at) == IF m.blk[at[1]][at[2]].k = "entry" THEN m.blk[at[1]][at[2]].file_size ELSE 0
FirstAt(m, at) == IF m.blk[at[1]][at[2]].k = "entry" THEN m.blk[at[1]][at[2]].first_cluster ELSE 0

\* Mutant of fat32_update_dir_size: the size stays in memory.
SizeNotFlushed(m, at, size) == m

fat32_update_dir_size(m, at, size) == PatchEntry(m, at, FirstAt(m, at), size, "size")

\* -------------------------------------------------------------- open, close

\* shared is history: another handle was open on the entry.
FileHandle(path, first, size, at) ==
  [open |-> TRUE, path |-> path, first_cluster |-> first, file_size |-> size,
   at |-> at, position |-> 0, shared |-> FALSE]
Share(m, h, others) ==
  LET sharing == IF others = {} THEN {} ELSE others \cup {h}
  IN  [m EXCEPT !.fh = [g \in Handles |-> IF g \in sharing THEN [@[g] EXCEPT !.shared = TRUE]
                                          ELSE @[g]]]

fat32_trunc_file(m, h) ==
  Try(fat32_free_chain(Diverge(m, OpenAt(m, m.fh[h].at) # {h}),
                       m.fh[h].first_cluster, "truncate"), LAMBDA f :
    PatchEntry([f EXCEPT !.fh[h].first_cluster = 0, !.fh[h].file_size = 0],
               f.fh[h].at, 0, 0, "trunc"))

\* A new file; a parent of cluster 0 is one that was not found.
OpenNew(m, h, path, parent) ==
  IF parent = 0 THEN [m EXCEPT !.rc = EINVAL]
  ELSE Try(fat32_create_file_entry(m, parent, Last(path)), LAMBDA c :
         [c EXCEPT !.fh[h] = FileHandle(path, 0, 0, c.at)])

OpenExisting(m, h, path, flags, e, at) ==
  IF e.is_dir \/ at = <<>> THEN [m EXCEPT !.rc = EINVAL]
  ELSE With(Share([m EXCEPT !.fh[h] = FileHandle(path, e.first_cluster, e.file_size, at)],
                  h, OpenAt(m, at)), LAMBDA o :
         With(IF "TRUNC" \in flags THEN fat32_trunc_file(o, h) ELSE o, LAMBDA t :
           IF t.rc # 0 THEN [t EXCEPT !.fh[h] = Closed]
           ELSE [t EXCEPT !.fh[h].position = IF "APPEND" \in flags THEN t.fh[h].file_size ELSE 0]))

fat32_vfs_open(m, h, path, flags) ==
  With(fat32_resolve_path(m, path), LAMBDA e :
    IF e.k = "ENOENT" /\ "CREAT" \in flags
    THEN OpenNew(m, h, path, fat32_resolve_parent_cluster(m, path))
    ELSE IF e.k # "entry" THEN [m EXCEPT !.rc = EINVAL]
    ELSE OpenExisting(m, h, path, flags, e, fat32_open_locate_dir_entry(m, path)))

fat32_vfs_close(m, h) == [m EXCEPT !.fh[h] = Closed]

\* -------------------------------------------------------------- read, write

Minimum(a, b) == IF a < b THEN a ELSE b

\* The units that a read returns: no further than the size, and than the chain reaches.
ReadUnits(m, f, count, chain) ==
  LET upto == Minimum(Minimum(f.position + count, f.file_size), Units * Len(chain))
  IN  [k \in 1 .. (IF upto > f.position THEN upto - f.position ELSE 0) |->
         LET p == f.position + k - 1 IN m.blk[chain[(p \div Units) + 1]][(p % Units) + 1]]
fat32_vfs_read(m, h, count) ==
  ReadUnits(m, m.fh[h], count, fat32_get_cluster_chain(m, m.fh[h].first_cluster))

\* Mutant of Grow: the new cluster is not zeroed.
GrowDirty(m, c) == fat32_extend_chain(m, c)

\* One more cluster behind c, zeroed after it is linked.
Grow(m, c) ==
  Try(fat32_extend_chain(m, c), LAMBDA x : fat32_write_cluster(x, x.out, Zero, "zero"))

\* The first cluster of an empty file.  Whatever keeps it from being recorded in the entry,
\* the kmalloc, the read or the write, is ignored.
RecordFirst(m, h, c, at) ==
  [PatchEntry(Diverge([m EXCEPT !.fh[h].first_cluster = c], OpenAt(m, at) # {h}),
              at, c, SizeAt(m, at), "entry") EXCEPT !.rc = 0]
FirstCluster(m, h) ==
  IF m.fh[h].first_cluster # 0 THEN [m EXCEPT !.out = m.fh[h].first_cluster]
  ELSE Try(fat32_alloc_cluster(m), LAMBDA a :
         With(fat32_write_cluster(a, a.out, Zero, "first"), LAMBDA z :
           IF z.rc # 0 THEN Undo(z.rc, fat32_write_fat_entry(z, a.out, FREE, "undo"))
           ELSE RecordFirst(z, h, a.out, m.fh[h].at)))

\* n clusters forward from the one in m.out, growing the chain at its end.
RECURSIVE Walk(_, _)
Walk(m, n) ==
  IF n = 0 THEN m
  ELSE IF m.out \notin Cluster THEN [m EXCEPT !.rc = EINVAL]
  ELSE Try(IF fat32_read_fat_entry(m, m.out) = EOC THEN Grow(m, m.out)
           ELSE [m EXCEPT !.out = fat32_read_fat_entry(m, m.out)], LAMBDA t : Walk(t, n - 1))

\* The copy loop, from unit off of the cluster in m.out.  An error leaves it, and the
\* function, at once; m.fin says that it was not left so.
Filled(b, off, take, name) == [u \in 1 .. Units |-> IF u \in off + 1 .. off + take THEN Data(name) ELSE b[u]]
RECURSIVE CopyUnits(_, _, _, _)
CopyUnits(m, h, off, todo) ==
  LET c == m.out
      take == Minimum(todo, Units - off)
  IN  IF todo = 0 \/ c \notin Cluster THEN [m EXCEPT !.fin = TRUE]
      ELSE Try(fat32_write_cluster(m, c, Filled(m.blk[c], off, take, Last(m.fh[h].path)), "data"), LAMBDA w :
             With([w EXCEPT !.written = @ + take], LAMBDA d :
               IF take = todo THEN [d EXCEPT !.fin = TRUE]
               ELSE Try(IF fat32_read_fat_entry(d, c) = EOC THEN Grow(d, c)
                        ELSE [d EXCEPT !.out = fat32_read_fat_entry(d, c)], LAMBDA t :
                      CopyUnits(t, h, 0, todo - take))))

\* position is advanced, here or by vfs_writefd, whenever units were written; the size only
\* at the end of the copy loop, and a failure to record it is ignored.
Finish(m, h, end) ==
  LET p == [m EXCEPT !.fh[h].position = end]
  IN  IF m.fin /\ end > m.fh[h].file_size
      THEN [fat32_update_dir_size([p EXCEPT !.fh[h].file_size = end], p.fh[h].at, end) EXCEPT !.rc = 0]
      ELSE p
fat32_vfs_write(m, h, count) ==
  Try(FirstCluster(m, h), LAMBDA f :
    Try(Walk(f, m.fh[h].position \div Units), LAMBDA w :
      With(CopyUnits(w, h, m.fh[h].position % Units, count), LAMBDA c :
        Finish(c, h, m.fh[h].position + c.written))))

fat32_vfs_seek(m, h, new_pos) == [m EXCEPT !.fh[h].position = IF new_pos < 0 THEN 0 ELSE new_pos]

\* ------------------------------------------------- directories and deletion

Dots(c, parent) ==
  [Zero EXCEPT ![1] = Entry(".", TRUE, c, 0),
               ![2] = Entry("..", TRUE, IF parent = root_cluster THEN 0 ELSE parent, 0)]
\* The entry that fat32_create_file_entry made becomes a directory's.
TurnIntoDir(m, at, name, c) ==
  fat32_write_cluster(m, at[1], [m.blk[at[1]] EXCEPT ![at[2]] = Entry(name, TRUE, c, 0)], "mkdir")

\* Mutant of MakeDir: a failure to add the entry does not free the new cluster.
MakeDirLeaks(m, parent, name) ==
  Try(fat32_alloc_cluster(m), LAMBDA a :
    Try(fat32_write_cluster(a, a.out, Dots(a.out, parent), "dots"), LAMBDA w :
      Try(fat32_create_file_entry(w, parent, name), LAMBDA c :
        TurnIntoDir(c, c.at, name, a.out))))

MakeDir(m, parent, name) ==
  Try(fat32_alloc_cluster(m), LAMBDA a :
    With(fat32_write_cluster(a, a.out, Dots(a.out, parent), "dots"), LAMBDA w :
      IF w.rc # 0 THEN Undo(w.rc, fat32_write_fat_entry(w, a.out, FREE, "undo"))
      ELSE OnError(Try(fat32_create_file_entry(w, parent, name), LAMBDA c :
                         TurnIntoDir(c, c.at, name, a.out)),
                   LAMBDA e : Undo(e.rc, fat32_free_chain([e EXCEPT !.rc = 0], a.out, "undo")))))

\* Any failure of fat32_resolve_path counts as a name that is not there: unread says that a
\* read or a kmalloc failed in it.
fat32_vfs_mkdir(m, path, unread) ==
  With(fat32_resolve_parent_cluster(m, path), LAMBDA parent :
    IF \/ parent = 0 \/ ~fat32_name_to_83(Last(path))
       \/ ~unread /\ fat32_resolve_path(m, path).k = "entry"
    THEN [m EXCEPT !.rc = EINVAL]
    ELSE MakeDir(m, parent, Last(path)))

\* Mutant of RemoveEntry: the clusters are freed before the entry is marked deleted.
RemoveFreesFirst(m, path, e) ==
  With(Place(SelectSeq(Slots(m, fat32_resolve_parent_cluster(m, path)), LAMBDA s :
               s.v.k = "entry" /\ s.v.is_dir = e.is_dir /\ s.v.name = Last(path))), LAMBDA at :
    IF ~fat32_name_to_83(Last(path)) \/ at = <<>> THEN [m EXCEPT !.rc = EINVAL]
    ELSE Try(fat32_free_chain(Diverge(m, OpenAt(m, at) # {}), e.first_cluster, "free"), LAMBDA f :
           fat32_write_cluster(f, at[1], [f.blk[at[1]] EXCEPT ![at[2]] = DELETED], "delete")))

\* The scan of rmdir and unlink: the first entry of the kind with this 8.3 name, long names
\* aside, is marked deleted, and only then are the clusters of e freed.
RemoveEntry(m, path, e) ==
  With(Place(SelectSeq(Slots(m, fat32_resolve_parent_cluster(m, path)), LAMBDA s :
               s.v.k = "entry" /\ s.v.is_dir = e.is_dir /\ s.v.name = Last(path))), LAMBDA at :
    IF ~fat32_name_to_83(Last(path)) \/ at = <<>> THEN [m EXCEPT !.rc = EINVAL]
    ELSE Try(fat32_write_cluster(Diverge(m, OpenAt(m, at) # {}), at[1],
                                 [m.blk[at[1]] EXCEPT ![at[2]] = DELETED], "delete"),
             LAMBDA w : fat32_free_chain(w, e.first_cluster, "free")))

IsEmpty(m, dir) == \A r \in ToSet(fat32_read_dir(m, dir)) : r.name \in {".", ".."}

fat32_vfs_rmdir(m, path) ==
  With(fat32_resolve_path(m, path), LAMBDA e :
    IF e.k # "entry" THEN [m EXCEPT !.rc = EINVAL]
    ELSE IF e.is_dir /\ IsEmpty(m, e.first_cluster) THEN RemoveEntry(m, path, e)
    ELSE [m EXCEPT !.rc = EINVAL])

fat32_vfs_unlink(m, path) ==
  With(fat32_resolve_path(m, path), LAMBDA e :
    IF e.k # "entry" THEN [m EXCEPT !.rc = EINVAL]
    ELSE IF e.is_dir THEN [m EXCEPT !.rc = EINVAL]
    ELSE RemoveEntry(m, path, e))

\* The names that a directory shows.
NamesIn(entries) ==
  SelectSeq([k \in DOMAIN entries |-> entries[k].name], LAMBDA n : n \notin {".", ".."})
fat32_vfs_readdir(m, path) ==
  With(fat32_resolve_path(m, path), LAMBDA e :
    IF e.k # "entry" THEN <<>>
    ELSE IF e.is_dir THEN NamesIn(fat32_read_dir(m, e.first_cluster)) ELSE <<>>)

fat32_vfs_stat(m, path) ==
  With(fat32_resolve_path(m, path), LAMBDA e :
    IF e.k # "entry" THEN [rc |-> EINVAL]
    ELSE [rc |-> 0, st_size |-> e.file_size, st_mode |-> IF e.is_dir THEN "dir" ELSE "file"])

\* ------------------------------------------------------------ specification

\* What a call leaves behind.  A machine that stopped loses the open files.  A behaviour
\* ends with its first fault, whose volume the properties judge.  It also ends where the
\* driver and an open handle diverge (the file is truncated or deleted under the handle, or
\* gets its first cluster through another one), and where an 8.3 name is there twice.
Leave(m) ==
  /\ hit = <<>> /\ ~diverged
  /\ fat' = m.fat
  /\ blk' = m.blk
  /\ hit' = m.hit /\ diverged' = m.diverged
  /\ fh' = IF m.dead /\ m.hit # <<>> THEN [h \in Handles |-> Closed] ELSE m.fh

\* A call without a fault, or with one at any of its writes.
Call(Op(_)) ==
  /\ hit = <<>> /\ ~diverged
  /\ \/ Leave(Op(Machine(-1, FALSE)))
     \/ \E k \in 0 .. Op(Machine(-1, FALSE)).n - 1, dead \in BOOLEAN : Leave(Op(Machine(k, dead)))

Open(h, path, flags) ==
  /\ ~fh[h].open
  /\ Call(LAMBDA m : fat32_vfs_open(m, h, path, flags))

Close(h) == fh[h].open /\ Leave(fat32_vfs_close(Machine(-1, FALSE), h))

Read(h, count) ==
  /\ fh[h].open
  /\ LET m == Machine(-1, FALSE)
         n == Len(fat32_vfs_read(m, h, count))
     IN  Leave([m EXCEPT !.fh[h].position = @ + n])

Write(h, count) ==
  /\ fh[h].open
  /\ fh[h].position + count <= MaxPos
  /\ Call(LAMBDA m : fat32_vfs_write(m, h, count))

Seek(h, pos) == fh[h].open /\ Leave(fat32_vfs_seek(Machine(-1, FALSE), h, pos))

\* That the look-up fails makes a difference only for a name that is there.
Mkdir(path, unread) ==
  /\ unread => fat32_resolve_path(Machine(-1, FALSE), path).k = "entry"
  /\ Call(LAMBDA m : fat32_vfs_mkdir(m, path, unread))

Rmdir(path) == Call(LAMBDA m : fat32_vfs_rmdir(m, path))

Unlink(path) == Call(LAMBDA m : fat32_vfs_unlink(m, path))

Flags == {{"CREAT"}, {"TRUNC"}, {"APPEND"}}

Init ==
  /\ fat = [i \in 1 .. NumFats |-> [c \in Cluster |-> IF c = root_cluster THEN EOC ELSE FREE]]
  /\ \E r \in Root : blk = [c \in Cluster |-> IF c = root_cluster THEN r ELSE Zero]
  /\ fh = [h \in Handles |-> Closed]
  /\ hit = <<>> /\ diverged = FALSE

Next ==
  \/ \E h \in Handles, p \in FilePaths, f \in Flags : Open(h, p, f)
  \/ \E h \in Handles : Close(h)
  \/ \E h \in Handles, n \in 1 .. MaxCount : Read(h, n)
  \/ \E h \in Handles, n \in 1 .. MaxCount : Write(h, n)
  \/ \E h \in Handles, p \in 0 .. MaxPos : Seek(h, p)
  \/ \E p \in DirPaths, unread \in BOOLEAN : Mkdir(p, unread)
  \/ \E p \in DirPaths : Rmdir(p)
  \/ \E p \in FilePaths : Unlink(p)

Spec == Init /\ [][Next]_vars

\* --------------------------------------------------------------- properties

Volume == Machine(-1, FALSE)
Objects(dir) == {s \in ToSet(Slots(Volume, dir)) : s.v.k = "entry" /\ s.v.name \notin {".", ".."}}

RECURSIVE Directories(_)
Directories(ds) ==
  With(ds \cup {s.v.first_cluster : s \in {t \in UNION {Objects(d) : d \in ds} : t.v.is_dir}}, LAMBDA more :
    IF more = ds THEN ds ELSE Directories(more))

\* Every file and directory that the volume holds.
Tree == {[at |-> <<>>, v |-> RootEntry, long |-> "none"]}
          \cup UNION {Objects(d) : d \in Directories({root_cluster})}
\* The clusters of each of them.
Chains == [o \in Tree |-> fat32_get_cluster_chain(Volume, o.v.first_cluster)]

\* Chains end in an end mark, hold allocated clusters only and share none; a directory
\* holds entries and no file's data; a file's chain reaches as far as its size.
SoundChains(ch) ==
  /\ \A o \in DOMAIN ch : o.v.first_cluster # 0 =>
       /\ IsInjective(ch[o])
       /\ \A c \in ToSet(ch[o]) : fat[1][c] # FREE
       /\ fat[1][Last(ch[o])] = EOC
  /\ \A o, p \in DOMAIN ch : o # p => ToSet(ch[o]) \cap ToSet(ch[p]) = {}
  /\ \A o \in DOMAIN ch : o.v.is_dir =>
       \A c \in ToSet(ch[o]), u \in 1 .. Units : blk[c][u].k # "data"
  /\ \A o \in DOMAIN ch : o.v.file_size <= Units * Len(ch[o])
Sound == SoundChains(Chains)
NoLeak(ch) == \A c \in Cluster : fat[1][c] # FREE => \E o \in DOMAIN ch : c \in ToSet(ch[o])
OwnData(ch) ==
  \A o \in DOMAIN ch : ~o.v.is_dir =>
    \A c \in ToSet(ch[o]), u \in 1 .. Units : blk[c][u] \in {END, Data(o.v.name), Data(o.long)}

Listed(path, names) ==
  IsInjective(names) /\ \A n \in ToSet(names) : fat32_vfs_stat(Volume, Append(path, n)).rc = 0
ListedOnce(path) == Listed(path, fat32_vfs_readdir(Volume, path))

\* As long as no write fails, no call, the failing ones (a full volume, a name that exists) and
\* those through a second handle of a file included, damages the volume or leaks a cluster:
\* it is sound, every cluster that is not free belongs to a file or a directory, the copies of
\* the FAT agree, and every directory lists each name once, and only names that stat finds.
\* This is so until the driver diverges: a file is truncated or deleted under an open handle or
\* gets its first cluster while another one is open, or an entry gets an 8.3 name that is there
\* (behind a long name, which is all that fat32_lookup compares, or unseen by mkdir).
VolumeConsistent ==
  hit = <<>> =>
    /\ Sound
    /\ NoLeak(Chains)
    /\ \A i \in 1 .. NumFats : fat[i] = fat[1]
    /\ diverged \/ \A d \in {<<>>} \cup DirPaths : ListedOnce(d)

\* Until then, the first cluster that an open handle caches is that of the entry on the
\* device at the place that it caches, and so is the size unless the file was open twice:
\* fat32_create_file_entry, which moves into free slots, fat32_vfs_rmdir and the writes
\* through other handles never disturb it.
HandlesAgree ==
  hit = <<>> /\ ~diverged =>
    \A h \in Handles : fh[h].open =>
      LET v == blk[fh[h].at[1]][fh[h].at[2]]
      IN  /\ v.k = "entry"
          /\ v.first_cluster = fh[h].first_cluster
          /\ v.file_size = fh[h].file_size \/ fh[h].shared

\* The sites at which a lost write can leave another file's data in a chain: a grown cluster
\* is linked, in the copy of the FAT that counts, before it is zeroed.
StaleSites == hit # <<>> /\ hit[1] \in {"link", "zero"}

\* The clusters of a file hold zeros and data written to this file, also behind its size and
\* also after a crash or a device error anywhere but between the link and the zeroing of a
\* grown cluster: a seek past the end followed by a write reveals no deleted file.
DataPrivate == ~StaleSites => OwnData(Chains)

\* The sites at which a lost write breaks the volume: the copies of the FAT after the first
\* when a cluster is linked and the undo frees it; the write of a directory's new cluster,
\* which is linked by then; truncation, which frees the chain before it resets the entry; and
\* the entry of a file's first cluster, when the machine goes on and records the size.
ExposedSites ==
  hit # <<>> /\ \/ hit[1] \in {"dir", "truncate", "trunc"}
                \/ hit[1] = "link" /\ hit[2] > 1
                \/ hit[1] = "entry" /\ ~hit[3]

\* A crash or a device error at any write of any call, other than at those sites, leaves a
\* sound volume: at worst clusters leak or the copies of the FAT differ, because the driver
\* marks a new cluster before it links it, and unlinks an entry before it frees its chain.
FaultContained == ~ExposedSites => Sound
=============================================================================
