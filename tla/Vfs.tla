--------------------------------- MODULE Vfs ---------------------------------
(***************************************************************************)
(* The virtual file system (core/fs/vfs.c): its table of directories and   *)
(* devices, file descriptors, registered drivers, mounts, and the file     *)
(* handles it lends to drivers.                                            *)
(*                                                                         *)
(* A path is the sequence of its components and "/" is <<>>: strncmp and   *)
(* the look at the next '/' are IsAbove.  A call runs on a record m of     *)
(* the tables, which carries its return value in rc.  A driver is what     *)
(* vfs.c sees of it, with the failures its operations can return: where    *)
(* the drivers differ, Ops says which of the operations a driver has.      *)
(***************************************************************************)
EXTENDS Integers, Sequences, FiniteSets

CONSTANTS
  MAX_FILES, MAX_HANDLES, MAX_REGISTERED_FS, MAX_MOUNTS, MAX_FILE_SIZE, SIZE_MAX,
  FIRST_FD,         \* the number of standard descriptors, 3 in the code
  Drivers,          \* the drivers that are registered, mounted and unregistered after the start
  Ops,              \* what some drivers do and some not: "write", "create", "unlink", "append"
  Entries,          \* the files a driver starts with, as paths below its mount point
  DevOps,           \* the operations a device is registered with, by its path
  DevLen,           \* how far a device can be read, by its path
  FileLen,          \* how far a mounted file can be read and written
  Dirs,             \* the directories that are made, removed and mounted on
  Paths,            \* the paths that are opened, created and deleted
  Flags,            \* the flags of an open: read, write, create, truncate, append
  Counts,           \* the counts of reads and writes
  Seeks             \* the offsets and origins of seeks

VARIABLES
  files,            \* the legacy table: directories and devices
  handles,          \* the table of file descriptors
  next_fd,
  registered_fs,    \* the name of the driver in each slot, "" where registered is false
  mounts,
  file_handles,     \* the handles that drivers know
  entries,          \* the files that each driver has
  live,             \* the driver whose private data a file handle carries, "" for none
  orphans           \* the file handles that were open when their mount was unmounted

vars == <<files, handles, next_fd, registered_fs, mounts, file_handles, entries, live, orphans>>

ENOENT == -2
EIO == -5
EBADF == -9
ENOMEM == -12
EACCES == -13
EBUSY == -16
EEXIST == -17
ENODEV == -19
ENOTDIR == -20
EISDIR == -21
EMFILE == -24
ENOTTY == -25
ENOSPC == -28
DEV_NULL_FD == 1000

FileSlot == 1 .. MAX_FILES
HandleSlot == 1 .. MAX_HANDLES
MountSlot == 1 .. MAX_MOUNTS
FsSlot == 1 .. MAX_REGISTERED_FS
NoFile == [used |-> FALSE, name |-> <<>>, type |-> "file", size |-> 0]
File(name, type) == [used |-> TRUE, name |-> name, type |-> type, size |-> 0]
\* The position and the flags of a free slot are set before they are used, and not kept.
NoHandle == [used |-> FALSE, fd |-> -1, file |-> 0, position |-> 0, flags |-> {},
             fs_private |-> 0, mount |-> 0]
NoFileHandle == [used |-> FALSE, fd |-> -1, mount |-> 0, position |-> 0]
NoMount == [mounted |-> FALSE, point |-> <<>>, fs |-> 0, ref_count |-> 0]

Machine == [files |-> files, handles |-> handles, next_fd |-> next_fd,
            registered_fs |-> registered_fs, mounts |-> mounts, file_handles |-> file_handles,
            entries |-> entries, live |-> live, orphans |-> orphans, rc |-> 0]

Return(m, rc) == [m EXCEPT !.rc = rc]
\* if (rc < 0) return rc, and the use of a value under a name.
Try(m, Then(_)) == IF m.rc < 0 THEN m ELSE Then(m)
With(v, Use(_)) == Use(v)
Least(S) == CHOOSE x \in S : \A y \in S : x <= y
\* The first of the slots that a loop looks for, 0 if there is none.
First(S) == IF S = {} THEN 0 ELSE Least(S)
Lesser(a, b) == IF a <= b THEN a ELSE b
Greater(a, b) == IF a <= b THEN b ELSE a
\* A sum of size_t, which wraps around.
Sum(a, b) == IF a + b <= SIZE_MAX THEN a + b ELSE a + b - SIZE_MAX - 1

ASSUME VfsAssumption ==
  /\ MAX_FILES \in Nat /\ MAX_HANDLES \in Nat /\ MAX_REGISTERED_FS \in Nat /\ MAX_MOUNTS \in Nat
  /\ FIRST_FD \in Nat /\ FileLen \in Nat
  /\ MAX_FILE_SIZE \in Nat \ {0}
  /\ "" \notin Drivers
  /\ Flags \subseteq SUBSET {"r", "w", "c", "t", "a"} /\ Counts \subseteq Nat /\ SIZE_MAX \in Nat
  /\ Seeks \subseteq Int \X {"set", "cur", "end"}
  /\ DevLen \in [DOMAIN DevOps -> Nat]
\* The devices without a write are the files of a process in /proc, which procfs prints into
\* buffers of up to 8192 bytes before it copies from them.
ASSUME ProcfsAssumption ==
  \A p \in DOMAIN DevOps : "write" \notin DevOps[p] => DevLen[p] <= MAX_FILE_SIZE
\* The counts are lengths of buffers in memory: added to a position in the table they stay
\* below SIZE_MAX.  vfs_writefd does not test this, and with a larger count its own test of
\* the room would wrap around and let the count through.
ASSUME CountsAssumption == \A n \in Counts : MAX_FILE_SIZE + n <= SIZE_MAX

\* ------------------------------------------------------------------ tables

get_handle(m, fd) == First({i \in HandleSlot : m.handles[i].used /\ m.handles[i].fd = fd})
FileNamed(m, path) == First({i \in FileSlot : m.files[i].used /\ m.files[i].name = path})
FreeFile(m) == First({i \in FileSlot : ~m.files[i].used})
FreeHandle(m) == First({i \in HandleSlot : ~m.handles[i].used})
FreeFileHandle(m) == First({i \in HandleSlot : ~m.file_handles[i].used})

FreeFds(m) ==
  FIRST_FD .. MAX_HANDLES + FIRST_FD - 1 \ {m.handles[i].fd : i \in {j \in HandleSlot : m.handles[j].used}}

\* The next free descriptor from next_fd on, or else the first.  The fixed descriptors of
\* devices, from 1000 on, are above the range.
allocate_fd(m) ==
  With({i \in FreeFds(m) : i >= m.next_fd}, LAMBDA ahead :
    IF ahead # {}
    THEN [m EXCEPT !.next_fd = IF Least(ahead) + 1 >= MAX_HANDLES + FIRST_FD THEN FIRST_FD ELSE Least(ahead) + 1,
                   !.rc = Least(ahead)]
    ELSE With(FreeFds(m), LAMBDA free :
      IF free # {} THEN [m EXCEPT !.next_fd = Least(free) + 1, !.rc = Least(free)]
      ELSE Return(m, EMFILE)))

vfs_mkdir(m, path) ==
  With(FileNamed(m, path), LAMBDA f :
    IF f # 0 THEN Return(m, IF m.files[f].type = "dir" THEN f ELSE -2)
    ELSE With(FreeFile(m), LAMBDA i :
      IF i = 0 THEN Return(m, -3) ELSE [m EXCEPT !.files[i] = File(path, "dir"), !.rc = i]))

vfs_pseudo_register(m, path) ==
  With(FileNamed(m, path), LAMBDA f :
    IF f # 0 THEN Return(m, IF m.files[f].type = "dir" THEN -4 ELSE f)
    ELSE With(FreeFile(m), LAMBDA i :
      IF i = 0 THEN Return(m, -3) ELSE [m EXCEPT !.files[i] = File(path, "device"), !.rc = i]))

\* A handle slot is filled; its fs_private and mount are left as they are.
Descriptor(m, h, fd, f, flags) ==
  [m EXCEPT !.handles[h] = [@ EXCEPT !.used = TRUE, !.fd = fd, !.file = f, !.position = 0, !.flags = flags],
            !.rc = fd]

vfs_pseudo_register_with_fd(m, path, fd) ==
  IF get_handle(m, fd) # 0 THEN Return(m, -5)
  ELSE Try(IF FileNamed(m, path) # 0 THEN Return(m, FileNamed(m, path)) ELSE vfs_pseudo_register(m, path),
           LAMBDA r : IF FreeHandle(r) = 0 THEN Return(r, -2)
                      ELSE Descriptor(r, FreeHandle(r), fd, r.rc, {"r", "w"}))

vfs_link_std_fd(m, fd, path) ==
  IF FileNamed(m, path) = 0 \/ fd \notin 0 .. FIRST_FD - 1 THEN m
  ELSE [m EXCEPT !.handles[fd + 1].file = FileNamed(m, path)]

\* ----------------------------------------------------------------- drivers

\* mount->fs && fs->ops: the mount points at a slot of registered_fs that has a driver.
DriverOf(m, j) == IF m.mounts[j].fs = 0 THEN "" ELSE m.registered_fs[m.mounts[j].fs]
HasDriver(m, j) == j # 0 /\ DriverOf(m, j) # ""

driver_stat(m, j, rel) == rel = <<>> \/ rel \in m.entries[DriverOf(m, j)]

\* Where fat32 and ext2 start in a file that is opened to append to it; the others pay no
\* attention to the flag.
StartOf(driver, flags) == IF "a" \in flags /\ "append" \in Ops[driver] THEN FileLen ELSE 0

\* The private data of an open file is allocated, which can fail, and the file handle placed.
driver_open(m, j, rel, fh, flags, memory) ==
  IF rel = <<>> THEN Return(m, EISDIR)
  ELSE IF rel \notin m.entries[DriverOf(m, j)] THEN Return(m, ENOENT)
  ELSE IF ~memory THEN Return(m, ENOMEM)
  ELSE [m EXCEPT !.file_handles[fh].position = StartOf(DriverOf(m, j), flags),
                 !.live[fh] = DriverOf(m, j), !.rc = 0]

driver_close(m, fh) == [m EXCEPT !.live[fh] = ""]

\* A read or a write of up to result bytes from position on, or the error result.
Transfer(position, count, length, result) ==
  IF result < 0 THEN result ELSE Lesser(result, Lesser(count, Greater(length - position, 0)))

vfs_register_filesystem(m, name) ==
  IF \E i \in FsSlot : m.registered_fs[i] = name THEN Return(m, EEXIST)
  ELSE With(First({i \in FsSlot : m.registered_fs[i] = ""}), LAMBDA i :
    IF i = 0 THEN Return(m, ENOMEM) ELSE [m EXCEPT !.registered_fs[i] = name, !.rc = 0])

vfs_find_filesystem(m, name) == First({i \in FsSlot : m.registered_fs[i] = name})

vfs_unregister_filesystem(m, name) ==
  With(vfs_find_filesystem(m, name), LAMBDA i :
    IF i = 0 THEN Return(m, ENOENT)
    ELSE IF \E j \in MountSlot : m.mounts[j].mounted /\ m.mounts[j].fs = i THEN Return(m, EBUSY)
    ELSE [m EXCEPT !.registered_fs[i] = "", !.rc = 0])

\* ------------------------------------------------------------------ mounts

MountAt(m, path) == First({j \in MountSlot : m.mounts[j].mounted /\ m.mounts[j].point = path})
FreeMount(m) == First({j \in MountSlot : ~m.mounts[j].mounted})

\* A mount whose driver fails keeps the pointer to the driver in its free slot.
vfs_mount_fs(m, name, path, works) ==
  Try(vfs_mkdir(m, path), LAMBDA r :
    IF vfs_find_filesystem(r, name) = 0 THEN Return(r, ENODEV)
    ELSE IF MountAt(r, path) # 0 THEN Return(r, EBUSY)
    ELSE IF FreeMount(r) = 0 THEN Return(r, ENOMEM)
    ELSE [r EXCEPT !.mounts[FreeMount(r)] =
                     [mounted |-> works, point |-> IF works THEN path ELSE <<>>,
                      fs |-> vfs_find_filesystem(r, name), ref_count |-> 0],
                   !.rc = IF works THEN 0 ELSE EIO])

\* ref_count, which no operation raises, is the only trace of open files that is looked at.
vfs_umount(m, path, works) ==
  With(MountAt(m, path), LAMBDA j :
    IF j = 0 THEN Return(m, ENOENT)
    ELSE IF m.mounts[j].ref_count > 0 THEN Return(m, EBUSY)
    ELSE IF HasDriver(m, j) /\ ~works THEN Return(m, EIO)
    ELSE [m EXCEPT !.mounts[j] = NoMount,
                   !.orphans = @ \cup {i \in HandleSlot : m.file_handles[i].used /\ m.file_handles[i].mount = j},
                   !.rc = 0])

\* A path is a directory's or goes on below it.
IsAbove(dir, path) == Len(dir) <= Len(path) /\ SubSeq(path, 1, Len(dir)) = dir

\* The mounted file system with the longest mount point above the path.
vfs_find_mount(m, path) ==
  With({j \in MountSlot : m.mounts[j].mounted /\ IsAbove(m.mounts[j].point, path)}, LAMBDA above :
    First({j \in above : \A k \in above : Len(m.mounts[k].point) <= Len(m.mounts[j].point)}))
RelativePath(m, j, path) == SubSeq(path, Len(m.mounts[j].point) + 1, Len(path))

\* -------------------------------------------------------------- open, close

OpenLegacy(m, f, flags) ==
  IF FreeHandle(m) = 0 THEN Return(m, EMFILE)
  ELSE Try(allocate_fd(m), LAMBDA r : Descriptor(r, FreeHandle(r), r.rc, f, flags))

ReleaseFileHandle(m, fh) == [m EXCEPT !.file_handles[fh] = NoFileHandle, !.orphans = @ \ {fh}]

\* Mutant of Attach: a file handle for which there is no descriptor stays open in the driver.
AttachLeaks(m, j, fd, fh, flags) ==
  IF FreeHandle(m) = 0 THEN Return(ReleaseFileHandle(m, fh), EMFILE)
  ELSE [Descriptor(m, FreeHandle(m), fd, 0, flags)
          EXCEPT !.handles[FreeHandle(m)].fs_private = fh, !.handles[FreeHandle(m)].mount = j]

\* The descriptor of a file handle that the driver has opened.
Attach(m, j, fd, fh, flags) ==
  IF FreeHandle(m) = 0 THEN Return(ReleaseFileHandle(driver_close(m, fh), fh), EMFILE)
  ELSE [Descriptor(m, FreeHandle(m), fd, 0, flags)
          EXCEPT !.handles[FreeHandle(m)].fs_private = fh, !.handles[FreeHandle(m)].mount = j]

OpenHandle(m, j, rel, fh, flags, memory) ==
  Try(allocate_fd(m), LAMBDA r :
    With(r.rc, LAMBDA fd :
      With(driver_open([r EXCEPT !.file_handles[fh] = [used |-> TRUE, fd |-> fd, mount |-> j, position |-> 0]],
                       j, rel, fh, flags, memory),
        LAMBDA o : IF o.rc < 0 THEN ReleaseFileHandle(o, fh) ELSE Attach(o, j, fd, fh, flags))))

OpenMounted(m, j, path, flags, memory) ==
  IF ~HasDriver(m, j) THEN Return(m, ENOENT)
  ELSE IF ~driver_stat(m, j, RelativePath(m, j, path)) THEN Return(m, ENOENT)
  ELSE IF FreeFileHandle(m) = 0 THEN Return(m, EMFILE)
  ELSE OpenHandle(m, j, RelativePath(m, j, path), FreeFileHandle(m), flags, memory)

vfs_open(m, path, flags, memory) ==
  IF FileNamed(m, path) # 0 THEN OpenLegacy(m, FileNamed(m, path), flags)
  ELSE OpenMounted(m, vfs_find_mount(m, path), path, flags, memory)

\* The driver's close, when its mount still has a driver.  Otherwise the file handle stays in
\* use; its other fields, which nobody reads again, are not kept.
CloseFileHandle(m, h) ==
  IF h.fs_private = 0 THEN m
  ELSE IF ~HasDriver(m, h.mount) THEN [m EXCEPT !.file_handles[h.fs_private] = [NoFileHandle EXCEPT !.used = TRUE]]
  ELSE IF ~m.file_handles[h.fs_private].used THEN m
  ELSE ReleaseFileHandle(driver_close(m, h.fs_private), h.fs_private)

vfs_close(m, fd) ==
  IF fd < FIRST_FD THEN Return(m, 0)
  ELSE With(get_handle(m, fd), LAMBDA i :
    IF i = 0 THEN Return(m, -1)
    ELSE [CloseFileHandle(m, m.handles[i]) EXCEPT !.handles[i] = NoHandle, !.rc = 0])

\* ------------------------------------------------------------ read and write

\* The file handle of a mounted file takes over the position and gives it back.
MountedTransfer(m, i, can, count, result) ==
  With(m.handles[i], LAMBDA h :
    IF ~HasDriver(m, h.mount) THEN Return(m, EIO)
    ELSE IF h.fs_private = 0 THEN Return(m, EBADF)
    ELSE IF ~m.file_handles[h.fs_private].used THEN Return(m, EBADF)
    ELSE IF ~can THEN Return([m EXCEPT !.file_handles[h.fs_private].position = h.position], EIO)
    ELSE With(Transfer(h.position, count, FileLen, result), LAMBDA n :
      [m EXCEPT !.handles[i].position = @ + Greater(n, 0),
                !.file_handles[h.fs_private].position = h.position + Greater(n, 0), !.rc = n]))

vfs_readfd(m, fd, count, result) ==
  With(get_handle(m, fd), LAMBDA i :
    IF i = 0 THEN Return(m, EBADF)
    ELSE IF "r" \notin m.handles[i].flags THEN Return(m, EACCES)
    ELSE IF m.handles[i].file = 0 THEN MountedTransfer(m, i, TRUE, count, result)
    ELSE With(m.files[m.handles[i].file], LAMBDA f :
      With(IF f.type = "device" /\ "read" \in DevOps[f.name]
           THEN Transfer(m.handles[i].position, count, DevLen[f.name], result)
           ELSE Transfer(m.handles[i].position, count, f.size, count),
        LAMBDA n : [m EXCEPT !.handles[i].position = @ + Greater(n, 0), !.rc = n])))

\* A write into the data of the table, which a directory or a device without write has too.
WriteData(m, i, count) ==
  With(IF Sum(m.handles[i].position, count) > MAX_FILE_SIZE THEN MAX_FILE_SIZE - m.handles[i].position
       ELSE count, LAMBDA n :
    IF n = 0 THEN Return(m, ENOSPC)
    ELSE [m EXCEPT !.handles[i].position = @ + n,
                   !.files[m.handles[i].file].size = Greater(@, m.handles[i].position + n), !.rc = n])

vfs_writefd(m, fd, count, result) ==
  With(get_handle(m, fd), LAMBDA i :
    IF i = 0 THEN Return(m, EBADF)
    ELSE IF "w" \notin m.handles[i].flags THEN Return(m, EACCES)
    ELSE IF fd \in 1 .. FIRST_FD - 1 THEN Return(m, count)
    ELSE IF m.handles[i].file = 0
         THEN MountedTransfer(m, i, HasDriver(m, m.handles[i].mount) /\ "write" \in Ops[DriverOf(m, m.handles[i].mount)],
                              count, result)
    ELSE With(m.files[m.handles[i].file], LAMBDA f :
      IF f.type = "device" /\ "write" \in DevOps[f.name] THEN Return(m, result)
      ELSE WriteData(m, i, count)))

\* Mutant of vfs_seek: the position may be set behind the end.
SeekBeyond(m, fd, offset, whence) ==
  With(get_handle(m, fd), LAMBDA i :
    IF i = 0 THEN Return(m, -1)
    ELSE IF m.handles[i].file = 0 THEN Return(m, -2)
    ELSE [m EXCEPT !.handles[i].position = Greater(@ + offset, 0)])

\* Neither a directory nor a registered device has an operation for seek.
vfs_seek(m, fd, offset, whence) ==
  With(get_handle(m, fd), LAMBDA i :
    IF i = 0 THEN Return(m, -1)
    ELSE IF m.handles[i].file = 0 THEN Return(m, -2)
    ELSE With(m.files[m.handles[i].file].size, LAMBDA size :
      With(CASE whence = "set" -> offset
             [] whence = "cur" -> m.handles[i].position + offset
             [] whence = "end" -> size + offset,
        LAMBDA pos : With(Lesser(Greater(pos, 0), size), LAMBDA new :
          [m EXCEPT !.handles[i].position = new, !.rc = new]))))

\* ------------------------------------------------------------ whole files

vfs_create(m, path, size, memory, result) ==
  With(vfs_open(m, path, {"w", "c", "t"}, memory), LAMBDA o :
    IF o.rc < 0 THEN Return(o, -3)
    ELSE With(vfs_writefd(o, o.rc, size, result), LAMBDA w :
      With(vfs_close(w, o.rc), LAMBDA c :
        IF w.rc # size THEN Return(c, -4)
        ELSE IF FileNamed(c, path) = 0 THEN Return(c, -5) ELSE Return(c, FileNamed(c, path)))))

vfs_read(m, path, memory, result) ==
  Try(vfs_open(m, path, {"r"}, memory), LAMBDA o :
    With(vfs_readfd(o, o.rc, MAX_FILE_SIZE - 1, result), LAMBDA r :
      Return(vfs_close(r, o.rc), r.rc)))

\* Mutant of RemoveFiles: descriptors of what is removed stay open.
RemoveOnly(m, gone) == [m EXCEPT !.files = [i \in FileSlot |-> IF i \in gone THEN NoFile ELSE @[i]]]

\* Entries of the table are removed, and every descriptor on them; the fs_private and the
\* mount of a descriptor's slot are left as they are.
RemoveFiles(m, gone) ==
  [m EXCEPT !.files = [i \in FileSlot |-> IF i \in gone THEN NoFile ELSE @[i]],
            !.handles = [i \in HandleSlot |->
              IF m.handles[i].used /\ m.handles[i].file \in gone
              THEN [NoHandle EXCEPT !.fs_private = m.handles[i].fs_private, !.mount = m.handles[i].mount]
              ELSE m.handles[i]]]

driver_unlink(m, j, rel) ==
  IF rel \notin m.entries[DriverOf(m, j)] THEN Return(m, ENOENT)
  ELSE [m EXCEPT !.entries[DriverOf(m, j)] = @ \ {rel}, !.rc = 0]

vfs_delete(m, path) ==
  With(vfs_find_mount(m, path), LAMBDA j :
    IF HasDriver(m, j) /\ "unlink" \in Ops[DriverOf(m, j)]
    THEN driver_unlink(m, j, RelativePath(m, j, path))
    ELSE IF FileNamed(m, path) = 0 THEN Return(m, ENOENT)
    ELSE Return(RemoveFiles(m, {FileNamed(m, path)}), 0))

vfs_rmdir(m, path) ==
  With(FileNamed(m, path), LAMBDA f :
    IF f = 0 THEN Return(m, ENOENT)
    ELSE IF m.files[f].type # "dir" THEN Return(m, ENOTDIR)
    ELSE IF path = <<>> THEN Return(m, EBUSY)
    ELSE Return(RemoveFiles(m, {i \in FileSlot : m.files[i].used /\ IsAbove(path, m.files[i].name)}), 0))

\* ----------------------------------------------------------------- queries

vfs_stat(m, path) ==
  With(vfs_find_mount(m, path), LAMBDA j :
    IF HasDriver(m, j)
    THEN IF ~driver_stat(m, j, RelativePath(m, j, path)) THEN "none"
         ELSE IF RelativePath(m, j, path) = <<>> THEN "dir" ELSE "file"
    ELSE IF FileNamed(m, path) = 0 THEN "none" ELSE m.files[FileNamed(m, path)].type)

vfs_exists(m, path) ==
  FileNamed(m, path) # 0
    \/ With(vfs_find_mount(m, path), LAMBDA j : HasDriver(m, j) /\ driver_stat(m, j, RelativePath(m, j, path)))

\* ----------------------------------------------------------------- actions

\* The descriptors in use, and one that is not: get_handle tells no others apart.
Fds == {handles[i].fd : i \in HandleSlot} \cup {-1}
Results == {EIO, FileLen}
Devices == DOMAIN DevOps

Call(m) ==
  /\ files' = m.files /\ handles' = m.handles /\ next_fd' = m.next_fd
  /\ registered_fs' = m.registered_fs /\ mounts' = m.mounts /\ file_handles' = m.file_handles
  /\ entries' = m.entries /\ live' = m.live /\ orphans' = m.orphans

Open(path, flags, memory) == Call(vfs_open(Machine, path, flags, memory))
Close(fd) == Call(vfs_close(Machine, fd))
Read(fd, count, result) == Call(vfs_readfd(Machine, fd, count, result))
Write(fd, count, result) == Call(vfs_writefd(Machine, fd, count, result))
Seek(fd, offset, whence) == Call(vfs_seek(Machine, fd, offset, whence))
Create(path, size, memory, result) == Call(vfs_create(Machine, path, size, memory, result))
Delete(path) == Call(vfs_delete(Machine, path))
Mkdir(path) == Call(vfs_mkdir(Machine, path))
Rmdir(path) == Call(vfs_rmdir(Machine, path))
PseudoRegister(path) == Call(vfs_pseudo_register(Machine, path))
PseudoRegisterWithFd(path) == Call(vfs_pseudo_register_with_fd(Machine, path, DEV_NULL_FD))
RegisterFilesystem(name) == Call(vfs_register_filesystem(Machine, name))
UnregisterFilesystem(name) == Call(vfs_unregister_filesystem(Machine, name))

\* The tables are cleared and the standard descriptors opened; devfs and procfs are
\* registered and mounted.  The table holds no file that devfs_init could link them to.
Cleared ==
  [files |-> [i \in FileSlot |-> NoFile],
   handles |-> [i \in HandleSlot |-> IF i > FIRST_FD THEN NoHandle
                 ELSE [NoHandle EXCEPT !.used = TRUE, !.fd = i - 1, !.flags = IF i = 1 THEN {"r"} ELSE {"w"}]],
   next_fd |-> FIRST_FD, registered_fs |-> [i \in FsSlot |-> ""], mounts |-> [j \in MountSlot |-> NoMount],
   file_handles |-> [i \in HandleSlot |-> NoFileHandle], entries |-> Entries,
   live |-> [i \in HandleSlot |-> ""], orphans |-> {}, rc |-> 0]
LinkStd(m) ==
  vfs_link_std_fd(vfs_link_std_fd(vfs_link_std_fd(m, 0, <<"dev", "stdin">>), 1, <<"dev", "stdout">>),
                  2, <<"dev", "stderr">>)
devfs_init(m) == LinkStd(vfs_mount_fs(vfs_register_filesystem(m, "devfs"), "devfs", <<"dev">>, TRUE))
procfs_init(m) == vfs_mount_fs(vfs_register_filesystem(m, "procfs"), "procfs", <<"proc">>, TRUE)
vfs_init == procfs_init(devfs_init(Cleared))

Init ==
  /\ files = vfs_init.files /\ handles = vfs_init.handles /\ next_fd = vfs_init.next_fd
  /\ registered_fs = vfs_init.registered_fs /\ mounts = vfs_init.mounts
  /\ file_handles = vfs_init.file_handles /\ entries = vfs_init.entries
  /\ live = vfs_init.live /\ orphans = vfs_init.orphans

VfsNext ==
  \/ \E p \in Paths, f \in Flags, b \in BOOLEAN : Open(p, f, b)
  \/ \E fd \in Fds : Close(fd)
  \/ \E fd \in Fds, n \in Counts, r \in Results : Read(fd, n, r)
  \/ \E fd \in Fds, n \in Counts, r \in Results : Write(fd, n, r)
  \/ \E fd \in Fds, s \in Seeks : Seek(fd, s[1], s[2])
  \/ \E p \in Paths, n \in Counts : Create(p, n, TRUE, FileLen)
  \/ \E p \in Paths : Delete(p)
  \/ \E p \in Dirs : Mkdir(p)
  \/ \E p \in Dirs : Rmdir(p)
  \/ \E p \in Devices : PseudoRegister(p)
  \/ \E p \in Devices : PseudoRegisterWithFd(p)
  \/ \E d \in Drivers : RegisterFilesystem(d)
  \/ \E d \in Drivers : UnregisterFilesystem(d)

\* --------------------------------------------------------------- properties

OpenSlots == {i \in HandleSlot : handles[i].used}

\* A file handle is at its descriptor's position, except that after an open to append the
\* driver has placed it at the end while vfs_open has the descriptor at 0.  The next read or
\* write takes the descriptor's: what is opened to append is written from its start.
SamePlace(h, fh) ==
  fh.position = h.position \/ ("a" \in h.flags /\ h.position = 0 /\ fh.position = FileLen)

\* A descriptor is a standard one, one of the table, or one of a mounted file; a slot that is
\* free, or whose descriptor is of the table, names no mount and no file handle.
DescriptorKind(h) ==
  \/ h.fs_private = 0 /\ h.mount = 0 /\ (h.file # 0 => h.used /\ files[h.file].used)
  \/ /\ h.used /\ h.file = 0 /\ h.mount # 0 /\ h.fs_private # 0
     /\ file_handles[h.fs_private].used
     /\ file_handles[h.fs_private].fd = h.fd /\ file_handles[h.fs_private].mount = h.mount
     /\ SamePlace(h, file_handles[h.fs_private])

\* Every descriptor number and every file handle has one slot, after any sequence of opens,
\* closes and removals: a descriptor of the table refers to an entry that was not removed
\* under it, a descriptor of a mounted file to its own file handle, which is at the same place
\* unless it was opened to append and not used since.
\* vfs_open, vfs_delete and vfs_rmdir leave the mount and fs_private of a slot alone, so
\* they are clear whenever a slot is reused; vfs_close would otherwise close a stranger's file.
\* And as long as a slot is free, allocate_fd finds a number, whatever the history of next_fd.
DescriptorsSound ==
  /\ \A i \in HandleSlot : DescriptorKind(handles[i])
  /\ \A i, j \in OpenSlots : i # j =>
       /\ handles[i].fd # handles[j].fd
       /\ handles[i].fs_private = 0 \/ handles[i].fs_private # handles[j].fs_private
  /\ \A i, j \in FileSlot : i # j /\ files[i].used /\ files[j].used => files[i].name # files[j].name
  /\ OpenSlots # HandleSlot => allocate_fd(Machine).rc \in FreeFds(Machine)

\* A position never lies behind the end of a directory's data, nor, on a device whose writes
\* go to the table, behind the room there: MAX_FILE_SIZE - position does not wrap around.
PositionsFit ==
  \A i \in OpenSlots : handles[i].file # 0 =>
    LET f == files[handles[i].file]
    IN  /\ f.size <= MAX_FILE_SIZE
        /\ f.type = "dir" => handles[i].position <= f.size
        /\ f.type = "device" /\ "write" \notin DevOps[f.name] => handles[i].position <= MAX_FILE_SIZE

\* Mounts have different mount points and registered drivers.  The driver's private data
\* exists for exactly the file handles in use, each of which belongs to a descriptor and to
\* a mount of that same driver: no open that fails half way and no close leaks one or
\* closes one twice.  The exceptions are the file handles that were open when their mount
\* was unmounted, which vfs_umount does not refuse as ref_count is never raised.
DriversSound ==
  /\ \A j \in MountSlot : mounts[j].mounted => DriverOf(Machine, j) # ""
  /\ \A i, j \in MountSlot : i # j /\ mounts[i].mounted /\ mounts[j].mounted => mounts[i].point # mounts[j].point
  /\ \A i \in HandleSlot \ orphans :
       /\ file_handles[i].used = (live[i] # "")
       /\ file_handles[i].used =>
            /\ \E h \in OpenSlots : handles[h].fs_private = i
            /\ mounts[file_handles[i].mount].mounted
            /\ live[i] = DriverOf(Machine, file_handles[i].mount)
=============================================================================
