------------------------------ MODULE VfsProofs ------------------------------
(***************************************************************************)
(* The tables of the virtual file system stay sound under every sequence   *)
(* of calls of vfs.c and of the shell's commands, for tables of any size,  *)
(* any drivers and any paths.  Sound says it of a record of the tables;    *)
(* there is a lemma for what each kind of update does to it, and one for   *)
(* every call, which makes these updates on the record it is given.        *)
(***************************************************************************)
EXTENDS Shell, FiniteSetTheorems, WellFoundedInduction, TLAPS

Names == {<<>>, <<"dev">>, <<"proc">>} \cup Dirs \cup Devices
DriverNames == {"", "devfs", "procfs"} \cup Drivers

FileSet == [used : BOOLEAN, name : Names, type : {"file", "dir", "device"},
            size : 0 .. MAX_FILE_SIZE]
HandleSet == [used : BOOLEAN, fd : Int, file : 0 .. MAX_FILES, position : Nat,
              flags : SUBSET {"r", "w", "c", "t", "a"}, fs_private : 0 .. MAX_HANDLES,
              mount : 0 .. MAX_MOUNTS]
FileHandleSet == [used : BOOLEAN, fd : Int, mount : 0 .. MAX_MOUNTS, position : Nat]
MountSet == [mounted : BOOLEAN, point : Names, fs : 0 .. MAX_REGISTERED_FS, ref_count : Nat]

\* The entries of the table are directories and registered devices, under different names.
FilesSound(fs) ==
  /\ fs \in [FileSlot -> FileSet]
  /\ \A i \in FileSlot : fs[i].used =>
       fs[i].type = "dir" \/ (fs[i].type = "device" /\ fs[i].name \in Devices)
  /\ \A i, j \in FileSlot : i # j /\ fs[i].used /\ fs[j].used => fs[i].name # fs[j].name

\* DescriptorKind, of any tables.
Kind(fs, h, fhs) ==
  \/ h.fs_private = 0 /\ h.mount = 0 /\ (h.file # 0 => h.used /\ fs[h.file].used)
  \/ /\ h.used /\ h.file = 0 /\ h.mount # 0 /\ h.fs_private # 0
     /\ fhs[h.fs_private].used
     /\ fhs[h.fs_private].fd = h.fd /\ fhs[h.fs_private].mount = h.mount
     /\ SamePlace(h, fhs[h.fs_private])

\* Two descriptors have different numbers and different file handles.
Apart(h, g) ==
  h.used /\ g.used => h.fd # g.fd /\ (h.fs_private = 0 \/ h.fs_private # g.fs_private)

HandlesSound(fs, hs, fhs) ==
  /\ hs \in [HandleSlot -> HandleSet]
  /\ fhs \in [HandleSlot -> FileHandleSet]
  /\ \A i \in HandleSlot : Kind(fs, hs[i], fhs)
  /\ \A i, j \in HandleSlot : i # j => Apart(hs[i], hs[j])

\* A position in an entry of the table.
Fits(f, position) ==
  /\ f.type = "dir" => position <= f.size
  /\ f.type = "device" /\ "write" \notin DevOps[f.name] => position <= MAX_FILE_SIZE

PositionsSound(fs, hs) ==
  \A i \in HandleSlot : hs[i].used /\ hs[i].file # 0 => Fits(fs[hs[i].file], hs[i].position)

MountsSound(ms, rf) ==
  /\ ms \in [MountSlot -> MountSet]
  /\ rf \in [FsSlot -> DriverNames]
  /\ \A j \in MountSlot : ms[j].mounted => ms[j].fs # 0 /\ rf[ms[j].fs] # ""
  /\ \A i, j \in MountSlot : i # j /\ ms[i].mounted /\ ms[j].mounted => ms[i].point # ms[j].point

\* File handle i is in use for a descriptor and for the driver that has its private data.
Lent(i, hs, ms, rf, fhs, lv) ==
  /\ fhs[i].used <=> lv[i] # ""
  /\ fhs[i].used => /\ \E h \in HandleSlot : hs[h].used /\ hs[h].fs_private = i
                    /\ fhs[i].mount # 0 /\ ms[fhs[i].mount].mounted
                    /\ lv[i] = rf[ms[fhs[i].mount].fs]

LentSound(hs, ms, rf, fhs, lv, os) ==
  /\ lv \in [HandleSlot -> DriverNames]
  /\ \A i \in os : i \in HandleSlot /\ fhs[i].used
  /\ \A i \in HandleSlot \ os : Lent(i, hs, ms, rf, fhs, lv)

Fields == {"files", "handles", "next_fd", "registered_fs", "mounts", "file_handles",
           "entries", "live", "orphans", "rc"}
IsMachine(m) == m = [x \in Fields |-> m[x]]

\* The tables are sound.
Sound(m) ==
  /\ IsMachine(m)
  /\ m.next_fd \in Nat
  /\ FilesSound(m.files)
  /\ HandlesSound(m.files, m.handles, m.file_handles)
  /\ PositionsSound(m.files, m.handles)
  /\ MountsSound(m.mounts, m.registered_fs)
  /\ LentSound(m.handles, m.mounts, m.registered_fs, m.file_handles, m.live, m.orphans)

-----------------------------------------------------------------------------
(* Searches.                                                               *)

LEMMA Bounds ==
  /\ MAX_FILES \in Nat /\ MAX_HANDLES \in Nat /\ MAX_REGISTERED_FS \in Nat /\ MAX_MOUNTS \in Nat
  /\ MAX_FILE_SIZE \in Nat /\ MAX_FILE_SIZE # 0 /\ FIRST_FD \in Nat /\ FileLen \in Nat
BY VfsAssumption, Zenon

LEMMA CountsFit ==
  ASSUME NEW n \in Counts
  PROVE  n \in Nat /\ SIZE_MAX \in Nat /\ MAX_FILE_SIZE + n <= SIZE_MAX
BY VfsAssumption, CountsAssumption

\* A set of numbers has a least one.
LEMMA LeastIsLeast ==
  ASSUME NEW S \in SUBSET Nat, S # {}
  PROVE  Least(S) \in S /\ \A y \in S : Least(S) <= y
<1> USE Zenon
<1> DEFINE R == OpToRel(<, Nat)
<1>1. IsWellFoundedOn(R, Nat)
  BY NatLessThanWellFounded
<1>2. \A x, y \in Nat : y < x => <<y, x>> \in R
  BY DEF OpToRel
<1> HIDE DEF R
<1>3. PICK x \in S : \A y \in S : ~(<<y, x>> \in R)
  BY <1>1, WFMin
<1>4. \A y \in S : ~(y < x)
  BY <1>2, <1>3
<1>5. \A y \in S : x <= y
  BY <1>4, SMT
<1> QED
  BY <1>5 DEF Least

\* The first slot of a table with some property, or 0.
LEMMA FirstIsSlot ==
  ASSUME NEW n \in Nat, NEW S \in SUBSET (1 .. n)
  PROVE  /\ First(S) \in 0 .. n
         /\ First(S) # 0 => First(S) \in S
         /\ First(S) = 0 => S = {}
<1>1. CASE S = {}
  BY <1>1 DEF First
<1>2. CASE S # {}
  <2>1. S \in SUBSET Nat
    OBVIOUS
  <2>2. Least(S) \in S
    BY <1>2, <2>1, LeastIsLeast, Zenon
  <2>3. First(S) \in S
    BY <1>2, <2>2, Zenon DEF First
  <2>4. First(S) \in 1 .. n
    BY <2>3, Zenon
  <2> QED
    BY <2>3, <2>4
<1> QED
  BY <1>1, <1>2

\* r is the machine m with other values in the fields of S.
Changes(m, r, S) == IsMachine(r) /\ \A x \in Fields \ S : r[x] = m[x]

LEMMA ReturnChanges ==
  ASSUME NEW m, IsMachine(m), NEW rc
  PROVE  Changes(m, Return(m, rc), {"rc"}) /\ Return(m, rc).rc = rc
BY DEF Changes, Return, IsMachine, Fields

LEMMA SameTables ==
  ASSUME NEW m, Sound(m), NEW r, Changes(m, r, {"rc", "entries", "next_fd"}), r.next_fd \in Nat
  PROVE  Sound(r)
<1>1. /\ r.files = m.files /\ r.handles = m.handles
      /\ r.registered_fs = m.registered_fs /\ r.mounts = m.mounts
      /\ r.file_handles = m.file_handles /\ r.live = m.live /\ r.orphans = m.orphans
  BY DEF Changes, Fields
<1> QED
  BY <1>1, Zenon DEF Sound, Changes

LEMMA ReturnSound == ASSUME NEW m, Sound(m), NEW rc PROVE Sound(Return(m, rc))
<1>1. IsMachine(m) /\ m.next_fd \in Nat
  BY DEF Sound
<1>2. Changes(m, Return(m, rc), {"rc", "entries", "next_fd"}) /\ Return(m, rc).next_fd \in Nat
  BY <1>1, ReturnChanges DEF Changes, Fields
<1> QED
  BY <1>2, SameTables, Zenon

LEMMA FreeFdIsNat == ASSUME NEW m, NEW x \in FreeFds(m) PROVE x \in Nat /\ x >= FIRST_FD
<1>1. x \in FIRST_FD .. MAX_HANDLES + FIRST_FD - 1
  BY Zenon DEF FreeFds
<1> QED
  BY <1>1, Bounds

\* allocate_fd returns a number that is not in use if there is one.
LEMMA AllocateFd ==
  ASSUME NEW m, IsMachine(m), m.next_fd \in Nat
  PROVE  LET r == allocate_fd(m)
         IN  /\ Changes(m, r, {"next_fd", "rc"})
             /\ r.next_fd \in Nat
             /\ (r.rc = EMFILE /\ FreeFds(m) = {}) \/ r.rc \in FreeFds(m)
<1> DEFINE ahead == {i \in FreeFds(m) : i >= m.next_fd}
           r == allocate_fd(m)
<1>1. FreeFds(m) \in SUBSET Nat
  BY FreeFdIsNat
<1>2. ASSUME NEW n \in Nat, NEW rc
      PROVE  LET q == [m EXCEPT !.next_fd = n, !.rc = rc]
             IN  Changes(m, q, {"next_fd", "rc"}) /\ q.next_fd \in Nat /\ q.rc = rc
  BY <1>2, Zenon DEF Changes, IsMachine, Fields
<1>3. CASE ahead # {}
  <2>1. Least(ahead) \in FreeFds(m)
    <3>1. ahead \in SUBSET Nat
      BY <1>1
    <3>2. Least(ahead) \in ahead
      BY <1>3, <3>1, LeastIsLeast, Zenon
    <3> QED
      BY <3>2
  <2> DEFINE n == IF Least(ahead) + 1 >= MAX_HANDLES + FIRST_FD THEN FIRST_FD ELSE Least(ahead) + 1
  <2>2. r = [m EXCEPT !.next_fd = n, !.rc = Least(ahead)]
    BY <1>3 DEF allocate_fd, With
  <2>3. n \in Nat
    <3>1. Least(ahead) \in Nat
      BY <2>1, FreeFdIsNat, Zenon
    <3> HIDE DEF ahead
    <3> QED
      BY <3>1, Bounds
  <2> HIDE DEF n, ahead, r
  <2> QED
    BY <1>2, <2>1, <2>2, <2>3, Zenon DEF r
<1>4. CASE ahead = {} /\ FreeFds(m) # {}
  <2>1. Least(FreeFds(m)) \in FreeFds(m)
    BY <1>1, <1>4, LeastIsLeast, Zenon
  <2>2. r = [m EXCEPT !.next_fd = Least(FreeFds(m)) + 1, !.rc = Least(FreeFds(m))]
    BY <1>4 DEF allocate_fd, With
  <2>3. Least(FreeFds(m)) + 1 \in Nat
    BY <1>1, <2>1
  <2> HIDE DEF ahead, r
  <2> QED
    BY <1>2, <2>1, <2>2, <2>3, Zenon DEF r
<1>5. CASE ahead = {} /\ FreeFds(m) = {}
  <2>1. r = Return(m, EMFILE)
    BY <1>5 DEF allocate_fd, With
  <2> HIDE DEF ahead, r
  <2> QED
    BY <1>5, <2>1, ReturnChanges DEF r, Changes, Fields
<1> QED
  BY <1>3, <1>4, <1>5

\* As long as a slot of the table of descriptors is free, some number is: there are as many
\* numbers as slots.
LEMMA FdLeft ==
  ASSUME NEW m, NEW k \in HandleSlot, ~m.handles[k].used
  PROVE  FreeFds(m) # {}
<1> SUFFICES ASSUME FreeFds(m) = {} PROVE FALSE
  OBVIOUS
<1> DEFINE fds == FIRST_FD .. MAX_HANDLES + FIRST_FD - 1
           owner == [fd \in fds |-> CHOOSE i \in HandleSlot \ {k} : m.handles[i].fd = fd]
<1>1. \A fd \in fds : \E i \in HandleSlot \ {k} : m.handles[i].fd = fd
  BY Zenon DEF FreeFds
<1>2. \A fd \in fds : owner[fd] \in HandleSlot \ {k} /\ m.handles[owner[fd]].fd = fd
  BY <1>1, Zenon
<1>3. IsFiniteSet(fds) /\ Cardinality(fds) = MAX_HANDLES
  <2>1. MAX_HANDLES # 0 /\ FIRST_FD \in Int /\ MAX_HANDLES + FIRST_FD - 1 \in Int
    BY Bounds DEF HandleSlot
  <2>2. /\ IsFiniteSet(fds)
        /\ Cardinality(fds) = IF FIRST_FD > MAX_HANDLES + FIRST_FD - 1 THEN 0
                              ELSE (MAX_HANDLES + FIRST_FD - 1) - FIRST_FD + 1
    BY <2>1, FS_Interval, Zenon
  <2> QED
    BY <2>1, <2>2, Bounds
<1>4. IsFiniteSet(HandleSlot) /\ Cardinality(HandleSlot) = MAX_HANDLES
  BY FS_Interval, Bounds DEF HandleSlot
<1>5. IsFiniteSet(HandleSlot \ {k}) /\ Cardinality(HandleSlot \ {k}) < MAX_HANDLES
  <2>1. /\ IsFiniteSet(HandleSlot \ {k})
        /\ Cardinality(HandleSlot \ {k}) = IF k \in HandleSlot THEN Cardinality(HandleSlot) - 1
                                           ELSE Cardinality(HandleSlot)
    BY <1>4, FS_RemoveElement, Zenon
  <2> QED
    BY <1>4, <2>1, Bounds
<1>6. owner \in [fds -> HandleSlot \ {k}]
  BY <1>2, Zenon
<1> HIDE DEF fds, owner
<1>7. \E x, y \in fds : x # y /\ owner[x] = owner[y]
  BY <1>3, <1>5, <1>6, FS_PigeonHole
<1> QED
  BY <1>2, <1>7, Zenon

-----------------------------------------------------------------------------
(* What a change of one table does to the others.                          *)

\* A free entry of the table is filled.
LEMMA AddFile ==
  ASSUME NEW fs, NEW hs, NEW fhs, NEW i \in FileSlot, NEW name \in Names, NEW type,
         FilesSound(fs), HandlesSound(fs, hs, fhs), PositionsSound(fs, hs),
         ~fs[i].used, \A k \in FileSlot : fs[k].used => fs[k].name # name,
         type = "dir" \/ (type = "device" /\ name \in Devices)
  PROVE  LET gs == [fs EXCEPT ![i] = File(name, type)]
         IN  FilesSound(gs) /\ HandlesSound(gs, hs, fhs) /\ PositionsSound(gs, hs)
<1> DEFINE gs == [fs EXCEPT ![i] = File(name, type)]
<1>1. File(name, type) \in FileSet
  BY Bounds DEF File, FileSet
<1>2. /\ File(name, type).used /\ File(name, type).name = name
      /\ File(name, type).type = type
  BY DEF File
<1>3. /\ gs \in [FileSlot -> FileSet]
      /\ gs[i] = File(name, type)
      /\ \A k \in FileSlot \ {i} : gs[k] = fs[k]
  BY <1>1 DEF FilesSound
<1> HIDE DEF gs
<1>4. FilesSound(gs)
  BY <1>2, <1>3 DEF FilesSound
<1>5. \A h \in HandleSlot : hs[h].file # 0 => hs[h].file \in FileSlot /\ fs[hs[h].file].used
  BY DEF HandlesSound, Kind, HandleSet, FileSlot
<1>6. \A h \in HandleSlot : hs[h].file # 0 => gs[hs[h].file] = fs[hs[h].file]
  BY <1>3, <1>5
<1>7. HandlesSound(gs, hs, fhs)
  BY <1>6 DEF HandlesSound, Kind
<1>8. PositionsSound(gs, hs)
  BY <1>6 DEF PositionsSound
<1> QED
  BY <1>4, <1>7, <1>8 DEF gs

\* The table g is f with x in slot i.
Put(g, f, i, x) == g = [f EXCEPT ![i] = x]

IsPut(g, T, i, x, f) == g \in [HandleSlot -> T] /\ g[i] = x /\ \A h \in HandleSlot \ {i} : g[h] = f[h]

LEMMA PutIs ==
  ASSUME NEW T, NEW f \in [HandleSlot -> T], NEW i \in HandleSlot, NEW x \in T, NEW g, Put(g, f, i, x)
  PROVE  IsPut(g, T, i, x, f)
BY DEF Put, IsPut

LEMMA PutTwice ==
  ASSUME NEW f, NEW g, NEW h, NEW i, NEW x, NEW y, Put(g, f, i, x), Put(h, g, i, y)
  PROVE  Put(h, f, i, y)
BY Zenon DEF Put

\* A descriptor is replaced.
LEMMA SetHandle ==
  ASSUME NEW fs, NEW hs, NEW fhs, NEW i \in HandleSlot, NEW x \in HandleSet,
         HandlesSound(fs, hs, fhs), Kind(fs, x, fhs),
         \A j \in HandleSlot \ {i} : Apart(x, hs[j]), NEW gs, Put(gs, hs, i, x)
  PROVE  HandlesSound(fs, gs, fhs)
<1>1. /\ gs \in [HandleSlot -> HandleSet] /\ gs[i] = x
      /\ \A j \in HandleSlot \ {i} : gs[j] = hs[j]
  BY DEF HandlesSound, Put
<1>2. \A j \in HandleSlot : Kind(fs, gs[j], fhs)
  BY <1>1 DEF HandlesSound
<1>3. \A j, k \in HandleSlot : j # k => Apart(gs[j], gs[k])
  BY <1>1 DEF HandlesSound, Apart
<1> QED
  BY <1>1, <1>2, <1>3 DEF HandlesSound

LEMMA SetHandlePosition ==
  ASSUME NEW fs, NEW hs, NEW fhs, NEW i \in HandleSlot, NEW x, HandlesSound(fs, hs, fhs),
         PositionsSound(fs, hs), x.used /\ x.file # 0 => Fits(fs[x.file], x.position),
         NEW gs, Put(gs, hs, i, x)
  PROVE  PositionsSound(fs, gs)
<1>1. gs[i] = x /\ \A j \in HandleSlot \ {i} : gs[j] = hs[j]
  BY DEF HandlesSound, Put
<1> QED
  BY <1>1 DEF PositionsSound

\* The file handles keep their descriptors.
LEMMA SetHandleLent ==
  ASSUME NEW fs, NEW hs, NEW ms, NEW rf, NEW fhs, NEW lv, NEW os, NEW i \in HandleSlot, NEW x,
         HandlesSound(fs, hs, fhs), LentSound(hs, ms, rf, fhs, lv, os),
         hs[i].fs_private = 0 \/ (x.used /\ x.fs_private = hs[i].fs_private),
         NEW gs, Put(gs, hs, i, x)
  PROVE  LentSound(gs, ms, rf, fhs, lv, os)
<1>1. gs[i] = x /\ \A j \in HandleSlot \ {i} : gs[j] = hs[j]
  BY DEF HandlesSound, Put
<1>2. ASSUME NEW k \in HandleSlot \ os PROVE Lent(k, gs, ms, rf, fhs, lv)
  <2>1. ASSUME NEW h \in HandleSlot, hs[h].used, hs[h].fs_private = k
        PROVE  gs[h].used /\ gs[h].fs_private = k
    BY <1>1, <2>1 DEF HandleSlot
  <2>2. Lent(k, hs, ms, rf, fhs, lv)
    BY DEF LentSound
  <2> QED
    BY <2>1, <2>2, Zenon DEF Lent
<1> QED
  BY <1>2 DEF LentSound

-----------------------------------------------------------------------------
(* Descriptors.                                                            *)

LEMMA FirstOfSlots ==
  ASSUME NEW S, \/ S \in SUBSET FileSlot \/ S \in SUBSET HandleSlot
                \/ S \in SUBSET FsSlot \/ S \in SUBSET MountSlot
  PROVE  (First(S) # 0 => First(S) \in S) /\ (First(S) = 0 => S = {})
BY FirstIsSlot, Bounds, Zenon DEF FileSlot, HandleSlot, FsSlot, MountSlot

LEMMA NamedFile ==
  ASSUME NEW m, NEW path
  PROVE  /\ FileNamed(m, path) # 0 =>
              /\ FileNamed(m, path) \in FileSlot /\ m.files[FileNamed(m, path)].used
              /\ m.files[FileNamed(m, path)].name = path
         /\ FileNamed(m, path) = 0 => \A i \in FileSlot : m.files[i].used => m.files[i].name # path
<1> DEFINE S == {i \in FileSlot : m.files[i].used /\ m.files[i].name = path}
<1>1. S \in SUBSET FileSlot
  OBVIOUS
<1>2. (First(S) # 0 => First(S) \in S) /\ (First(S) = 0 => S = {})
  BY <1>1, FirstOfSlots, Zenon
<1> QED
  BY <1>2, Zenon DEF FileNamed

LEMMA UnusedFile ==
  ASSUME NEW m
  PROVE  FreeFile(m) # 0 => FreeFile(m) \in FileSlot /\ ~m.files[FreeFile(m)].used
<1> DEFINE S == {i \in FileSlot : ~m.files[i].used}
<1>1. S \in SUBSET FileSlot
  OBVIOUS
<1>2. (First(S) # 0 => First(S) \in S) /\ (First(S) = 0 => S = {})
  BY <1>1, FirstOfSlots, Zenon
<1> QED
  BY <1>2, Zenon DEF FreeFile

LEMMA UnusedHandle ==
  ASSUME NEW m
  PROVE  FreeHandle(m) # 0 => FreeHandle(m) \in HandleSlot /\ ~m.handles[FreeHandle(m)].used
<1> DEFINE S == {i \in HandleSlot : ~m.handles[i].used}
<1>1. S \in SUBSET HandleSlot
  OBVIOUS
<1>2. (First(S) # 0 => First(S) \in S) /\ (First(S) = 0 => S = {})
  BY <1>1, FirstOfSlots, Zenon
<1> QED
  BY <1>2, Zenon DEF FreeHandle

LEMMA UnusedFileHandle ==
  ASSUME NEW m
  PROVE  FreeFileHandle(m) # 0 =>
           FreeFileHandle(m) \in HandleSlot /\ ~m.file_handles[FreeFileHandle(m)].used
<1> DEFINE S == {i \in HandleSlot : ~m.file_handles[i].used}
<1>1. S \in SUBSET HandleSlot
  OBVIOUS
<1>2. (First(S) # 0 => First(S) \in S) /\ (First(S) = 0 => S = {})
  BY <1>1, FirstOfSlots, Zenon
<1> QED
  BY <1>2, Zenon DEF FreeFileHandle

LEMMA HandleOfFd ==
  ASSUME NEW m, NEW fd
  PROVE  /\ get_handle(m, fd) # 0 =>
              /\ get_handle(m, fd) \in HandleSlot /\ m.handles[get_handle(m, fd)].used
              /\ m.handles[get_handle(m, fd)].fd = fd
         /\ get_handle(m, fd) = 0 => \A i \in HandleSlot : m.handles[i].used => m.handles[i].fd # fd
<1> DEFINE S == {i \in HandleSlot : m.handles[i].used /\ m.handles[i].fd = fd}
<1>1. S \in SUBSET HandleSlot
  OBVIOUS
<1>2. (First(S) # 0 => First(S) \in S) /\ (First(S) = 0 => S = {})
  BY <1>1, FirstOfSlots, Zenon
<1> QED
  BY <1>2, Zenon DEF get_handle

LEMMA DriverNamed ==
  ASSUME NEW m, NEW name
  PROVE  vfs_find_filesystem(m, name) # 0 =>
           /\ vfs_find_filesystem(m, name) \in FsSlot
           /\ m.registered_fs[vfs_find_filesystem(m, name)] = name
<1> DEFINE S == {i \in FsSlot : m.registered_fs[i] = name}
<1>1. S \in SUBSET FsSlot
  OBVIOUS
<1>2. (First(S) # 0 => First(S) \in S) /\ (First(S) = 0 => S = {})
  BY <1>1, FirstOfSlots, Zenon
<1> QED
  BY <1>2, Zenon DEF vfs_find_filesystem

LEMMA MountedAt ==
  ASSUME NEW m, NEW path
  PROVE  /\ MountAt(m, path) # 0 => MountAt(m, path) \in MountSlot /\ m.mounts[MountAt(m, path)].mounted
         /\ MountAt(m, path) = 0 =>
              \A j \in MountSlot : m.mounts[j].mounted => m.mounts[j].point # path
<1> DEFINE S == {j \in MountSlot : m.mounts[j].mounted /\ m.mounts[j].point = path}
<1>1. S \in SUBSET MountSlot
  OBVIOUS
<1>2. (First(S) # 0 => First(S) \in S) /\ (First(S) = 0 => S = {})
  BY <1>1, FirstOfSlots, Zenon
<1> QED
  BY <1>2, Zenon DEF MountAt

LEMMA UnusedMount ==
  ASSUME NEW m
  PROVE  FreeMount(m) # 0 => FreeMount(m) \in MountSlot /\ ~m.mounts[FreeMount(m)].mounted
<1> DEFINE S == {j \in MountSlot : ~m.mounts[j].mounted}
<1>1. S \in SUBSET MountSlot
  OBVIOUS
<1>2. (First(S) # 0 => First(S) \in S) /\ (First(S) = 0 => S = {})
  BY <1>1, FirstOfSlots, Zenon
<1> QED
  BY <1>2, Zenon DEF FreeMount

LEMMA MountFound ==
  ASSUME NEW m, NEW path
  PROVE  vfs_find_mount(m, path) # 0 =>
           /\ vfs_find_mount(m, path) \in MountSlot
           /\ m.mounts[vfs_find_mount(m, path)].mounted
<1> USE Zenon
<1> DEFINE above == {j \in MountSlot : m.mounts[j].mounted /\ IsAbove(m.mounts[j].point, path)}
           S == {j \in above : \A k \in above : Len(m.mounts[k].point) <= Len(m.mounts[j].point)}
<1>1. S \in SUBSET MountSlot /\ S \in SUBSET above
  OBVIOUS
<1>2. First(S) # 0 => First(S) \in above
  BY <1>1, FirstOfSlots
<1>3. vfs_find_mount(m, path) = First(S)
  BY DEF vfs_find_mount, With
<1> QED
  BY <1>2, <1>3

\* The references of a descriptor and of a mount are in range.
LEMMA HandleFields ==
  ASSUME NEW h \in HandleSet
  PROVE  /\ h.file # 0 => h.file \in FileSlot
         /\ h.fs_private # 0 => h.fs_private \in HandleSlot
         /\ h.mount # 0 => h.mount \in MountSlot
         /\ h.position \in Nat /\ h.used \in BOOLEAN
<1>1. /\ h.file \in 0 .. MAX_FILES /\ h.fs_private \in 0 .. MAX_HANDLES
      /\ h.mount \in 0 .. MAX_MOUNTS /\ h.position \in Nat /\ h.used \in BOOLEAN
  BY DEF HandleSet
<1> QED
  BY <1>1, Bounds DEF FileSlot, HandleSlot, MountSlot

LEMMA FileHandleFields ==
  ASSUME NEW h \in FileHandleSet
  PROVE  h.mount # 0 => h.mount \in MountSlot
<1>1. h.mount \in 0 .. MAX_MOUNTS
  BY DEF FileHandleSet
<1> QED
  BY <1>1, Bounds DEF MountSlot

LEMMA MountFields ==
  ASSUME NEW ms, NEW rf, MountsSound(ms, rf), NEW j \in MountSlot, ms[j].mounted
  PROVE  ms[j].fs \in FsSlot /\ rf[ms[j].fs] # "" /\ rf[ms[j].fs] \in DriverNames /\ j # 0
<1>1. ms[j] \in MountSet /\ ms[j].fs # 0 /\ rf[ms[j].fs] # "" /\ rf \in [FsSlot -> DriverNames]
  BY Zenon DEF MountsSound
<1>2. ms[j].fs \in 0 .. MAX_REGISTERED_FS
  BY <1>1, Zenon DEF MountSet
<1>3. j # 0
  BY Bounds DEF MountSlot
<1>4. \A k \in 0 .. MAX_REGISTERED_FS : k # 0 => k \in FsSlot
  BY Bounds DEF FsSlot
<1> QED
  BY <1>1, <1>2, <1>3, <1>4, Zenon

\* A slot that is free names no entry, no file handle and no mount.
LEMMA FreeSlot ==
  ASSUME NEW fs, NEW hs, NEW fhs, HandlesSound(fs, hs, fhs), NEW h \in HandleSlot, ~hs[h].used
  PROVE  hs[h].fs_private = 0 /\ hs[h].mount = 0 /\ hs[h].file = 0
BY DEF HandlesSound, Kind

\* A call that replaces one descriptor by x.
LEMMA HandleUpdate ==
  ASSUME NEW m, Sound(m), NEW r, Changes(m, r, {"handles", "next_fd", "rc"}), r.next_fd \in Nat,
         NEW i \in HandleSlot, NEW x \in HandleSet, Put(r.handles, m.handles, i, x),
         Kind(m.files, x, m.file_handles),
         \A j \in HandleSlot \ {i} : Apart(x, m.handles[j]),
         x.used /\ x.file # 0 => Fits(m.files[x.file], x.position),
         m.handles[i].fs_private = 0 \/ (x.used /\ x.fs_private = m.handles[i].fs_private)
  PROVE  Sound(r)
<1> USE Zenon
<1>1. /\ r.files = m.files /\ r.registered_fs = m.registered_fs /\ r.mounts = m.mounts
      /\ r.file_handles = m.file_handles /\ r.live = m.live /\ r.orphans = m.orphans
      /\ IsMachine(r)
  BY SMT DEF Changes, Fields
<1>2. /\ FilesSound(m.files) /\ HandlesSound(m.files, m.handles, m.file_handles)
      /\ PositionsSound(m.files, m.handles) /\ MountsSound(m.mounts, m.registered_fs)
      /\ LentSound(m.handles, m.mounts, m.registered_fs, m.file_handles, m.live, m.orphans)
  BY DEF Sound
<1>3. HandlesSound(m.files, r.handles, m.file_handles)
  BY <1>2, SetHandle
<1>4. PositionsSound(m.files, r.handles)
  BY <1>2, SetHandlePosition
<1>5. LentSound(r.handles, m.mounts, m.registered_fs, m.file_handles, m.live, m.orphans)
  BY <1>2, SetHandleLent
<1> QED
  BY <1>1, <1>2, <1>3, <1>4, <1>5 DEF Sound

\* What Descriptor puts into a slot.
Filled(h, fd, f, flags) ==
  [h EXCEPT !.used = TRUE, !.fd = fd, !.file = f, !.position = 0, !.flags = flags]

LEMMA FilledFields ==
  ASSUME NEW h \in HandleSet, NEW fd \in Int, NEW f \in 0 .. MAX_FILES,
         NEW flags \in SUBSET {"r", "w", "c", "t", "a"}
  PROVE  LET x == Filled(h, fd, f, flags)
         IN  /\ x \in HandleSet /\ x.used /\ x.fd = fd /\ x.file = f /\ x.position = 0
             /\ x.fs_private = h.fs_private /\ x.mount = h.mount /\ x.flags = flags
BY Zenon DEF Filled, HandleSet

LEMMA DescriptorChanges ==
  ASSUME NEW m, IsMachine(m), NEW h, NEW fd, NEW f, NEW flags, m.handles \in [HandleSlot -> HandleSet],
         h \in HandleSlot
  PROVE  LET r == Descriptor(m, h, fd, f, flags)
         IN  /\ Changes(m, r, {"handles", "rc"})
             /\ r.handles = [m.handles EXCEPT ![h] = Filled(m.handles[h], fd, f, flags)]
             /\ r.rc = fd
<1> DEFINE x == Filled(m.handles[h], fd, f, flags)
           hs == [m.handles EXCEPT ![h] = x]
           q == [m EXCEPT !.handles = hs, !.rc = fd]
<1>1. Descriptor(m, h, fd, f, flags) = q
  BY DEF Descriptor, Filled
<1> HIDE DEF hs
<1>2. Changes(m, q, {"handles", "rc"}) /\ q.rc = fd /\ q.handles = hs
  BY Zenon DEF Changes, IsMachine, Fields
<1> QED
  BY <1>1, <1>2 DEF hs

\* A descriptor with an unused number, of an entry of the table or, for f = 0, of none yet.
LEMMA DescriptorSound ==
  ASSUME NEW m, Sound(m), NEW h \in HandleSlot, ~m.handles[h].used, NEW fd \in Int,
         \A i \in HandleSlot : m.handles[i].used => m.handles[i].fd # fd,
         NEW f \in 0 .. MAX_FILES, f # 0 => m.files[f].used,
         NEW flags \in SUBSET {"r", "w", "c", "t", "a"}
  PROVE  Sound(Descriptor(m, h, fd, f, flags))
<1> DEFINE r == Descriptor(m, h, fd, f, flags)
           x == Filled(m.handles[h], fd, f, flags)
<1>1. /\ IsMachine(m) /\ FilesSound(m.files) /\ HandlesSound(m.files, m.handles, m.file_handles)
      /\ m.next_fd \in Nat
  BY Zenon DEF Sound
<1>2. m.handles \in [HandleSlot -> HandleSet] /\ m.handles[h] \in HandleSet
  BY <1>1 DEF HandlesSound
<1>3. Changes(m, r, {"handles", "rc"}) /\ Put(r.handles, m.handles, h, x)
  BY <1>1, <1>2, DescriptorChanges DEF Put
<1>4. m.handles[h].fs_private = 0 /\ m.handles[h].mount = 0
  BY <1>1, FreeSlot, Zenon
<1>5. /\ x \in HandleSet /\ x.used /\ x.fd = fd /\ x.file = f /\ x.position = 0
      /\ x.fs_private = 0 /\ x.mount = 0
  BY <1>2, <1>4, FilledFields
<1> HIDE DEF r, x
<1>6. Kind(m.files, x, m.file_handles)
  BY <1>5 DEF Kind
<1>7. \A j \in HandleSlot \ {h} : Apart(x, m.handles[j])
  BY <1>5 DEF Apart
<1>8. x.file # 0 => Fits(m.files[x.file], x.position)
  <2> SUFFICES ASSUME f # 0 PROVE Fits(m.files[f], 0)
    BY <1>5
  <2>1. m.files[f] \in FileSet
    BY <1>1, Bounds DEF FilesSound, FileSlot
  <2> QED
    BY <2>1, Bounds DEF Fits, FileSet
<1>9. Changes(m, r, {"handles", "next_fd", "rc"}) /\ r.next_fd \in Nat
  BY <1>1, <1>3 DEF Changes, Fields
<1>10. Sound(r)
  BY <1>3, <1>4, <1>5, <1>6, <1>7, <1>8, <1>9, HandleUpdate, Zenon
<1> QED
  BY <1>10 DEF r

LEMMA SoundParts ==
  ASSUME NEW m, Sound(m)
  PROVE  /\ IsMachine(m) /\ m.next_fd \in Nat
         /\ FilesSound(m.files) /\ HandlesSound(m.files, m.handles, m.file_handles)
         /\ PositionsSound(m.files, m.handles) /\ MountsSound(m.mounts, m.registered_fs)
         /\ LentSound(m.handles, m.mounts, m.registered_fs, m.file_handles, m.live, m.orphans)
         /\ m.files \in [FileSlot -> FileSet] /\ m.handles \in [HandleSlot -> HandleSet]
         /\ m.file_handles \in [HandleSlot -> FileHandleSet]
         /\ m.mounts \in [MountSlot -> MountSet] /\ m.registered_fs \in [FsSlot -> DriverNames]
         /\ m.live \in [HandleSlot -> DriverNames]
BY Zenon DEF Sound, FilesSound, HandlesSound, MountsSound, LentSound

\* A new entry of the table, which returns its index.
LEMMA FileUpdate ==
  ASSUME NEW m, Sound(m), NEW name \in Names, NEW type, FileNamed(m, name) = 0, FreeFile(m) # 0,
         type = "dir" \/ (type = "device" /\ name \in Devices)
  PROVE  LET r == [m EXCEPT !.files[FreeFile(m)] = File(name, type), !.rc = FreeFile(m)]
         IN  Sound(r) /\ r.rc = FreeFile(m) /\ r.rc \in FileSlot /\ r.files[r.rc].used
<1> DEFINE i == FreeFile(m)
           fs == [m.files EXCEPT ![i] = File(name, type)]
           q == [m EXCEPT !.files = fs, !.rc = i]
<1>1. /\ i \in FileSlot /\ ~m.files[i].used
      /\ \A k \in FileSlot : m.files[k].used => m.files[k].name # name
  BY NamedFile, UnusedFile, Zenon
<1>2. FilesSound(fs) /\ HandlesSound(fs, m.handles, m.file_handles) /\ PositionsSound(fs, m.handles)
  BY <1>1, SoundParts, AddFile
<1>3. fs[i].used
  BY <1>1, SoundParts DEF File
<1>4. [m EXCEPT !.files[FreeFile(m)] = File(name, type), !.rc = FreeFile(m)] = q
  OBVIOUS
<1> HIDE DEF fs, i
<1>m. IsMachine(m)
  BY SoundParts
<1>5. /\ IsMachine(q) /\ q.files = fs /\ q.rc = i /\ q.next_fd = m.next_fd /\ q.handles = m.handles
      /\ q.registered_fs = m.registered_fs /\ q.mounts = m.mounts
      /\ q.file_handles = m.file_handles /\ q.live = m.live /\ q.orphans = m.orphans
  BY <1>m, Zenon DEF IsMachine, Fields
<1> HIDE DEF q
<1>6. Sound(q)
  BY <1>2, <1>5, SoundParts, Zenon DEF Sound
<1> QED
  BY <1>1, <1>3, <1>4, <1>5, <1>6, Zenon DEF i

LEMMA MkdirSound ==
  ASSUME NEW m, Sound(m), NEW path \in Names
  PROVE  Sound(vfs_mkdir(m, path))
<1> DEFINE r == [m EXCEPT !.files[FreeFile(m)] = File(path, "dir"), !.rc = FreeFile(m)]
<1>1. CASE FileNamed(m, path) = 0 /\ FreeFile(m) # 0
  <2>1. Sound(r)
    BY <1>1, FileUpdate, Zenon
  <2>2. vfs_mkdir(m, path) = r
    BY <1>1 DEF vfs_mkdir, With
  <2> QED
    BY <2>1, <2>2
<1>2. CASE ~(FileNamed(m, path) = 0 /\ FreeFile(m) # 0)
  <2>1. \E rc : vfs_mkdir(m, path) = Return(m, rc)
    BY <1>2 DEF vfs_mkdir, With
  <2> QED
    BY <2>1, ReturnSound
<1> QED
  BY <1>1, <1>2

\* The index of the device's entry, if it is not negative.
LEMMA PseudoRegisterSound ==
  ASSUME NEW m, Sound(m), NEW path \in Devices
  PROVE  LET r == vfs_pseudo_register(m, path)
         IN  Sound(r) /\ (r.rc < 0 \/ (r.rc \in FileSlot /\ r.files[r.rc].used))
                      /\ r.handles = m.handles
<1> DEFINE r == [m EXCEPT !.files[FreeFile(m)] = File(path, "device"), !.rc = FreeFile(m)]
           f == FileNamed(m, path)
<1>1. IsMachine(m) /\ path \in Names
  BY SoundParts DEF Names
<1>2. CASE f = 0 /\ FreeFile(m) # 0
  <2>1. Sound(r) /\ r.rc \in FileSlot /\ r.files[r.rc].used
    BY <1>1, <1>2, FileUpdate, Zenon
  <2>2. vfs_pseudo_register(m, path) = r
    BY <1>2 DEF vfs_pseudo_register, With
  <2>3. r.handles = m.handles
    BY <1>1 DEF IsMachine, Fields
  <2> QED
    BY <2>1, <2>2, <2>3
<1>3. CASE ~(f = 0 /\ FreeFile(m) # 0)
  <2>1. PICK rc : vfs_pseudo_register(m, path) = Return(m, rc) /\ (rc \in {-3, -4} \/ (rc = f /\ f # 0))
    BY <1>3 DEF vfs_pseudo_register, With
  <2>2. Sound(Return(m, rc)) /\ Return(m, rc).rc = rc
    BY <1>1, ReturnSound, ReturnChanges
  <2>3. Return(m, rc).files = m.files /\ Return(m, rc).handles = m.handles
    BY <1>1, ReturnChanges DEF Changes, Fields
  <2>4. f # 0 => f \in FileSlot /\ m.files[f].used
    BY NamedFile, Zenon
  <2> QED
    BY <2>1, <2>2, <2>3, <2>4
<1> QED
  BY <1>2, <1>3

LEMMA PseudoRegisterWithFdSound ==
  ASSUME NEW m, Sound(m), NEW path \in Devices, NEW fd \in Int
  PROVE  Sound(vfs_pseudo_register_with_fd(m, path, fd))
<1> DEFINE q == IF FileNamed(m, path) # 0 THEN Return(m, FileNamed(m, path))
                ELSE vfs_pseudo_register(m, path)
<1>1. Sound(q) /\ (q.rc < 0 \/ (q.rc \in FileSlot /\ q.files[q.rc].used)) /\ q.handles = m.handles
  <2>1. CASE FileNamed(m, path) # 0
    <3>1. /\ FileNamed(m, path) \in FileSlot /\ m.files[FileNamed(m, path)].used
      BY <2>1, NamedFile, Zenon
    <3>2. /\ Sound(Return(m, FileNamed(m, path)))
          /\ Return(m, FileNamed(m, path)).rc = FileNamed(m, path)
          /\ Return(m, FileNamed(m, path)).files = m.files
          /\ Return(m, FileNamed(m, path)).handles = m.handles
      BY SoundParts, ReturnSound, ReturnChanges DEF Changes, Fields
    <3> QED
      BY <2>1, <3>1, <3>2
  <2>2. CASE FileNamed(m, path) = 0
    BY <2>2, PseudoRegisterSound
  <2> QED
    BY <2>1, <2>2
<1>2. CASE get_handle(m, fd) # 0
  BY <1>2, ReturnSound DEF vfs_pseudo_register_with_fd
<1> HIDE DEF q
<1>3. CASE get_handle(m, fd) = 0 /\ (q.rc < 0 \/ FreeHandle(q) = 0)
  <2>1. vfs_pseudo_register_with_fd(m, path, fd) = q \/
          vfs_pseudo_register_with_fd(m, path, fd) = Return(q, -2)
    BY <1>3 DEF vfs_pseudo_register_with_fd, Try, q
  <2> QED
    BY <1>1, <2>1, ReturnSound
<1>4. CASE get_handle(m, fd) = 0 /\ ~(q.rc < 0) /\ FreeHandle(q) # 0
  <2>1. vfs_pseudo_register_with_fd(m, path, fd) = Descriptor(q, FreeHandle(q), fd, q.rc, {"r", "w"})
    BY <1>4 DEF vfs_pseudo_register_with_fd, Try, q
  <2>2. \A i \in HandleSlot : q.handles[i].used => q.handles[i].fd # fd
    BY <1>1, <1>4, HandleOfFd, ZenonT(40)
  <2>3. FreeHandle(q) \in HandleSlot /\ ~q.handles[FreeHandle(q)].used
    BY <1>4, UnusedHandle, Zenon
  <2>4. q.rc \in 0 .. MAX_FILES /\ (q.rc # 0 => q.files[q.rc].used)
    BY <1>1, <1>4, Bounds DEF FileSlot
  <2> QED
    BY <1>1, <2>1, <2>2, <2>3, <2>4, DescriptorSound
<1> QED
  BY <1>2, <1>3, <1>4

-----------------------------------------------------------------------------
(* Open.                                                                   *)

LEMMA AllocateSound ==
  ASSUME NEW m, Sound(m)
  PROVE  LET r == allocate_fd(m)
         IN  /\ Sound(r) /\ Changes(m, r, {"next_fd", "rc"})
             /\ \/ r.rc = EMFILE
                \/ r.rc \in Nat /\ \A i \in HandleSlot : m.handles[i].used => m.handles[i].fd # r.rc
<1> DEFINE r == allocate_fd(m)
<1>1. /\ Changes(m, r, {"next_fd", "rc"}) /\ r.next_fd \in Nat
      /\ r.rc = EMFILE \/ r.rc \in FreeFds(m)
  BY SoundParts, AllocateFd
<1>2. r.rc \in FreeFds(m) =>
        r.rc \in Nat /\ \A i \in HandleSlot : m.handles[i].used => m.handles[i].fd # r.rc
  <2>1. \A fd \in FreeFds(m) : \A i \in HandleSlot : m.handles[i].used => m.handles[i].fd # fd
    BY Zenon DEF FreeFds
  <2> QED
    BY <2>1, FreeFdIsNat, Zenon
<1>3. Changes(m, r, {"rc", "entries", "next_fd"})
  BY <1>1 DEF Changes
<1>4. Sound(r)
  BY <1>1, <1>3, SameTables, Zenon
<1> QED
  BY <1>1, <1>2, <1>4, Zenon

LEMMA OpenLegacySound ==
  ASSUME NEW m, Sound(m), NEW f \in FileSlot, m.files[f].used, NEW flags \in SUBSET {"r", "w", "c", "t", "a"}
  PROVE  Sound(OpenLegacy(m, f, flags))
<1> DEFINE r == allocate_fd(m)
<1>1. CASE FreeHandle(m) = 0
  BY <1>1, ReturnSound DEF OpenLegacy
<1>2. /\ Sound(r) /\ Changes(m, r, {"next_fd", "rc"})
      /\ \/ r.rc = EMFILE
         \/ r.rc \in Nat /\ \A i \in HandleSlot : m.handles[i].used => m.handles[i].fd # r.rc
  BY AllocateSound
<1> HIDE DEF r
<1>3. r.handles = m.handles /\ r.files = m.files
  BY <1>2 DEF Changes, Fields
<1>4. CASE FreeHandle(m) # 0 /\ r.rc = EMFILE
  <2>1. OpenLegacy(m, f, flags) = r
    BY <1>4 DEF OpenLegacy, Try, EMFILE, r
  <2> QED
    BY <1>2, <2>1
<1>5. CASE FreeHandle(m) # 0 /\ r.rc \in Nat /\ r.rc # EMFILE
  <2>1. OpenLegacy(m, f, flags) = Descriptor(r, FreeHandle(r), r.rc, f, flags)
    <3>1. ~(r.rc < 0)
      BY <1>5
    <3> QED
      BY <1>5, <3>1 DEF OpenLegacy, Try, r
  <2>2. FreeHandle(r) = FreeHandle(m)
    BY <1>3, Zenon DEF FreeHandle
  <2>3. FreeHandle(r) \in HandleSlot /\ ~r.handles[FreeHandle(r)].used
    BY <1>5, <2>2, UnusedHandle, Zenon
  <2>4. r.rc \in Int /\ f \in 0 .. MAX_FILES /\ (f # 0 => r.files[f].used)
    BY <1>3, <1>5 DEF FileSlot
  <2>5. \A i \in HandleSlot : r.handles[i].used => r.handles[i].fd # r.rc
    BY <1>2, <1>3, <1>5
  <2> QED
    BY <1>2, <2>1, <2>3, <2>4, <2>5, DescriptorSound
<1> QED
  BY <1>1, <1>2, <1>4, <1>5 DEF EMFILE

-----------------------------------------------------------------------------
(* File handles.                                                           *)

LEMMA SlotsPositive == 0 \notin HandleSlot
BY Bounds DEF HandleSlot

LEMMA NoFileHandleFields == NoFileHandle \in FileHandleSet /\ ~NoFileHandle.used
<1>1. 0 \in 0 .. MAX_MOUNTS
  BY Bounds
<1> QED
  BY <1>1 DEF NoFileHandle, FileHandleSet

\* A file handle that no descriptor refers to changes.
LEMMA SetFileHandle ==
  ASSUME NEW fs, NEW hs, NEW fhs, NEW k \in HandleSlot, NEW y \in FileHandleSet,
         HandlesSound(fs, hs, fhs), \A i \in HandleSlot : hs[i].fs_private # k,
         NEW ghs, Put(ghs, fhs, k, y)
  PROVE  HandlesSound(fs, hs, ghs)
<1>1. /\ ghs \in [HandleSlot -> FileHandleSet] /\ ghs[k] = y
      /\ \A i \in HandleSlot \ {k} : ghs[i] = fhs[i]
  BY DEF HandlesSound, Put
<1>2. \A i \in HandleSlot : hs[i].fs_private # 0 => hs[i].fs_private \in HandleSlot \ {k}
  BY HandleFields DEF HandlesSound
<1>3. \A i \in HandleSlot : Kind(fs, hs[i], ghs)
  <2> SUFFICES ASSUME NEW i \in HandleSlot PROVE Kind(fs, hs[i], ghs)
    OBVIOUS
  <2>1. Kind(fs, hs[i], fhs)
    BY DEF HandlesSound
  <2>2. hs[i].fs_private # 0 => ghs[hs[i].fs_private] = fhs[hs[i].fs_private]
    BY <1>1, <1>2
  <2> QED
    BY <2>1, <2>2 DEF Kind
<1> QED
  BY <1>1, <1>3 DEF HandlesSound

\* A driver's private data goes to file handle k, which a descriptor takes.
LEMMA Lend ==
  ASSUME NEW m, Sound(m), NEW r,
         NEW i \in HandleSlot, ~m.handles[i].used, NEW x, x.used,
         NEW k \in HandleSlot, x.fs_private = k, ~m.file_handles[k].used,
         NEW j \in MountSlot, m.mounts[j].mounted, NEW y, y.used, y.mount = j,
         Put(r.handles, m.handles, i, x), Put(r.file_handles, m.file_handles, k, y),
         Put(r.live, m.live, k, m.registered_fs[m.mounts[j].fs])
  PROVE  LentSound(r.handles, m.mounts, m.registered_fs, r.file_handles, r.live, m.orphans)
<1>0. /\ HandlesSound(m.files, m.handles, m.file_handles) /\ MountsSound(m.mounts, m.registered_fs)
      /\ LentSound(m.handles, m.mounts, m.registered_fs, m.file_handles, m.live, m.orphans)
  BY SoundParts, Zenon
<1>00. m.handles[i].fs_private = 0
  BY <1>0, FreeSlot
<1>1. /\ r.handles[i] = x /\ \A h \in HandleSlot \ {i} : r.handles[h] = m.handles[h]
      /\ r.file_handles[k] = y /\ \A h \in HandleSlot \ {k} : r.file_handles[h] = m.file_handles[h]
  BY <1>0 DEF HandlesSound, Put
<1>2. /\ m.mounts[j].fs \in FsSlot /\ m.registered_fs[m.mounts[j].fs] # ""
      /\ m.registered_fs[m.mounts[j].fs] \in DriverNames /\ j # 0
  BY <1>0, MountFields, Zenon
<1>3. /\ r.live \in [HandleSlot -> DriverNames] /\ r.live[k] = m.registered_fs[m.mounts[j].fs]
      /\ \A h \in HandleSlot \ {k} : r.live[h] = m.live[h]
  <2> DEFINE d == m.registered_fs[m.mounts[j].fs]
  <2>1. m.live \in [HandleSlot -> DriverNames] /\ d \in DriverNames /\ Put(r.live, m.live, k, d)
    BY <1>0, <1>2, Zenon DEF LentSound
  <2> HIDE DEF d
  <2>2. /\ r.live \in [HandleSlot -> DriverNames] /\ r.live[k] = d
        /\ \A h \in HandleSlot \ {k} : r.live[h] = m.live[h]
    BY <2>1 DEF Put
  <2> QED
    BY <2>2 DEF d
<1>4. k \notin m.orphans
  BY <1>0 DEF LentSound
<1>5. \A h \in m.orphans : h \in HandleSlot /\ r.file_handles[h].used
  BY <1>0, <1>1, <1>4 DEF LentSound
<1>6. Lent(k, r.handles, m.mounts, m.registered_fs, r.file_handles, r.live)
  <2>1. \E h \in HandleSlot : r.handles[h].used /\ r.handles[h].fs_private = k
    BY <1>1
  <2> QED
    BY <1>1, <1>2, <1>3, <2>1, Zenon DEF Lent
<1>7. ASSUME NEW n \in HandleSlot \ m.orphans, n # k
      PROVE  Lent(n, r.handles, m.mounts, m.registered_fs, r.file_handles, r.live)
  <2>1. Lent(n, m.handles, m.mounts, m.registered_fs, m.file_handles, m.live)
    BY <1>0, <1>7 DEF LentSound
  <2>2. \A h \in HandleSlot : m.handles[h].used /\ m.handles[h].fs_private = n =>
          r.handles[h].used /\ r.handles[h].fs_private = n
    BY <1>00, <1>1, SlotsPositive
  <2>3. r.file_handles[n] = m.file_handles[n] /\ r.live[n] = m.live[n]
    BY <1>1, <1>3, <1>7
  <2> QED
    BY <2>1, <2>2, <2>3, Zenon DEF Lent
<1> QED
  BY <1>0, <1>3, <1>5, <1>6, <1>7, Zenon DEF LentSound

\* The descriptors of all file handles but k are the same in gs as in hs.
Keeps(hs, gs, k) ==
  \A h \in HandleSlot : hs[h].used /\ hs[h].fs_private # k /\ hs[h].fs_private # 0
    => gs[h].used /\ gs[h].fs_private = hs[h].fs_private

\* File handle k is given back, with the descriptor that has it, if there is one.
LEMMA GiveBack ==
  ASSUME NEW m, Sound(m), NEW r, NEW k \in HandleSlot, Keeps(m.handles, r.handles, k),
         NEW y, ~y.used, Put(r.file_handles, m.file_handles, k, y),
         Put(r.live, m.live, k, ""), r.orphans = m.orphans \ {k}
  PROVE  LentSound(r.handles, m.mounts, m.registered_fs, r.file_handles, r.live, r.orphans)
<1> USE Zenon
<1>0. /\ HandlesSound(m.files, m.handles, m.file_handles)
      /\ LentSound(m.handles, m.mounts, m.registered_fs, m.file_handles, m.live, m.orphans)
  BY SoundParts
<1>1. r.file_handles[k] = y /\ \A h \in HandleSlot \ {k} : r.file_handles[h] = m.file_handles[h]
  BY <1>0 DEF HandlesSound, Put
<1>2. /\ r.live \in [HandleSlot -> DriverNames] /\ r.live[k] = ""
      /\ \A h \in HandleSlot \ {k} : r.live[h] = m.live[h]
  BY <1>0 DEF LentSound, DriverNames, Put
<1>3. \A h \in r.orphans : h \in HandleSlot /\ r.file_handles[h].used
  BY <1>0, <1>1 DEF LentSound
<1>4. Lent(k, r.handles, m.mounts, m.registered_fs, r.file_handles, r.live)
  BY <1>1, <1>2 DEF Lent
<1>5. ASSUME NEW n \in HandleSlot \ r.orphans, n # k
      PROVE  Lent(n, r.handles, m.mounts, m.registered_fs, r.file_handles, r.live)
  <2>1. Lent(n, m.handles, m.mounts, m.registered_fs, m.file_handles, m.live)
    BY <1>0, <1>5 DEF LentSound
  <2>2. \A h \in HandleSlot : m.handles[h].used /\ m.handles[h].fs_private = n =>
          r.handles[h].used /\ r.handles[h].fs_private = n
    <3>1. n # 0
      BY SlotsPositive
    <3> QED
      BY <1>5, <3>1 DEF Keeps
  <2>3. r.file_handles[n] = m.file_handles[n] /\ r.live[n] = m.live[n]
    BY <1>1, <1>2, <1>5
  <2> QED
    BY <2>1, <2>2, <2>3 DEF Lent
<1> QED
  BY <1>0, <1>2, <1>3, <1>4, <1>5 DEF LentSound

\* File handle k stays in use although its descriptor is gone: its mount is.
LEMMA Abandon ==
  ASSUME NEW m, Sound(m), NEW r, NEW k \in m.orphans, Keeps(m.handles, r.handles, k),
         NEW y, y.used, Put(r.file_handles, m.file_handles, k, y)
  PROVE  LentSound(r.handles, m.mounts, m.registered_fs, r.file_handles, m.live, m.orphans)
<1>0. /\ HandlesSound(m.files, m.handles, m.file_handles)
      /\ LentSound(m.handles, m.mounts, m.registered_fs, m.file_handles, m.live, m.orphans)
  BY SoundParts, Zenon
<1>1. k \in HandleSlot
  BY <1>0 DEF LentSound
<1>2. r.file_handles[k] = y /\ \A h \in HandleSlot \ {k} : r.file_handles[h] = m.file_handles[h]
  BY <1>0, <1>1 DEF HandlesSound, Put
<1>3. \A h \in m.orphans : h \in HandleSlot /\ r.file_handles[h].used
  BY <1>0, <1>2 DEF LentSound
<1>4. ASSUME NEW n \in HandleSlot \ m.orphans
      PROVE  Lent(n, r.handles, m.mounts, m.registered_fs, r.file_handles, m.live)
  <2>1. Lent(n, m.handles, m.mounts, m.registered_fs, m.file_handles, m.live)
    BY <1>0, <1>4 DEF LentSound
  <2>2. \A h \in HandleSlot : m.handles[h].used /\ m.handles[h].fs_private = n =>
          r.handles[h].used /\ r.handles[h].fs_private = n
    <3>1. n # 0
      BY SlotsPositive, Zenon
    <3> QED
      BY <1>4, <3>1 DEF Keeps
  <2>3. r.file_handles[n] = m.file_handles[n]
    BY <1>2, <1>4
  <2> QED
    BY <2>1, <2>2, <2>3, Zenon DEF Lent
<1> QED
  BY <1>0, <1>3, <1>4 DEF LentSound

LEMMA ChangesTwice ==
  ASSUME NEW m, NEW r, NEW q, NEW S, NEW T, NEW U, Changes(m, r, S), Changes(r, q, T),
         S \subseteq U, T \subseteq U
  PROVE  Changes(m, q, U)
BY Zenon DEF Changes

LEMMA ReleaseChanges ==
  ASSUME NEW m, IsMachine(m), NEW fh
  PROVE  LET r == ReleaseFileHandle(m, fh)
         IN  /\ Changes(m, r, {"file_handles", "orphans"})
             /\ Put(r.file_handles, m.file_handles, fh, NoFileHandle)
             /\ r.orphans = m.orphans \ {fh}
<1> DEFINE ghs == [m.file_handles EXCEPT ![fh] = NoFileHandle]
           ds == m.orphans \ {fh}
           q == [m EXCEPT !.file_handles = ghs, !.orphans = ds]
<1>1. ReleaseFileHandle(m, fh) = q
  BY DEF ReleaseFileHandle
<1> HIDE DEF ghs, ds
<1>2. Changes(m, q, {"file_handles", "orphans"}) /\ q.file_handles = ghs /\ q.orphans = ds
  BY Zenon DEF Changes, IsMachine, Fields
<1> QED
  BY <1>1, <1>2 DEF ghs, ds, Put

LEMMA DriverCloseChanges ==
  ASSUME NEW m, IsMachine(m), NEW fh
  PROVE  LET r == driver_close(m, fh)
         IN  Changes(m, r, {"live"}) /\ Put(r.live, m.live, fh, "")
<1> DEFINE gv == [m.live EXCEPT ![fh] = ""]
           q == [m EXCEPT !.live = gv]
<1>1. driver_close(m, fh) = q
  BY DEF driver_close
<1> HIDE DEF gv
<1>2. Changes(m, q, {"live"}) /\ q.live = gv
  BY DEF Changes, IsMachine, Fields
<1> QED
  BY <1>1, <1>2, Zenon DEF gv, Put

\* What an open by the driver, and a read or a write, make of a file handle or a descriptor.
At(h, p) == [h EXCEPT !.position = p]

\* A file handle is placed.
LEMMA PlacedFields ==
  ASSUME NEW fd, NEW mount, NEW p, NEW q
  PROVE  At([used |-> TRUE, fd |-> fd, mount |-> mount, position |-> p], q)
           = [used |-> TRUE, fd |-> fd, mount |-> mount, position |-> q]
<1>1. At([used |-> TRUE, fd |-> fd, mount |-> mount, position |-> p], q)
        \in [used : {TRUE}, fd : {fd}, mount : {mount}, position : {q}]
  BY Zenon DEF At
<1> QED
  BY <1>1, Zenon

\* The driver opens the file and places the file handle, or returns an error and changes nothing.
LEMMA DriverOpenChanges ==
  ASSUME NEW m, IsMachine(m), NEW j, NEW rel, NEW fh, NEW flags, NEW memory,
         NEW s, s = StartOf(DriverOf(m, j), flags), NEW r, r = driver_open(m, j, rel, fh, flags, memory)
  PROVE  \/ Changes(m, r, {"rc"}) /\ r.rc < 0
         \/ /\ Changes(m, r, {"file_handles", "live", "rc"}) /\ r.rc = 0
            /\ Put(r.live, m.live, fh, DriverOf(m, j))
            /\ Put(r.file_handles, m.file_handles, fh, At(m.file_handles[fh], s))
<1> DEFINE gv == [m.live EXCEPT ![fh] = DriverOf(m, j)]
           ghs == [m.file_handles EXCEPT ![fh].position = s]
           q == [m EXCEPT !.file_handles = ghs, !.live = gv, !.rc = 0]
<1>1. (\E rc \in {EISDIR, ENOENT, ENOMEM} : r = Return(m, rc)) \/ r = q
  BY DEF driver_open
<1>2. Put(gv, m.live, fh, DriverOf(m, j)) /\ Put(ghs, m.file_handles, fh, At(m.file_handles[fh], s))
  BY DEF Put, At
<1> HIDE DEF gv, ghs
<1>3. Changes(m, q, {"file_handles", "live", "rc"}) /\ q.live = gv /\ q.file_handles = ghs /\ q.rc = 0
  BY Zenon DEF Changes, IsMachine, Fields
<1>4. \A rc \in {EISDIR, ENOENT, ENOMEM} : Changes(m, Return(m, rc), {"rc"}) /\ Return(m, rc).rc < 0
  BY ReturnChanges DEF EISDIR, ENOENT, ENOMEM
<1> HIDE DEF q
<1> QED
  BY <1>1, <1>2, <1>3, <1>4, Zenon

\* What Attach puts into the slot of a descriptor.
Attached(h, j, fd, fh, flags) == [Filled(h, fd, 0, flags) EXCEPT !.fs_private = fh, !.mount = j]

LEMMA AttachedFields ==
  ASSUME NEW h \in HandleSet, NEW j \in MountSlot, NEW fd \in Int, NEW fh \in HandleSlot,
         NEW flags \in SUBSET {"r", "w", "c", "t", "a"}
  PROVE  LET x == Attached(h, j, fd, fh, flags)
         IN  /\ x \in HandleSet /\ x.used /\ x.fd = fd /\ x.file = 0 /\ x.position = 0
             /\ x.fs_private = fh /\ x.mount = j /\ x.flags = flags
<1>1. 0 \in 0 .. MAX_FILES /\ j \in 0 .. MAX_MOUNTS /\ fh \in 0 .. MAX_HANDLES
  BY Bounds DEF MountSlot, HandleSlot
<1> DEFINE y == Filled(h, fd, 0, flags)
<1>2. y \in HandleSet /\ y.used /\ y.fd = fd /\ y.file = 0 /\ y.position = 0 /\ y.flags = flags
  BY <1>1, FilledFields
<1> HIDE DEF y
<1>3. LET x == [y EXCEPT !.fs_private = fh, !.mount = j]
      IN  /\ x \in HandleSet /\ x.used /\ x.fd = fd /\ x.file = 0 /\ x.position = 0
          /\ x.fs_private = fh /\ x.mount = j /\ x.flags = flags
  BY <1>1, <1>2, Zenon DEF HandleSet
<1> QED
  BY <1>3 DEF y, Attached

LEMMA AttachChanges ==
  ASSUME NEW m, IsMachine(m), NEW j, NEW fd, NEW fh, NEW flags, m.handles \in [HandleSlot -> HandleSet],
         NEW i, i = FreeHandle(m), i # 0
  PROVE  LET r == Attach(m, j, fd, fh, flags)
         IN  /\ Changes(m, r, {"handles", "rc"})
             /\ Put(r.handles, m.handles, i, Attached(m.handles[i], j, fd, fh, flags))
             /\ r.rc = fd
<1> DEFINE d == Descriptor(m, i, fd, 0, flags)
           gs == [d.handles EXCEPT ![i].fs_private = fh, ![i].mount = j]
           q == [d EXCEPT !.handles = gs]
<1>1. i \in HandleSlot
  BY UnusedHandle, Zenon
<1>2. /\ Changes(m, d, {"handles", "rc"}) /\ d.rc = fd
      /\ d.handles = [m.handles EXCEPT ![i] = Filled(m.handles[i], fd, 0, flags)]
  BY <1>1, DescriptorChanges
<1>3. Attach(m, j, fd, fh, flags) = q
  BY Zenon DEF Attach
<1> HIDE DEF d
<1>4. gs = [m.handles EXCEPT ![i] = Attached(m.handles[i], j, fd, fh, flags)]
  BY <1>1, <1>2, Zenon DEF Attached
<1> HIDE DEF gs
<1>5. IsMachine(d)
  BY <1>2 DEF Changes
<1>6. Changes(d, q, {"handles"}) /\ q.handles = gs /\ q.rc = d.rc
  BY <1>5 DEF Changes, IsMachine, Fields
<1>7. Changes(m, q, {"handles", "rc"})
  BY <1>2, <1>6, ChangesTwice
<1> QED
  BY <1>2, <1>3, <1>4, <1>6, <1>7 DEF Put

\* A file handle that is not in use belongs to no descriptor and to no driver.
LEMMA FreeFileHandleUnknown ==
  ASSUME NEW m, Sound(m), NEW k \in HandleSlot, ~m.file_handles[k].used
  PROVE  /\ \A i \in HandleSlot : m.handles[i].fs_private # k
         /\ k \notin m.orphans /\ m.live[k] = ""
<1>1. /\ HandlesSound(m.files, m.handles, m.file_handles)
      /\ LentSound(m.handles, m.mounts, m.registered_fs, m.file_handles, m.live, m.orphans)
  BY SoundParts, ZenonT(40)
<1>2. \A i \in HandleSlot : m.handles[i].fs_private # k
  BY <1>1, SlotsPositive, Zenon DEF HandlesSound, Kind
<1>3. k \notin m.orphans
  BY <1>1 DEF LentSound
<1>4. m.live[k] = ""
  BY <1>1, <1>3, Zenon DEF LentSound, Lent
<1> QED
  BY <1>2, <1>3, <1>4, Zenon

\* An open that fails leaves the tables as they were, with the file handle cleared.
LEMMA ReleaseSound ==
  ASSUME NEW m, Sound(m), NEW k \in HandleSlot, ~m.file_handles[k].used, NEW r,
         Changes(m, r, {"file_handles", "live", "orphans", "next_fd", "rc"}), r.next_fd \in Nat,
         Put(r.file_handles, m.file_handles, k, NoFileHandle),
         r.live = m.live \/ Put(r.live, m.live, k, ""), r.orphans = m.orphans \ {k}
  PROVE  Sound(r)
<1> USE Zenon
<1>1. /\ r.files = m.files /\ r.registered_fs = m.registered_fs /\ r.mounts = m.mounts
      /\ r.handles = m.handles /\ IsMachine(r)
  BY DEF Changes, Fields
<1>2. /\ FilesSound(m.files) /\ HandlesSound(m.files, m.handles, m.file_handles)
      /\ PositionsSound(m.files, m.handles) /\ MountsSound(m.mounts, m.registered_fs)
      /\ LentSound(m.handles, m.mounts, m.registered_fs, m.file_handles, m.live, m.orphans)
      /\ m.live \in [HandleSlot -> DriverNames]
  BY SoundParts
<1>3. (\A i \in HandleSlot : m.handles[i].fs_private # k) /\ m.live[k] = ""
  BY FreeFileHandleUnknown
<1>4. NoFileHandle \in FileHandleSet /\ ~NoFileHandle.used
  BY NoFileHandleFields
<1>5. HandlesSound(m.files, m.handles, r.file_handles)
  BY <1>2, <1>3, <1>4, SetFileHandle
<1>6. Put(r.live, m.live, k, "")
  BY <1>2, <1>3 DEF Put
<1>k. Keeps(m.handles, r.handles, k)
  BY <1>1 DEF Keeps
<1>7. LentSound(r.handles, m.mounts, m.registered_fs, r.file_handles, r.live, r.orphans)
  BY <1>4, <1>6, <1>k, GiveBack
<1> QED
  BY <1>1, <1>2, <1>5, <1>7 DEF Sound

\* A descriptor and a file handle for a file that the driver of mount j has opened.
LEMMA AttachSound ==
  ASSUME NEW m, Sound(m), NEW i \in HandleSlot, ~m.handles[i].used,
         NEW k \in HandleSlot, ~m.file_handles[k].used, NEW j \in MountSlot, m.mounts[j].mounted,
         NEW fd \in Int, \A n \in HandleSlot : m.handles[n].used => m.handles[n].fd # fd,
         NEW x \in HandleSet, x.used, x.fd = fd, x.file = 0, x.fs_private = k, x.mount = j,
         NEW y \in FileHandleSet, y.used, y.fd = fd, y.mount = j, SamePlace(x, y),
         NEW r, Changes(m, r, {"handles", "file_handles", "live", "next_fd", "rc"}), r.next_fd \in Nat,
         Put(r.handles, m.handles, i, x), Put(r.file_handles, m.file_handles, k, y),
         Put(r.live, m.live, k, m.registered_fs[m.mounts[j].fs])
  PROVE  Sound(r)
<1> USE Zenon
<1>1. /\ r.files = m.files /\ r.registered_fs = m.registered_fs /\ r.mounts = m.mounts
      /\ r.orphans = m.orphans /\ IsMachine(r)
  BY SMT DEF Changes, Fields
<1>2. /\ FilesSound(m.files) /\ HandlesSound(m.files, m.handles, m.file_handles)
      /\ PositionsSound(m.files, m.handles) /\ MountsSound(m.mounts, m.registered_fs)
      /\ LentSound(m.handles, m.mounts, m.registered_fs, m.file_handles, m.live, m.orphans)
      /\ m.file_handles \in [HandleSlot -> FileHandleSet]
  BY SoundParts
<1>3. \A n \in HandleSlot : m.handles[n].fs_private # k
  BY FreeFileHandleUnknown
<1>5. HandlesSound(m.files, m.handles, r.file_handles)
  BY <1>2, <1>3, SetFileHandle
<1>6. Kind(m.files, x, r.file_handles)
  <2>1. r.file_handles[k] = y /\ k # 0 /\ j # 0
    BY <1>2, Bounds, SMT DEF HandleSlot, MountSlot, Put
  <2> QED
    BY <2>1, SMT DEF Kind
<1>7. \A n \in HandleSlot \ {i} : Apart(x, m.handles[n])
  BY <1>3, SMT DEF Apart
<1>8. HandlesSound(m.files, r.handles, r.file_handles)
  BY <1>5, <1>6, <1>7, SetHandle
<1>9. PositionsSound(m.files, r.handles)
  BY <1>2, SetHandlePosition
<1>10. LentSound(r.handles, m.mounts, m.registered_fs, r.file_handles, r.live, m.orphans)
  BY Lend
<1> QED
  BY <1>1, <1>2, <1>8, <1>9, <1>10 DEF Sound

\* An open fails after file handle k was filled in, before or after the driver opened the file.
LEMMA OpenFails ==
  ASSUME NEW m, Sound(m), NEW k \in HandleSlot, ~m.file_handles[k].used, NEW y, NEW d, NEW o,
         Changes(m, o, {"file_handles", "live", "rc"}), Put(o.file_handles, m.file_handles, k, y)
  PROVE  /\ o.live = m.live => Sound(ReleaseFileHandle(o, k))
         /\ Put(o.live, m.live, k, d) => Sound(ReleaseFileHandle(driver_close(o, k), k))
<1>0. m.next_fd \in Nat /\ IsMachine(o)
  BY SoundParts DEF Changes
<1>1. ASSUME NEW c, Changes(o, c, {"live"}), c.live = m.live \/ Put(c.live, m.live, k, ""),
             NEW r, r = ReleaseFileHandle(c, k)
      PROVE  Sound(r)
  <2> USE Zenon
  <2>1. IsMachine(c) /\ c.file_handles = o.file_handles /\ c.orphans = m.orphans
    BY <1>1 DEF Changes, Fields
  <2>2. /\ Changes(c, r, {"file_handles", "orphans"}) /\ r.orphans = c.orphans \ {k}
        /\ Put(r.file_handles, c.file_handles, k, NoFileHandle)
    BY <1>1, <2>1, ReleaseChanges
  <2>3. r.live = c.live /\ r.next_fd = m.next_fd
    BY <1>1, <2>2 DEF Changes, Fields
  <2>4. Changes(m, c, {"file_handles", "live", "rc"})
    BY <1>1 DEF Changes
  <2>5. Changes(m, r, {"file_handles", "live", "orphans", "next_fd", "rc"})
    BY <2>2, <2>4, ChangesTwice, SMT
  <2>6. Put(r.file_handles, m.file_handles, k, NoFileHandle)
    BY <2>1, <2>2, PutTwice, SMT
  <2>7. r.next_fd \in Nat /\ r.orphans = m.orphans \ {k} /\ (r.live = m.live \/ Put(r.live, m.live, k, ""))
    BY <1>0, <1>1, <2>1, <2>2, <2>3
  <2> QED
    BY <2>5, <2>6, <2>7, ReleaseSound
<1>2. Changes(o, o, {"live"})
  BY <1>0 DEF Changes
<1>3. Changes(o, driver_close(o, k), {"live"}) /\ Put(driver_close(o, k).live, o.live, k, "")
  BY <1>0, DriverCloseChanges, Zenon
<1>4. Put(o.live, m.live, k, d) => Put(driver_close(o, k).live, m.live, k, "")
  BY <1>3, PutTwice, Zenon
<1> QED
  BY <1>1, <1>2, <1>3, <1>4, Zenon

\* An open succeeds.
LEMMA OpenSucceeds ==
  ASSUME NEW m, Sound(m), NEW k \in HandleSlot, ~m.file_handles[k].used,
         NEW j \in MountSlot, m.mounts[j].mounted, NEW fd \in Nat,
         \A n \in HandleSlot : m.handles[n].used => m.handles[n].fd # fd,
         NEW flags \in SUBSET {"r", "w", "c", "t", "a"},
         NEW s, s = 0 \/ ("a" \in flags /\ s = FileLen),
         NEW y, y = [used |-> TRUE, fd |-> fd, mount |-> j, position |-> s], NEW o,
         Changes(m, o, {"file_handles", "live", "rc"}), Put(o.file_handles, m.file_handles, k, y),
         Put(o.live, m.live, k, m.registered_fs[m.mounts[j].fs]), FreeHandle(o) # 0
  PROVE  Sound(Attach(o, j, fd, k, flags))
<1> SUFFICES ASSUME NEW q, q = Attach(o, j, fd, k, flags), NEW i, i = FreeHandle(o),
                    NEW x, x = Attached(m.handles[i], j, fd, k, flags)
             PROVE  Sound(q)
  BY Zenon
<1>0. fd \in Int
  BY SMT
<1> USE Zenon
<1>1. /\ IsMachine(o) /\ o.handles = m.handles /\ o.next_fd = m.next_fd
      /\ m.next_fd \in Nat /\ m.handles \in [HandleSlot -> HandleSet]
  BY SoundParts DEF Changes, Fields
<1>2. i \in HandleSlot /\ ~m.handles[i].used
  BY <1>1, UnusedHandle
<1>3. Changes(o, q, {"handles", "rc"}) /\ Put(q.handles, m.handles, i, x)
  BY <1>1, AttachChanges
<1>4. /\ x \in HandleSet /\ x.used /\ x.fd = fd /\ x.file = 0 /\ x.position = 0
      /\ x.fs_private = k /\ x.mount = j /\ x.flags = flags
  <2>1. m.handles[i] \in HandleSet
    BY <1>1, <1>2
  <2> QED
    BY <1>0, <2>1, AttachedFields, SMT
<1>5. y \in FileHandleSet /\ y.used /\ y.fd = fd /\ y.mount = j /\ y.position = s
  <2>1. j \in 0 .. MAX_MOUNTS /\ s \in Nat
    BY Bounds, SMT DEF MountSlot
  <2> QED
    BY <2>1, SMT DEF FileHandleSet
<1>s. SamePlace(x, y)
  BY <1>4, <1>5 DEF SamePlace
<1>6. Changes(m, q, {"handles", "file_handles", "live", "next_fd", "rc"})
  BY <1>3, ChangesTwice, SMT
<1>7. q.live = o.live /\ q.next_fd \in Nat /\ q.file_handles = o.file_handles
  BY <1>1, <1>3 DEF Changes, Fields
<1>8. /\ Put(q.live, m.live, k, m.registered_fs[m.mounts[j].fs])
      /\ Put(q.file_handles, m.file_handles, k, y)
  BY <1>7
<1> QED
  BY <1>0, <1>2, <1>3, <1>4, <1>5, <1>s, <1>6, <1>7, <1>8, AttachSound

\* An open of a mounted file, wherever it fails.
LEMMA OpenHandleSound ==
  ASSUME NEW m, Sound(m), NEW j \in MountSlot, m.mounts[j].mounted, NEW rel, NEW memory,
         NEW fh \in HandleSlot, ~m.file_handles[fh].used, NEW flags \in SUBSET {"r", "w", "c", "t", "a"}
  PROVE  Sound(OpenHandle(m, j, rel, fh, flags, memory))
<1> DEFINE r == allocate_fd(m)
           fd == r.rc
           y == [used |-> TRUE, fd |-> fd, mount |-> j, position |-> 0]
           ghs == [r.file_handles EXCEPT ![fh] = y]
           p == [r EXCEPT !.file_handles = ghs]
           s == StartOf(DriverOf(p, j), flags)
           z == [used |-> TRUE, fd |-> fd, mount |-> j, position |-> s]
           o == driver_open(p, j, rel, fh, flags, memory)
           q == OpenHandle(m, j, rel, fh, flags, memory)
<1>1. /\ Sound(r) /\ Changes(m, r, {"next_fd", "rc"})
      /\ \/ fd = EMFILE
         \/ fd \in Nat /\ \A i \in HandleSlot : m.handles[i].used => m.handles[i].fd # fd
  BY AllocateSound
<1>2. q = IF fd < 0 THEN r ELSE IF o.rc < 0 THEN ReleaseFileHandle(o, fh) ELSE Attach(o, j, fd, fh, flags)
  BY Zenon DEF OpenHandle, Try, With
<1> HIDE DEF r, y, q
<1>3. CASE fd = EMFILE
  BY <1>1, <1>2, <1>3 DEF EMFILE, q
<1>4. CASE fd # EMFILE
  <2>1. fd \in Nat /\ \A i \in HandleSlot : r.handles[i].used => r.handles[i].fd # fd
    <3>1. r.handles = m.handles
      BY <1>1 DEF Changes, Fields
    <3> QED
      BY <1>1, <1>4, <3>1
  <2>2. IsMachine(r) /\ MountsSound(r.mounts, r.registered_fs)
    BY <1>1, SoundParts, Zenon
  <2>3. r.mounts[j].mounted /\ ~r.file_handles[fh].used
    BY <1>1 DEF Changes, Fields
  <2> HIDE DEF ghs
  <2>4. Changes(r, p, {"file_handles"}) /\ p.file_handles = ghs
    BY <2>2 DEF Changes, IsMachine, Fields
  <2>5. IsMachine(p) /\ p.mounts = r.mounts /\ p.registered_fs = r.registered_fs /\ p.live = r.live
    BY <2>4 DEF Changes, Fields
  <2>6. Put(p.file_handles, r.file_handles, fh, y)
    BY <2>4 DEF ghs, Put
  <2> HIDE DEF p
  <2>7. \/ Changes(p, o, {"rc"}) /\ o.rc < 0
        \/ /\ Changes(p, o, {"file_handles", "live", "rc"}) /\ o.rc = 0
           /\ Put(o.live, p.live, fh, DriverOf(p, j))
           /\ Put(o.file_handles, p.file_handles, fh, At(p.file_handles[fh], s))
    BY <2>5, DriverOpenChanges, Zenon
  <2>s. s = 0 \/ ("a" \in flags /\ s = FileLen)
    BY Zenon DEF StartOf
  <2>8. DriverOf(p, j) = r.registered_fs[r.mounts[j].fs]
    <3>1. r.mounts[j].fs # 0
      BY <2>2, <2>3, Zenon DEF MountsSound
    <3> QED
      BY <2>5, <3>1 DEF DriverOf
  <2> HIDE DEF o
  <2> HIDE DEF s
  <2>9. Changes(p, o, {"file_handles", "live", "rc"})
    BY <2>7 DEF Changes
  <2>10. Changes(r, o, {"file_handles", "live", "rc"})
    BY <2>4, <2>9 DEF Changes
  <2>11. CASE o.rc < 0
    <3>1. o.live = r.live /\ Put(o.file_handles, r.file_handles, fh, y)
      BY <2>5, <2>6, <2>7, <2>11 DEF Changes, Fields
    <3>2. Sound(ReleaseFileHandle(o, fh))
      BY <1>1, <2>3, <2>10, <3>1, OpenFails
    <3> QED
      BY <1>2, <2>1, <2>11, <3>2 DEF q
  <2>12. CASE ~(o.rc < 0)
    <3>1. q = Attach(o, j, fd, fh, flags)
      BY <1>2, <2>1, <2>12
    <3>2. Put(o.live, r.live, fh, r.registered_fs[r.mounts[j].fs])
      BY <2>5, <2>7, <2>8, <2>12
    <3>3. Put(o.file_handles, r.file_handles, fh, z)
      <4>1. p.file_handles[fh] = y
        <5>1. r.file_handles \in [HandleSlot -> FileHandleSet]
          BY <1>1, SoundParts, Zenon
        <5> QED
          BY <2>4, <5>1 DEF ghs
      <4>2. At(y, s) = z
        BY PlacedFields, Zenon DEF y
      <4> HIDE DEF z
      <4>3. Put(o.file_handles, p.file_handles, fh, At(p.file_handles[fh], s))
        BY <2>7, <2>12, Zenon
      <4>4. Put(o.file_handles, p.file_handles, fh, z)
        BY <4>1, <4>2, <4>3, Zenon
      <4> QED
        BY <2>6, <4>4, PutTwice, Zenon
    <3>4. CASE FreeHandle(o) = 0
      <4>1. Sound(ReleaseFileHandle(driver_close(o, fh), fh))
        BY <1>1, <2>3, <2>10, <3>2, <3>3, OpenFails
      <4> QED
        BY <3>1, <3>4, <4>1, ReturnSound DEF q, Attach
    <3>5. CASE FreeHandle(o) # 0
      <4>1. Sound(Attach(o, j, fd, fh, flags))
        BY <1>1, <2>1, <2>3, <2>10, <2>s, <3>2, <3>3, <3>5, OpenSucceeds, Zenon
      <4> QED
        BY <3>1, <4>1 DEF q
    <3> QED
      BY <3>4, <3>5
  <2> QED
    BY <2>11, <2>12
<1> QED
  BY <1>3, <1>4

LEMMA OpenSound ==
  ASSUME NEW m, Sound(m), NEW path, NEW flags \in SUBSET {"r", "w", "c", "t", "a"}, NEW memory
  PROVE  Sound(vfs_open(m, path, flags, memory))
<1> DEFINE j == vfs_find_mount(m, path)
<1>1. CASE FileNamed(m, path) # 0
  <2>1. FileNamed(m, path) \in FileSlot /\ m.files[FileNamed(m, path)].used
    BY <1>1, NamedFile, Zenon
  <2> QED
    BY <1>1, <2>1, OpenLegacySound DEF vfs_open
<1>2. CASE FileNamed(m, path) = 0
  <2>1. vfs_open(m, path, flags, memory) = OpenMounted(m, j, path, flags, memory)
    BY <1>2 DEF vfs_open
  <2>2. CASE HasDriver(m, j) /\ FreeFileHandle(m) # 0 /\ driver_stat(m, j, RelativePath(m, j, path))
    <3>1. j \in MountSlot /\ m.mounts[j].mounted
      BY <2>2, MountFound, Zenon DEF HasDriver
    <3>2. FreeFileHandle(m) \in HandleSlot /\ ~m.file_handles[FreeFileHandle(m)].used
      BY <2>2, UnusedFileHandle, Zenon
    <3> HIDE DEF j
    <3>3. OpenMounted(m, j, path, flags, memory)
            = OpenHandle(m, j, RelativePath(m, j, path), FreeFileHandle(m), flags, memory)
      BY <2>2 DEF OpenMounted
    <3> QED
      BY <2>1, <3>1, <3>2, <3>3, OpenHandleSound
  <2>3. CASE ~(HasDriver(m, j) /\ FreeFileHandle(m) # 0 /\ driver_stat(m, j, RelativePath(m, j, path)))
    <3>1. \E rc : OpenMounted(m, j, path, flags, memory) = Return(m, rc)
      BY <2>3 DEF OpenMounted
    <3> QED
      BY <2>1, <3>1, ReturnSound
  <2> QED
    BY <2>2, <2>3
<1> QED
  BY <1>1, <1>2

-----------------------------------------------------------------------------
(* Close.                                                                  *)

LEMMA NoHandleFields ==
  /\ NoHandle \in HandleSet /\ ~NoHandle.used /\ NoHandle.file = 0
  /\ NoHandle.fs_private = 0 /\ NoHandle.mount = 0
<1>1. 0 \in 0 .. MAX_MOUNTS /\ 0 \in 0 .. MAX_FILES /\ 0 \in 0 .. MAX_HANDLES
  BY Bounds
<1> QED
  BY <1>1 DEF NoHandle, HandleSet

\* A descriptor of a mounted file goes, and its file handle k is given back or, when its mount
\* is gone, stays in use.
LEMMA CloseMounted ==
  ASSUME NEW m, Sound(m), NEW i \in HandleSlot, m.handles[i].used,
         NEW k \in HandleSlot, m.handles[i].fs_private = k, NEW y \in FileHandleSet, NEW q,
         Changes(m, q, {"handles", "file_handles", "live", "orphans", "rc"}),
         Put(q.handles, m.handles, i, NoHandle), Put(q.file_handles, m.file_handles, k, y),
         \/ ~y.used /\ Put(q.live, m.live, k, "") /\ q.orphans = m.orphans \ {k}
         \/ y.used /\ k \in m.orphans /\ q.live = m.live /\ q.orphans = m.orphans
  PROVE  Sound(q)
<1> USE Zenon
<1>1. /\ q.files = m.files /\ q.registered_fs = m.registered_fs /\ q.mounts = m.mounts
      /\ q.next_fd = m.next_fd /\ IsMachine(q)
  BY DEF Changes, Fields
<1>2. /\ FilesSound(m.files) /\ HandlesSound(m.files, m.handles, m.file_handles)
      /\ PositionsSound(m.files, m.handles) /\ MountsSound(m.mounts, m.registered_fs)
      /\ m.next_fd \in Nat /\ m.handles \in [HandleSlot -> HandleSet]
  BY SoundParts
<1>3. q.handles[i] = NoHandle /\ \A h \in HandleSlot \ {i} : q.handles[h] = m.handles[h]
  <2>1. IsPut(q.handles, HandleSet, i, NoHandle, m.handles)
    BY <1>2, NoHandleFields, PutIs
  <2> QED
    BY <2>1 DEF IsPut
<1>4. HandlesSound(m.files, q.handles, m.file_handles)
  <2>1. Kind(m.files, NoHandle, m.file_handles)
    BY NoHandleFields DEF Kind
  <2>2. \A j \in HandleSlot \ {i} : Apart(NoHandle, m.handles[j])
    BY NoHandleFields DEF Apart
  <2> QED
    BY <1>2, <2>1, <2>2, NoHandleFields, SetHandle
<1>5. \A h \in HandleSlot : q.handles[h].fs_private # k
  <2>1. ASSUME NEW h \in HandleSlot \ {i} PROVE m.handles[h].fs_private # k
    <3>1. CASE ~m.handles[h].used
      <4>1. m.handles[h].fs_private = 0
        BY <1>2, <3>1, FreeSlot, ZenonT(40)
      <4> QED
        BY <4>1, SlotsPositive
    <3>2. CASE m.handles[h].used
      BY <1>2, <3>2, SlotsPositive DEF HandlesSound, Apart
    <3> QED
      BY <3>1, <3>2
  <2> QED
    BY <1>3, <2>1, NoHandleFields, SlotsPositive
<1>6. HandlesSound(m.files, q.handles, q.file_handles)
  BY <1>4, <1>5, SetFileHandle
<1>7. PositionsSound(m.files, q.handles)
  BY <1>2, NoHandleFields, SetHandlePosition
<1>8. Keeps(m.handles, q.handles, k)
  BY <1>3 DEF Keeps
<1>9. LentSound(q.handles, m.mounts, m.registered_fs, q.file_handles, q.live, q.orphans)
  <2>1. CASE ~y.used /\ Put(q.live, m.live, k, "") /\ q.orphans = m.orphans \ {k}
    BY <1>8, <2>1, GiveBack
  <2>2. CASE y.used /\ k \in m.orphans /\ q.live = m.live /\ q.orphans = m.orphans
    BY <1>8, <2>2, Abandon, ZenonT(40)
  <2> QED
    BY <2>1, <2>2
<1> QED
  BY <1>1, <1>2, <1>6, <1>7, <1>9 DEF Sound

\* A descriptor of a mounted file has a file handle, which is an orphan if the mount has no
\* driver any more.
LEMMA MountedHandle ==
  ASSUME NEW m, Sound(m), NEW i \in HandleSlot, m.handles[i].used, m.handles[i].fs_private # 0
  PROVE  /\ m.handles[i].fs_private \in HandleSlot /\ m.handles[i].mount \in MountSlot
         /\ m.handles[i].file = 0
         /\ m.file_handles[m.handles[i].fs_private].used
         /\ m.file_handles[m.handles[i].fs_private].mount = m.handles[i].mount
         /\ ~HasDriver(m, m.handles[i].mount) => m.handles[i].fs_private \in m.orphans
<1> DEFINE h == m.handles[i]
           k == m.handles[i].fs_private
<1>1. /\ HandlesSound(m.files, m.handles, m.file_handles) /\ MountsSound(m.mounts, m.registered_fs)
      /\ LentSound(m.handles, m.mounts, m.registered_fs, m.file_handles, m.live, m.orphans)
  BY SoundParts, Zenon
<1>2. h \in HandleSet /\ Kind(m.files, h, m.file_handles)
  BY <1>1 DEF HandlesSound
<1> HIDE DEF h
<1>3. /\ h.mount # 0 /\ h.file = 0 /\ m.file_handles[h.fs_private].used
      /\ m.file_handles[h.fs_private].mount = h.mount
  BY <1>2, Zenon DEF Kind, h
<1>4. h.fs_private \in HandleSlot /\ h.mount \in MountSlot
  BY <1>2, <1>3, HandleFields, Zenon DEF h
<1>5. ASSUME h.fs_private \notin m.orphans PROVE HasDriver(m, h.mount)
  <2> USE Zenon
  <2>1. m.mounts[h.mount].mounted
    BY <1>1, <1>3, <1>4, <1>5 DEF LentSound, Lent
  <2>2. m.mounts[h.mount].fs # 0 /\ m.registered_fs[m.mounts[h.mount].fs] # ""
    BY <1>1, <1>4, <2>1 DEF MountsSound
  <2> QED
    BY <1>3, <2>2 DEF HasDriver, DriverOf
<1> QED
  BY <1>3, <1>4, <1>5 DEF h

LEMMA CloseSound ==
  ASSUME NEW m, Sound(m), NEW fd
  PROVE  Sound(vfs_close(m, fd))
<1> DEFINE i == get_handle(m, fd)
           h == m.handles[i]
           k == h.fs_private
           c == CloseFileHandle(m, h)
           gs == [c.handles EXCEPT ![i] = NoHandle]
           q == [c EXCEPT !.handles = gs, !.rc = 0]
<1>1. vfs_close(m, fd) = Return(m, 0) \/ vfs_close(m, fd) = Return(m, -1)
        \/ (i # 0 /\ vfs_close(m, fd) = q)
  BY DEF vfs_close, With
<1>2. CASE i # 0
  <2>1. i \in HandleSlot /\ h.used
    BY <1>2, HandleOfFd, Zenon
  <2> HIDE DEF i
  <2>2. /\ IsMachine(m) /\ HandlesSound(m.files, m.handles, m.file_handles) /\ m.next_fd \in Nat
    BY SoundParts, Zenon
  <2> HIDE DEF gs, c
  <2>3. ASSUME IsMachine(c), c.handles = m.handles
        PROVE  /\ IsMachine(q) /\ Changes(c, q, {"handles", "rc"}) /\ Put(q.handles, m.handles, i, NoHandle)
    <3>1. Changes(c, q, {"handles", "rc"}) /\ q.handles = gs
      BY <2>3, Zenon DEF Changes, IsMachine, Fields
    <3> HIDE DEF q
    <3> QED
      BY <2>3, <3>1 DEF gs, Put, Changes
  <2> HIDE DEF q
  <2>4. CASE k = 0
    <3>1. c = m
      BY <2>4 DEF c, CloseFileHandle
    <3>2. Changes(m, q, {"handles", "rc"}) /\ Put(q.handles, m.handles, i, NoHandle)
      BY <2>2, <2>3, <3>1
    <3>3. Changes(m, q, {"handles", "next_fd", "rc"}) /\ q.next_fd \in Nat
      BY <2>2, <3>2 DEF Changes, Fields
    <3>4. Kind(m.files, NoHandle, m.file_handles)
      BY NoHandleFields DEF Kind
    <3>5. \A j \in HandleSlot \ {i} : Apart(NoHandle, m.handles[j])
      BY NoHandleFields DEF Apart
    <3>6. Sound(q)
      BY <2>1, <2>4, <3>2, <3>3, <3>4, <3>5, NoHandleFields, HandleUpdate, Zenon
    <3> QED
      BY <1>1, <3>6, ReturnSound
  <2>5. CASE k # 0
    <3>1. /\ k \in HandleSlot /\ h.mount \in MountSlot /\ m.file_handles[k].used
          /\ ~HasDriver(m, h.mount) => k \in m.orphans
      BY <2>1, <2>5, MountedHandle, Zenon
    <3>2. CASE HasDriver(m, h.mount)
      <4> DEFINE d == driver_close(m, k)
      <4>1. c = ReleaseFileHandle(d, k)
        BY <2>5, <3>1, <3>2 DEF c, CloseFileHandle
      <4>2. Changes(m, d, {"live"}) /\ Put(d.live, m.live, k, "")
        BY <2>2, DriverCloseChanges, Zenon
      <4>3. IsMachine(d)
        BY <4>2, ZenonT(40) DEF Changes
      <4> HIDE DEF d
      <4>4. /\ Changes(d, c, {"file_handles", "orphans"}) /\ c.orphans = d.orphans \ {k}
            /\ Put(c.file_handles, d.file_handles, k, NoFileHandle)
        BY <4>1, <4>3, ReleaseChanges, Zenon
      <4>5. IsMachine(c) /\ c.handles = m.handles
        BY <4>2, <4>4, ZenonT(40) DEF Changes, Fields
      <4>6. Changes(c, q, {"handles", "rc"}) /\ Put(q.handles, m.handles, i, NoHandle)
        BY <2>3, <4>5
      <4>7. Changes(m, q, {"handles", "file_handles", "live", "orphans", "rc"})
        BY <4>2, <4>4, <4>6, Zenon DEF Changes
      <4>8. /\ Put(q.file_handles, m.file_handles, k, NoFileHandle)
            /\ Put(q.live, m.live, k, "") /\ q.orphans = m.orphans \ {k}
        BY <4>2, <4>4, <4>6, Zenon DEF Changes, Fields
      <4>9. Sound(q)
        BY <2>1, <3>1, <4>6, <4>7, <4>8, NoFileHandleFields, CloseMounted, Zenon
      <4> QED
        BY <1>1, <4>9, ReturnSound
    <3>3. CASE ~HasDriver(m, h.mount)
      <4> DEFINE y == [NoFileHandle EXCEPT !.used = TRUE]
                 ghs == [m.file_handles EXCEPT ![k] = y]
      <4>1. c = [m EXCEPT !.file_handles = ghs]
        BY <2>5, <3>3 DEF c, CloseFileHandle
      <4>2. y \in FileHandleSet /\ y.used
        BY NoFileHandleFields, Zenon DEF FileHandleSet
      <4> HIDE DEF ghs, y
      <4>3. Changes(m, c, {"file_handles"}) /\ c.file_handles = ghs
        BY <2>2, <4>1 DEF Changes, IsMachine, Fields
      <4>4. IsMachine(c) /\ c.handles = m.handles /\ Put(c.file_handles, m.file_handles, k, y)
        BY <4>3 DEF Changes, Fields, ghs, Put
      <4>5. Changes(c, q, {"handles", "rc"}) /\ Put(q.handles, m.handles, i, NoHandle)
        BY <2>3, <4>4
      <4>6. Changes(m, q, {"handles", "file_handles", "live", "orphans", "rc"})
        BY <4>3, <4>5 DEF Changes
      <4>7. /\ Put(q.file_handles, m.file_handles, k, y)
            /\ q.live = m.live /\ q.orphans = m.orphans
        BY <4>3, <4>4, <4>5 DEF Changes, Fields
      <4>8. Sound(q)
        BY <2>1, <3>1, <3>3, <4>2, <4>5, <4>6, <4>7, CloseMounted, Zenon
      <4> QED
        BY <1>1, <4>8, ReturnSound
    <3> QED
      BY <3>2, <3>3
  <2> QED
    BY <2>4, <2>5
<1> QED
  BY <1>1, <1>2, ReturnSound

-----------------------------------------------------------------------------
(* Read, write and seek.                                                   *)

\* The number of bytes of a transfer does not lead past the end of what is read or written.
LEMMA TransferFits ==
  ASSUME NEW position \in Nat, NEW count \in Nat, NEW length \in Nat, NEW result \in Int
  PROVE  LET n == Transfer(position, count, length, result)
         IN  /\ n \in Int /\ Greater(n, 0) \in Nat
             /\ \A b \in Nat : length <= b /\ position <= b => position + Greater(n, 0) <= b
BY DEF Transfer, Lesser, Greater

LEMMA MovedFields ==
  ASSUME NEW h \in HandleSet, NEW p \in Nat
  PROVE  LET x == At(h, p)
         IN  /\ x \in HandleSet /\ x.used = h.used /\ x.fd = h.fd /\ x.file = h.file
             /\ x.fs_private = h.fs_private /\ x.mount = h.mount /\ x.position = p
BY DEF HandleSet, At

LEMMA MovedFileHandle ==
  ASSUME NEW h \in FileHandleSet, NEW p \in Nat
  PROVE  LET y == At(h, p)
         IN  /\ y \in FileHandleSet /\ y.used = h.used /\ y.fd = h.fd
             /\ y.mount = h.mount /\ y.position = p
BY DEF FileHandleSet, At

\* A descriptor of a mounted file and its file handle move together.
LEMMA MoveMounted ==
  ASSUME NEW m, Sound(m), NEW i \in HandleSlot, m.handles[i].used,
         NEW k \in HandleSlot, m.handles[i].fs_private = k, NEW p \in Nat, NEW q,
         Changes(m, q, {"handles", "file_handles", "rc"}),
         Put(q.handles, m.handles, i, At(m.handles[i], p)),
         Put(q.file_handles, m.file_handles, k, At(m.file_handles[k], p))
  PROVE  Sound(q)
<1> USE Zenon
<1> DEFINE x == At(m.handles[i], p)
           y == At(m.file_handles[k], p)
<1>1. /\ q.files = m.files /\ q.registered_fs = m.registered_fs /\ q.mounts = m.mounts
      /\ q.next_fd = m.next_fd /\ q.live = m.live /\ q.orphans = m.orphans /\ IsMachine(q)
  BY SMT DEF Changes, Fields
<1>2. /\ FilesSound(m.files) /\ HandlesSound(m.files, m.handles, m.file_handles)
      /\ PositionsSound(m.files, m.handles) /\ MountsSound(m.mounts, m.registered_fs)
      /\ LentSound(m.handles, m.mounts, m.registered_fs, m.file_handles, m.live, m.orphans)
      /\ m.next_fd \in Nat /\ m.handles \in [HandleSlot -> HandleSet]
      /\ m.file_handles \in [HandleSlot -> FileHandleSet]
  BY SoundParts
<1>3. /\ x \in HandleSet /\ x.used = m.handles[i].used /\ x.fd = m.handles[i].fd
      /\ x.file = m.handles[i].file /\ x.fs_private = k /\ x.mount = m.handles[i].mount /\ x.position = p
  BY <1>2, MovedFields
<1>4. /\ y \in FileHandleSet /\ y.used = m.file_handles[k].used /\ y.fd = m.file_handles[k].fd
      /\ y.mount = m.file_handles[k].mount /\ y.position = p
  BY <1>2, MovedFileHandle
<1> HIDE DEF x, y
<1>5. Put(q.handles, m.handles, i, x) /\ Put(q.file_handles, m.file_handles, k, y)
  BY SMT DEF x, y
<1>6. /\ q.handles \in [HandleSlot -> HandleSet] /\ q.handles[i] = x
      /\ \A h \in HandleSlot \ {i} : q.handles[h] = m.handles[h]
  <2>1. IsPut(q.handles, HandleSet, i, x, m.handles)
    BY <1>2, <1>3, <1>5, PutIs
  <2> QED
    BY <2>1 DEF IsPut
<1>7. /\ q.file_handles \in [HandleSlot -> FileHandleSet] /\ q.file_handles[k] = y
      /\ \A h \in HandleSlot \ {k} : q.file_handles[h] = m.file_handles[h]
  <2>1. IsPut(q.file_handles, FileHandleSet, k, y, m.file_handles)
    BY <1>2, <1>4, <1>5, PutIs
  <2> QED
    BY <2>1 DEF IsPut
<1>8. k # 0 /\ m.handles[i].file = 0
  BY <1>2, SlotsPositive, MountedHandle
<1>9. HandlesSound(m.files, q.handles, q.file_handles)
  <2>1. ASSUME NEW h \in HandleSlot, h # i PROVE Kind(m.files, q.handles[h], q.file_handles)
    <3>1. q.handles[h] = m.handles[h] /\ Kind(m.files, m.handles[h], m.file_handles)
      BY <1>2, <1>6, <2>1 DEF HandlesSound
    <3>2. m.handles[h].used => m.handles[h].fs_private # k
      BY <1>2, <1>8, <2>1 DEF HandlesSound, Apart
    <3>3. m.handles[h].fs_private # 0 => m.handles[h].fs_private \in HandleSlot
      BY <1>2, HandleFields
    <3> QED
      BY <1>7, <3>1, <3>2, <3>3 DEF Kind
  <2>2. Kind(m.files, q.handles[i], q.file_handles)
    <3>1. Kind(m.files, m.handles[i], m.file_handles)
      BY <1>2 DEF HandlesSound
    <3> QED
      BY <1>3, <1>4, <1>6, <1>7, <1>8, <3>1 DEF Kind, SamePlace
  <2>3. \A h, g \in HandleSlot : h # g => Apart(q.handles[h], q.handles[g])
    <3>1. ASSUME NEW h \in HandleSlot
          PROVE  /\ q.handles[h].used = m.handles[h].used /\ q.handles[h].fd = m.handles[h].fd
                 /\ q.handles[h].fs_private = m.handles[h].fs_private
      BY <1>3, <1>6
    <3>2. \A h, g \in HandleSlot : h # g => Apart(m.handles[h], m.handles[g])
      BY <1>2 DEF HandlesSound
    <3>3. ASSUME NEW h \in HandleSlot, NEW g \in HandleSlot, h # g PROVE Apart(q.handles[h], q.handles[g])
      <4>1. Apart(m.handles[h], m.handles[g])
        BY <3>2, <3>3
      <4>2. /\ q.handles[h].used = m.handles[h].used /\ q.handles[h].fd = m.handles[h].fd
            /\ q.handles[h].fs_private = m.handles[h].fs_private
        BY <3>1
      <4>3. /\ q.handles[g].used = m.handles[g].used /\ q.handles[g].fd = m.handles[g].fd
            /\ q.handles[g].fs_private = m.handles[g].fs_private
        BY <3>1
      <4> QED
        BY <4>1, <4>2, <4>3 DEF Apart
    <3> QED
      BY <3>3
  <2> QED
    BY <1>6, <1>7, <2>1, <2>2, <2>3 DEF HandlesSound
<1>10. PositionsSound(m.files, q.handles)
  BY <1>2, <1>3, <1>6, <1>8 DEF PositionsSound
<1>11. LentSound(q.handles, m.mounts, m.registered_fs, q.file_handles, m.live, m.orphans)
  <2>1. ASSUME NEW n \in HandleSlot
        PROVE  /\ q.file_handles[n].used = m.file_handles[n].used
               /\ q.file_handles[n].mount = m.file_handles[n].mount
               /\ q.handles[n].used = m.handles[n].used
               /\ q.handles[n].fs_private = m.handles[n].fs_private
    BY <1>3, <1>4, <1>6, <1>7
  <2>2. ASSUME NEW n \in HandleSlot \ m.orphans
        PROVE  Lent(n, q.handles, m.mounts, m.registered_fs, q.file_handles, m.live)
    <3>1. Lent(n, m.handles, m.mounts, m.registered_fs, m.file_handles, m.live)
      BY <1>2 DEF LentSound
    <3> QED
      BY <2>1, <3>1 DEF Lent
  <2> QED
    BY <1>2, <2>1, <2>2 DEF LentSound
<1> QED
  BY <1>1, <1>2, <1>9, <1>10, <1>11 DEF Sound

LEMMA MountedTransferSound ==
  ASSUME NEW m, Sound(m), NEW i \in HandleSlot, m.handles[i].used,
         NEW can, NEW count \in Nat, NEW result \in Int
  PROVE  Sound(MountedTransfer(m, i, can, count, result))
<1> DEFINE h == m.handles[i]
           k == m.handles[i].fs_private
           n == Transfer(h.position, count, FileLen, result)
           g == Greater(n, 0)
           t == MountedTransfer(m, i, can, count, result)
           gs == [m.handles EXCEPT ![i].position = @ + g]
           Ghs(p) == [m.file_handles EXCEPT ![k].position = p]
           Q(p) == [m EXCEPT !.handles = gs, !.file_handles = Ghs(p), !.rc = n]
           R == [m EXCEPT !.file_handles = Ghs(h.position)]
<1>1. \/ \E rc : t = Return(m, rc)
      \/ k # 0 /\ (t = Return(R, EIO) \/ t = Q(h.position + g))
  BY Zenon DEF MountedTransfer, With
<1>2. /\ IsMachine(m) /\ m.handles \in [HandleSlot -> HandleSet]
      /\ m.file_handles \in [HandleSlot -> FileHandleSet]
  BY SoundParts, Zenon
<1>3. h \in HandleSet /\ h.position \in Nat
  BY <1>2, HandleFields
<1>4. g \in Nat
  BY <1>3, TransferFits, Bounds, ZenonT(40)
<1> HIDE DEF n, g, t
<1>5. CASE k # 0
  <2>1. k \in HandleSlot
    <3>1. HandlesSound(m.files, m.handles, m.file_handles)
      BY SoundParts, Zenon
    <3> QED
      BY <1>5, <3>1, MountedHandle, Zenon DEF HandlesSound, Kind
  <2>2. ASSUME NEW p \in Nat, NEW ghs, ghs = Ghs(p)
        PROVE  Put(ghs, m.file_handles, k, At(m.file_handles[k], p))
    BY <2>2 DEF Put, At
  <2>3. Put(gs, m.handles, i, At(m.handles[i], h.position + g))
    BY DEF Put, At
  <2>4. h.position + g \in Nat
    BY <1>3, <1>4
  <2>5. ASSUME NEW hs, Put(hs, m.handles, i, At(m.handles[i], h.position + g)),
               NEW ghs, Put(ghs, m.file_handles, k, At(m.file_handles[k], h.position + g)),
               NEW q, q = [m EXCEPT !.handles = hs, !.file_handles = ghs, !.rc = n]
        PROVE  Sound(q)
    <3>1. Changes(m, q, {"handles", "file_handles", "rc"}) /\ q.handles = hs /\ q.file_handles = ghs
      BY <1>2, <2>5, Zenon DEF Changes, IsMachine, Fields
    <3>2. /\ Put(q.handles, m.handles, i, At(m.handles[i], h.position + g))
          /\ Put(q.file_handles, m.file_handles, k, At(m.file_handles[k], h.position + g))
      BY <2>5, <3>1
    <3> QED
      BY <2>1, <2>4, <3>1, <3>2, MoveMounted, Zenon
  <2>6. ASSUME NEW ghs, Put(ghs, m.file_handles, k, At(m.file_handles[k], h.position)),
               NEW q, q = [m EXCEPT !.file_handles = ghs]
        PROVE  Sound(q)
    <3>1. Changes(m, q, {"handles", "file_handles", "rc"}) /\ q.handles = m.handles /\ q.file_handles = ghs
      BY <1>2, <2>6 DEF Changes, IsMachine, Fields
    <3>2. Put(m.handles, m.handles, i, At(m.handles[i], h.position))
      BY <1>2 DEF Put, At, HandleSet
    <3>3. /\ Put(q.handles, m.handles, i, At(m.handles[i], h.position))
          /\ Put(q.file_handles, m.file_handles, k, At(m.file_handles[k], h.position))
      BY <2>6, <3>1, <3>2
    <3> QED
      BY <1>3, <2>1, <3>1, <3>3, MoveMounted, Zenon
  <2>7. Sound(Q(h.position + g)) /\ Sound(R)
    BY <1>3, <2>2, <2>3, <2>4, <2>5, <2>6, Zenon
  <2> HIDE DEF Q, R
  <2> QED
    BY <1>1, <2>7, ReturnSound DEF t
<1>6. CASE k = 0
  BY <1>1, <1>6, ReturnSound DEF t
<1> QED
  BY <1>5, <1>6

\* A descriptor of an entry of the table moves.
LEMMA MoveHandle ==
  ASSUME NEW m, Sound(m), NEW i \in HandleSlot, m.handles[i].used, m.handles[i].file # 0,
         NEW p \in Nat, Fits(m.files[m.handles[i].file], p), NEW q, Changes(m, q, {"handles", "rc"}),
         Put(q.handles, m.handles, i, At(m.handles[i], p))
  PROVE  Sound(q)
<1> DEFINE x == At(m.handles[i], p)
<1>1. /\ HandlesSound(m.files, m.handles, m.file_handles) /\ m.handles \in [HandleSlot -> HandleSet]
      /\ m.next_fd \in Nat
  BY SoundParts, Zenon
<1>2. /\ x \in HandleSet /\ x.used = m.handles[i].used /\ x.fd = m.handles[i].fd
      /\ x.file = m.handles[i].file /\ x.fs_private = m.handles[i].fs_private
      /\ x.mount = m.handles[i].mount /\ x.position = p
  BY <1>1, MovedFields, Zenon
<1>3. Put(q.handles, m.handles, i, x)
  OBVIOUS
<1> HIDE DEF x
<1>4. Kind(m.files, x, m.file_handles)
  BY <1>1, <1>2, Zenon DEF HandlesSound, Kind
<1>5. \A j \in HandleSlot \ {i} : Apart(x, m.handles[j])
  BY <1>1, <1>2, Zenon DEF HandlesSound, Apart
<1>6. Changes(m, q, {"handles", "next_fd", "rc"}) /\ q.next_fd \in Nat
  BY <1>1 DEF Changes, Fields
<1>7. Fits(m.files[x.file], x.position) /\ x.used /\ x.fs_private = m.handles[i].fs_private
  BY <1>2
<1> QED
  BY <1>2, <1>3, <1>4, <1>5, <1>6, <1>7, HandleUpdate, Zenon

\* The update of one descriptor's position in the record of the tables.
LEMMA MoveHandleUpdate ==
  ASSUME NEW m, Sound(m), NEW i \in HandleSlot, m.handles[i].used, m.handles[i].file # 0,
         NEW p \in Nat, Fits(m.files[m.handles[i].file], p), NEW rc
  PROVE  Sound([m EXCEPT !.handles[i].position = p, !.rc = rc])
<1> DEFINE gs == [m.handles EXCEPT ![i].position = p]
           q == [m EXCEPT !.handles = gs, !.rc = rc]
<1>1. [m EXCEPT !.handles[i].position = p, !.rc = rc] = q
  OBVIOUS
<1>2. Put(gs, m.handles, i, At(m.handles[i], p))
  BY DEF Put, At
<1>3. IsMachine(m)
  BY SoundParts, Zenon
<1> HIDE DEF gs
<1>4. Changes(m, q, {"handles", "rc"}) /\ q.handles = gs
  BY <1>3, Zenon DEF Changes, IsMachine, Fields
<1> HIDE DEF q
<1>5. Sound(q)
  BY <1>2, <1>4, MoveHandle
<1> QED
  BY <1>1, <1>5 DEF q

\* The entry of a descriptor of the table.
LEMMA EntryOfHandle ==
  ASSUME NEW m, Sound(m), NEW i \in HandleSlot, m.handles[i].used, m.handles[i].file # 0
  PROVE  LET f == m.files[m.handles[i].file]
         IN  /\ m.handles[i].file \in FileSlot /\ f \in FileSet /\ f.used
             /\ f.size \in Nat /\ f.size <= MAX_FILE_SIZE
             /\ f.type = "dir" \/ (f.type = "device" /\ f.name \in Devices)
             /\ m.handles[i] \in HandleSet /\ m.handles[i].position \in Nat
             /\ Fits(f, m.handles[i].position)
<1> DEFINE f == m.files[m.handles[i].file]
<1>1. /\ FilesSound(m.files) /\ HandlesSound(m.files, m.handles, m.file_handles)
      /\ PositionsSound(m.files, m.handles) /\ m.handles \in [HandleSlot -> HandleSet]
  BY SoundParts, Zenon
<1>2. /\ m.handles[i] \in HandleSet /\ m.handles[i].file \in FileSlot /\ m.handles[i].position \in Nat
  BY <1>1, HandleFields
<1>3. f.used
  BY <1>1, Zenon DEF HandlesSound, Kind
<1>4. /\ f \in FileSet /\ (f.type = "dir" \/ (f.type = "device" /\ f.name \in Devices))
  BY <1>1, <1>2, <1>3 DEF FilesSound
<1>5. Fits(f, m.handles[i].position)
  BY <1>1 DEF PositionsSound
<1> HIDE DEF f
<1>6. f.size \in Nat /\ f.size <= MAX_FILE_SIZE
  BY <1>4, Bounds DEF FileSet
<1> QED
  BY <1>2, <1>3, <1>4, <1>5, <1>6, Zenon DEF f

LEMMA ReadSound ==
  ASSUME NEW m, Sound(m), NEW fd, NEW count \in Nat, NEW result \in Int
  PROVE  Sound(vfs_readfd(m, fd, count, result))
<1> DEFINE i == get_handle(m, fd)
           h == m.handles[i]
           f == m.files[h.file]
           n == IF f.type = "device" /\ "read" \in DevOps[f.name]
                THEN Transfer(h.position, count, DevLen[f.name], result)
                ELSE Transfer(h.position, count, f.size, count)
           p == h.position + Greater(n, 0)
<1>1. \/ \E rc : vfs_readfd(m, fd, count, result) = Return(m, rc)
      \/ /\ i # 0
         /\ vfs_readfd(m, fd, count, result) = MountedTransfer(m, i, TRUE, count, result)
      \/ /\ i # 0 /\ h.file # 0
         /\ vfs_readfd(m, fd, count, result) = [m EXCEPT !.handles[i].position = p, !.rc = n]
  BY Zenon DEF vfs_readfd, With
<1>2. i # 0 => i \in HandleSlot /\ h.used
  BY HandleOfFd, Zenon
<1> HIDE DEF i
<1>3. ASSUME i # 0, h.file # 0 PROVE p \in Nat /\ Fits(f, p)
  <2>1. /\ f.size \in Nat /\ f.size <= MAX_FILE_SIZE /\ h.position \in Nat /\ Fits(f, h.position)
        /\ f.type = "dir" \/ (f.type = "device" /\ f.name \in Devices)
    BY <1>2, <1>3, EntryOfHandle, Zenon
  <2> HIDE DEF h, f
  <2>2. CASE f.type = "device" /\ "read" \in DevOps[f.name]
    <3>1. f.name \in Devices /\ f.name \in DOMAIN DevOps
      BY <2>1, <2>2 DEF Devices
    <3>2. /\ DevLen[f.name] \in Nat
          /\ "write" \notin DevOps[f.name] => DevLen[f.name] <= MAX_FILE_SIZE
      BY <3>1, VfsAssumption, ProcfsAssumption, Zenon
    <3>3. n = Transfer(h.position, count, DevLen[f.name], result)
      BY <2>2
    <3> DEFINE len == DevLen[f.name]
    <3> HIDE DEF n, len
    <3>4. /\ Greater(n, 0) \in Nat
          /\ \A b \in Nat : len <= b /\ h.position <= b => p <= b
      BY <2>1, <3>2, <3>3, TransferFits, Zenon DEF len
    <3>5. "write" \notin DevOps[f.name] => h.position <= MAX_FILE_SIZE
      BY <2>1, <2>2 DEF Fits
    <3>6. "write" \notin DevOps[f.name] => p <= MAX_FILE_SIZE
      BY <3>2, <3>4, <3>5, Bounds DEF len
    <3> QED
      BY <2>1, <2>2, <3>4, <3>6 DEF Fits
  <2>3. CASE ~(f.type = "device" /\ "read" \in DevOps[f.name])
    <3>1. n = Transfer(h.position, count, f.size, count) /\ count \in Int
      BY <2>3
    <3> HIDE DEF n
    <3>2. /\ Greater(n, 0) \in Nat
          /\ \A b \in Nat : f.size <= b /\ h.position <= b => p <= b
      BY <2>1, <3>1, TransferFits, Zenon
    <3> QED
      BY <2>1, <3>2, Bounds DEF Fits
  <2> QED
    BY <2>2, <2>3
<1>4. CASE i = 0
  BY <1>1, <1>4, ReturnSound
<1>5. CASE i # 0
  <2> USE Zenon
  <2>1. Sound(MountedTransfer(m, i, TRUE, count, result))
    BY <1>2, <1>5, MountedTransferSound
  <2>2. h.file # 0 => Sound([m EXCEPT !.handles[i].position = p, !.rc = n])
    <3> HIDE DEF p, n
    <3> QED
      BY <1>2, <1>3, <1>5, MoveHandleUpdate
  <2> QED
    BY <1>1, <2>1, <2>2, ReturnSound
<1> QED
  BY <1>4, <1>5

LEMMA SeekSound ==
  ASSUME NEW m, Sound(m), NEW fd, NEW offset \in Int, NEW whence \in {"set", "cur", "end"}
  PROVE  Sound(vfs_seek(m, fd, offset, whence))
<1> DEFINE i == get_handle(m, fd)
           h == m.handles[i]
           f == m.files[h.file]
           pos == CASE whence = "set" -> offset
                    [] whence = "cur" -> h.position + offset
                    [] whence = "end" -> f.size + offset
           new == Lesser(Greater(pos, 0), f.size)
<1>1. \/ \E rc : vfs_seek(m, fd, offset, whence) = Return(m, rc)
      \/ /\ i # 0 /\ h.file # 0
         /\ vfs_seek(m, fd, offset, whence) = [m EXCEPT !.handles[i].position = new, !.rc = new]
  BY Zenon DEF vfs_seek, With
<1>2. i # 0 => i \in HandleSlot /\ h.used
  BY HandleOfFd, Zenon
<1> HIDE DEF i
<1>3. ASSUME i # 0, h.file # 0 PROVE new \in Nat /\ Fits(f, new)
  <2>1. f.size \in Nat /\ f.size <= MAX_FILE_SIZE /\ h.position \in Nat
    BY <1>2, <1>3, EntryOfHandle, Zenon
  <2> HIDE DEF h, f
  <2>2. pos \in Int
    BY <2>1
  <2> HIDE DEF pos
  <2>3. new \in Nat /\ new <= f.size
    BY <2>1, <2>2 DEF Lesser, Greater
  <2> HIDE DEF new
  <2> QED
    BY <2>1, <2>3, Bounds DEF Fits
<1> HIDE DEF new
<1>4. i # 0 /\ h.file # 0 => Sound([m EXCEPT !.handles[i].position = new, !.rc = new])
  BY <1>2, <1>3, MoveHandleUpdate, Zenon
<1> QED
  BY <1>1, <1>4, ReturnSound, Zenon

\* An entry of the table grows.
LEMMA GrowFile ==
  ASSUME NEW m, Sound(m), NEW f \in FileSlot, NEW z \in FileSet, z.used = m.files[f].used,
         z.name = m.files[f].name, z.type = m.files[f].type, m.files[f].size <= z.size,
         NEW r, Changes(m, r, {"files"}), Put(r.files, m.files, f, z)
  PROVE  Sound(r)
<1>1. /\ r.handles = m.handles /\ r.registered_fs = m.registered_fs /\ r.mounts = m.mounts
      /\ r.file_handles = m.file_handles /\ r.live = m.live /\ r.orphans = m.orphans
      /\ r.next_fd = m.next_fd /\ IsMachine(r)
  BY DEF Changes, Fields
<1>2. /\ FilesSound(m.files) /\ HandlesSound(m.files, m.handles, m.file_handles)
      /\ PositionsSound(m.files, m.handles) /\ MountsSound(m.mounts, m.registered_fs)
      /\ LentSound(m.handles, m.mounts, m.registered_fs, m.file_handles, m.live, m.orphans)
      /\ m.next_fd \in Nat /\ m.handles \in [HandleSlot -> HandleSet]
      /\ m.files \in [FileSlot -> FileSet]
  BY SoundParts, Zenon
<1>3. /\ r.files \in [FileSlot -> FileSet] /\ r.files[f] = z
      /\ \A k \in FileSlot \ {f} : r.files[k] = m.files[k]
  BY <1>2 DEF Put
<1>4. \A k \in FileSlot : /\ r.files[k].used = m.files[k].used /\ r.files[k].name = m.files[k].name
                          /\ r.files[k].type = m.files[k].type
  BY <1>3
<1>5. FilesSound(r.files)
  <2> USE Zenon
  <2>1. \A k \in FileSlot : r.files[k].used =>
          r.files[k].type = "dir" \/ (r.files[k].type = "device" /\ r.files[k].name \in Devices)
    BY <1>2, <1>4 DEF FilesSound
  <2>2. ASSUME NEW k \in FileSlot, NEW j \in FileSlot, k # j, r.files[k].used, r.files[j].used
        PROVE  r.files[k].name # r.files[j].name
    <3>1. m.files[k].used /\ m.files[j].used => m.files[k].name # m.files[j].name
      BY <1>2, <2>2 DEF FilesSound
    <3> QED
      BY <1>4, <2>2, <3>1
  <2> QED
    BY <1>3, <2>1, <2>2 DEF FilesSound
<1>6. \A h \in HandleSlot : m.handles[h].file # 0 => m.handles[h].file \in FileSlot
  BY <1>2, HandleFields, Zenon
<1>7. HandlesSound(r.files, m.handles, m.file_handles)
  <2> USE Zenon
  <2>1. ASSUME NEW h \in HandleSlot PROVE Kind(r.files, m.handles[h], m.file_handles)
    <3>1. Kind(m.files, m.handles[h], m.file_handles)
      BY <1>2 DEF HandlesSound
    <3> QED
      BY <1>4, <1>6, <3>1 DEF Kind
  <2> QED
    BY <1>2, <2>1 DEF HandlesSound
<1>8. PositionsSound(r.files, m.handles)
  <2> SUFFICES ASSUME NEW h \in HandleSlot, m.handles[h].used, m.handles[h].file # 0
               PROVE  Fits(r.files[m.handles[h].file], m.handles[h].position)
    BY DEF PositionsSound
  <2>1. /\ Fits(m.files[m.handles[h].file], m.handles[h].position)
        /\ m.handles[h].file \in FileSlot /\ m.handles[h].position \in Nat
    BY <1>2, HandleFields, Zenon DEF PositionsSound
  <2>2. CASE m.handles[h].file # f
    BY <1>3, <2>1, <2>2, Zenon
  <2>3. CASE m.handles[h].file = f
    <3>0. m.files[f] \in FileSet
      BY <1>2, Zenon
    <3>1. m.files[f].size \in Nat /\ z.size \in Nat
      BY <3>0, Bounds, SMTT(40) DEF FileSet
    <3> QED
      BY <1>3, <2>1, <2>3, <3>1 DEF Fits
  <2> QED
    BY <2>2, <2>3
<1> QED
  BY <1>1, <1>2, <1>5, <1>7, <1>8, Zenon DEF Sound

LEMMA WriteDataSound ==
  ASSUME NEW m, Sound(m), NEW i \in HandleSlot, m.handles[i].used, m.handles[i].file # 0,
         NEW count \in Counts,
         LET f == m.files[m.handles[i].file]
         IN  ~(f.type = "device" /\ "write" \in DevOps[f.name])
  PROVE  Sound(WriteData(m, i, count))
<1> USE Zenon
<1> DEFINE h == m.handles[i]
           e == m.handles[i].file
           f == m.files[e]
           n == IF Sum(h.position, count) > MAX_FILE_SIZE THEN MAX_FILE_SIZE - h.position ELSE count
           p == h.position + n
           s == Greater(f.size, p)
           z == [f EXCEPT !.size = s]
           fs == [m.files EXCEPT ![e] = z]
           r == [m EXCEPT !.files = fs]
           q == [r EXCEPT !.handles[i].position = p, !.rc = n]
<1>0. ~(f.type = "device" /\ "write" \in DevOps[f.name])
  OBVIOUS
<1>1. /\ e \in FileSlot /\ f \in FileSet /\ f.size \in Nat /\ f.size <= MAX_FILE_SIZE
      /\ f.type = "dir" \/ (f.type = "device" /\ f.name \in Devices)
      /\ h.position \in Nat /\ Fits(f, h.position)
  BY EntryOfHandle
<1>2. IsMachine(m) /\ m.files \in [FileSlot -> FileSet]
  BY SoundParts
<1>3. WriteData(m, i, count) = Return(m, ENOSPC) \/ WriteData(m, i, count) = q
  <2>1. WriteData(m, i, count) = Return(m, ENOSPC) \/ WriteData(m, i, count)
          = [m EXCEPT !.handles[i].position = @ + n, !.files[e].size = Greater(@, p), !.rc = n]
    BY DEF WriteData, With
  <2>2. [m EXCEPT !.handles[i].position = @ + n, !.files[e].size = Greater(@, p), !.rc = n] = q
    <3> HIDE DEF n
    <3> QED
      BY <1>2 DEF IsMachine, Fields
  <2> QED
    BY <2>1, <2>2
<1>4. h.position <= MAX_FILE_SIZE
  <2> HIDE DEF h, f
  <2> QED
    BY <1>0, <1>1, Bounds, SMT DEF Fits
<1>5. n \in Nat /\ p \in Nat /\ p <= MAX_FILE_SIZE
  <2>1. count \in Nat /\ SIZE_MAX \in Nat /\ MAX_FILE_SIZE + count <= SIZE_MAX
    BY CountsFit
  <2>2. \A a \in Nat : a <= MAX_FILE_SIZE =>
          LET b == IF Sum(a, count) > MAX_FILE_SIZE THEN MAX_FILE_SIZE - a ELSE count
          IN  b \in Nat /\ a + b \in Nat /\ a + b <= MAX_FILE_SIZE
    BY <2>1, Bounds, SMT DEF Sum
  <2> QED
    BY <1>1, <1>4, <2>2
<1> HIDE DEF n, p
<1>6. s \in 0 .. MAX_FILE_SIZE /\ f.size <= s /\ p <= s
  <2> HIDE DEF f
  <2> QED
    BY <1>1, <1>5, Bounds, SMT DEF Greater
<1> HIDE DEF s
<1>7. /\ z \in FileSet /\ z.used = f.used /\ z.name = f.name /\ z.type = f.type /\ z.size = s
  <2> HIDE DEF f
  <2> QED
    BY <1>1, <1>6, SMT DEF FileSet
<1> HIDE DEF z
<1>8. Put(fs, m.files, e, z) /\ fs[e] = z
  BY <1>1, <1>2 DEF Put
<1> HIDE DEF fs
<1>9. Changes(m, r, {"files"}) /\ r.files = fs /\ r.handles = m.handles
  BY <1>2, SMT DEF Changes, IsMachine, Fields
<1> HIDE DEF r
<1>10. Sound(r)
  BY <1>1, <1>6, <1>7, <1>8, <1>9, GrowFile
<1>11. Fits(z, p)
  BY <1>5, <1>6, <1>7 DEF Fits
<1>12. Sound(q)
  BY <1>5, <1>8, <1>9, <1>10, <1>11, MoveHandleUpdate
<1> QED
  BY <1>3, <1>12, ReturnSound, SMT

LEMMA WriteSound ==
  ASSUME NEW m, Sound(m), NEW fd, NEW count \in Counts, NEW result \in Int
  PROVE  Sound(vfs_writefd(m, fd, count, result))
<1> DEFINE i == get_handle(m, fd)
           f == m.files[m.handles[i].file]
<1>1. \/ \E rc : vfs_writefd(m, fd, count, result) = Return(m, rc)
      \/ /\ i # 0
         /\ \E can : vfs_writefd(m, fd, count, result) = MountedTransfer(m, i, can, count, result)
      \/ /\ i # 0 /\ m.handles[i].file # 0 /\ ~(f.type = "device" /\ "write" \in DevOps[f.name])
         /\ vfs_writefd(m, fd, count, result) = WriteData(m, i, count)
  BY Zenon DEF vfs_writefd, With
<1>2. i # 0 => i \in HandleSlot /\ m.handles[i].used
  BY HandleOfFd, Zenon
<1> HIDE DEF i
<1>3. CASE \E rc : vfs_writefd(m, fd, count, result) = Return(m, rc)
  BY <1>3, ReturnSound
<1>4. CASE /\ i # 0
           /\ \E can : vfs_writefd(m, fd, count, result) = MountedTransfer(m, i, can, count, result)
  BY <1>2, <1>4, CountsFit, MountedTransferSound
<1>5. CASE /\ i # 0 /\ m.handles[i].file # 0 /\ ~(f.type = "device" /\ "write" \in DevOps[f.name])
           /\ vfs_writefd(m, fd, count, result) = WriteData(m, i, count)
  BY <1>2, <1>5, WriteDataSound, Zenon
<1> QED
  BY <1>1, <1>3, <1>4, <1>5, Zenon

-----------------------------------------------------------------------------
(* Whole files, and the removal of entries.                                *)

LEMMA CreateSound ==
  ASSUME NEW m, Sound(m), NEW path, NEW size \in Counts, NEW memory, NEW result \in Int
  PROVE  Sound(vfs_create(m, path, size, memory, result))
<1> DEFINE o == vfs_open(m, path, {"w", "c", "t"}, memory)
           w == vfs_writefd(o, o.rc, size, result)
           c == vfs_close(w, o.rc)
<1>1. Sound(o)
  BY OpenSound
<1> HIDE DEF o
<1>2. Sound(w)
  BY <1>1, WriteSound
<1> HIDE DEF w
<1>3. Sound(c)
  BY <1>2, CloseSound
<1> HIDE DEF c
<1>4. \E rc : vfs_create(m, path, size, memory, result) \in {Return(o, rc), Return(c, rc)}
  BY DEF vfs_create, With, o, w, c
<1> QED
  BY <1>1, <1>3, <1>4, ReturnSound

LEMMA ReadFileSound ==
  ASSUME NEW m, Sound(m), NEW path, NEW memory, NEW result \in Int
  PROVE  Sound(vfs_read(m, path, memory, result))
<1> DEFINE o == vfs_open(m, path, {"r"}, memory)
           r == vfs_readfd(o, o.rc, MAX_FILE_SIZE - 1, result)
           c == vfs_close(r, o.rc)
<1>1. Sound(o)
  BY OpenSound
<1> HIDE DEF o
<1>2. MAX_FILE_SIZE - 1 \in Nat
  BY Bounds
<1>3. Sound(r)
  BY <1>1, <1>2, ReadSound
<1> HIDE DEF r
<1>4. Sound(c)
  BY <1>3, CloseSound
<1> HIDE DEF c
<1>5. vfs_read(m, path, memory, result) \in {o, Return(c, r.rc)}
  BY DEF vfs_read, Try, With, o, r, c
<1> QED
  BY <1>1, <1>4, <1>5, ReturnSound

\* A descriptor whose entry is removed under it has no file handle, and is closed.
LEMMA RemoveSound ==
  ASSUME NEW m, Sound(m), NEW gone \in SUBSET FileSlot
  PROVE  Sound(RemoveFiles(m, gone))
<1> DEFINE fs == [i \in FileSlot |-> IF i \in gone THEN NoFile ELSE m.files[i]]
           x(i) == [NoHandle EXCEPT !.fs_private = m.handles[i].fs_private, !.mount = m.handles[i].mount]
           hs == [i \in HandleSlot |->
                    IF m.handles[i].used /\ m.handles[i].file \in gone THEN x(i) ELSE m.handles[i]]
           r == [m EXCEPT !.files = fs, !.handles = hs]
<1>1. RemoveFiles(m, gone) = r
  BY DEF RemoveFiles
<1>2. /\ FilesSound(m.files) /\ HandlesSound(m.files, m.handles, m.file_handles)
      /\ PositionsSound(m.files, m.handles) /\ MountsSound(m.mounts, m.registered_fs)
      /\ LentSound(m.handles, m.mounts, m.registered_fs, m.file_handles, m.live, m.orphans)
      /\ m.next_fd \in Nat /\ m.handles \in [HandleSlot -> HandleSet]
      /\ m.file_handles \in [HandleSlot -> FileHandleSet]
      /\ m.files \in [FileSlot -> FileSet] /\ IsMachine(m)
  BY SoundParts, Zenon
<1>3. NoFile \in FileSet /\ ~NoFile.used
  <2>1. 0 \in 0 .. MAX_FILE_SIZE /\ <<>> \in Names
    BY Bounds DEF Names
  <2> QED
    BY <2>1 DEF NoFile, FileSet
<1>4. /\ fs \in [FileSlot -> FileSet]
      /\ \A k \in FileSlot : /\ k \in gone => fs[k] = NoFile
                             /\ k \notin gone => fs[k] = m.files[k]
  BY <1>2, <1>3
<1>5. ASSUME NEW i \in HandleSlot
      PROVE  \/ hs[i] = NoHandle /\ m.handles[i].fs_private = 0
             \/ /\ hs[i] = m.handles[i]
                /\ m.handles[i].file # 0 => m.handles[i].file \in FileSlot \ gone
  <2>1. m.handles[i].used => hs[i] = IF m.handles[i].file \in gone THEN x(i) ELSE m.handles[i]
    OBVIOUS
  <2>2. ~m.handles[i].used => hs[i] = m.handles[i] /\ m.handles[i].file = 0
    BY <1>2, FreeSlot
  <2>3. m.handles[i].file # 0 => m.handles[i].file \in FileSlot
    BY <1>2, HandleFields
  <2>4. ASSUME m.handles[i].used, m.handles[i].file \in gone
        PROVE  m.handles[i].fs_private = 0 /\ m.handles[i].mount = 0
    <3>1. m.handles[i].file # 0
      BY <2>4, Bounds DEF FileSlot
    <3> QED
      BY <1>2, <3>1, Zenon DEF HandlesSound, Kind
  <2>5. ASSUME m.handles[i].used, m.handles[i].file \in gone PROVE x(i) = NoHandle
    BY <2>4, <2>5, NoHandleFields, Zenon DEF HandleSet
  <2> QED
    BY <2>1, <2>2, <2>3, <2>4, <2>5
<1>6. hs \in [HandleSlot -> HandleSet]
  BY <1>2, <1>5, NoHandleFields, Zenon
<1> HIDE DEF fs, hs
<1>7. /\ IsMachine(r) /\ r.files = fs /\ r.handles = hs /\ r.next_fd = m.next_fd
      /\ r.registered_fs = m.registered_fs /\ r.mounts = m.mounts
      /\ r.file_handles = m.file_handles /\ r.live = m.live /\ r.orphans = m.orphans
  BY <1>2, Zenon DEF IsMachine, Fields
<1>8. FilesSound(fs)
  BY <1>2, <1>3, <1>4, ZenonT(40) DEF FilesSound
<1>9. HandlesSound(fs, hs, m.file_handles)
  <2>1. ASSUME NEW i \in HandleSlot PROVE Kind(fs, hs[i], m.file_handles)
    <3>1. Kind(m.files, m.handles[i], m.file_handles)
      BY <1>2 DEF HandlesSound
    <3>2. CASE hs[i] = NoHandle
      BY <3>2, NoHandleFields DEF Kind
    <3>3. CASE hs[i] = m.handles[i] /\ (m.handles[i].file # 0 => m.handles[i].file \in FileSlot \ gone)
      BY <1>4, <3>1, <3>3, Zenon DEF Kind
    <3> QED
      BY <1>5, <3>2, <3>3
  <2>2. ASSUME NEW i \in HandleSlot, NEW j \in HandleSlot, i # j PROVE Apart(hs[i], hs[j])
    <3>1. Apart(m.handles[i], m.handles[j])
      BY <1>2, <2>2 DEF HandlesSound
    <3>2. (hs[i] = NoHandle \/ hs[i] = m.handles[i]) /\ (hs[j] = NoHandle \/ hs[j] = m.handles[j])
      BY <1>5
    <3> QED
      BY <3>1, <3>2, NoHandleFields DEF Apart
  <2> QED
    BY <1>2, <1>6, <2>1, <2>2, Zenon DEF HandlesSound
<1>10. PositionsSound(fs, hs)
  <2> USE Zenon
  <2> SUFFICES ASSUME NEW i \in HandleSlot, hs[i].used, hs[i].file # 0
               PROVE  Fits(fs[hs[i].file], hs[i].position)
    BY DEF PositionsSound
  <2>1. hs[i] = m.handles[i] /\ m.handles[i].file \in FileSlot \ gone
    <3>1. hs[i] # NoHandle
      BY NoHandleFields
    <3> QED
      BY <1>5, <3>1
  <2>2. fs[hs[i].file] = m.files[m.handles[i].file]
    BY <1>4, <2>1
  <2>3. Fits(m.files[m.handles[i].file], m.handles[i].position)
    BY <1>2, <2>1 DEF PositionsSound
  <2> QED
    BY <2>1, <2>2, <2>3
<1>11. LentSound(hs, m.mounts, m.registered_fs, m.file_handles, m.live, m.orphans)
  <2>1. ASSUME NEW n \in HandleSlot \ m.orphans
        PROVE  Lent(n, hs, m.mounts, m.registered_fs, m.file_handles, m.live)
    <3>1. Lent(n, m.handles, m.mounts, m.registered_fs, m.file_handles, m.live)
      BY <1>2 DEF LentSound
    <3>2. n # 0
      BY SlotsPositive, Zenon
    <3>3. \A h \in HandleSlot : m.handles[h].used /\ m.handles[h].fs_private = n =>
            hs[h].used /\ hs[h].fs_private = n
      BY <1>5, <3>2
    <3> QED
      BY <3>1, <3>3, Zenon DEF Lent
  <2> QED
    BY <1>2, <2>1, Zenon DEF LentSound
<1> HIDE DEF r
<1> QED
  BY <1>1, <1>2, <1>7, <1>8, <1>9, <1>10, <1>11, Zenon DEF Sound

\* A call that only changes what the drivers have.
LEMMA EntriesSound ==
  ASSUME NEW m, Sound(m), NEW e, NEW rc, NEW r,
         r = [m EXCEPT !.entries = e] \/ r = [m EXCEPT !.entries = e, !.rc = rc]
  PROVE  Sound(r)
<1>1. IsMachine(m) /\ m.next_fd \in Nat
  BY SoundParts
<1>2. Changes(m, r, {"rc", "entries", "next_fd"}) /\ r.next_fd \in Nat
  BY <1>1, Zenon DEF Changes, IsMachine, Fields
<1> QED
  BY <1>2, SameTables, Zenon

LEMMA DeleteSound ==
  ASSUME NEW m, Sound(m), NEW path
  PROVE  Sound(vfs_delete(m, path))
<1> USE Zenon
<1>1. \/ \E rc : vfs_delete(m, path) = Return(m, rc)
      \/ \E e : vfs_delete(m, path) = [m EXCEPT !.entries = e, !.rc = 0]
      \/ /\ FileNamed(m, path) # 0
         /\ vfs_delete(m, path) = Return(RemoveFiles(m, {FileNamed(m, path)}), 0)
  BY DEF vfs_delete, With, driver_unlink
<1>2. FileNamed(m, path) # 0 => FileNamed(m, path) \in FileSlot
  BY NamedFile
<1>3. FileNamed(m, path) # 0 => Sound(RemoveFiles(m, {FileNamed(m, path)}))
  BY <1>2, RemoveSound, SMT
<1>4. ASSUME NEW e, vfs_delete(m, path) = [m EXCEPT !.entries = e, !.rc = 0]
      PROVE  Sound(vfs_delete(m, path))
  BY <1>4, EntriesSound
<1> QED
  BY <1>1, <1>3, <1>4, ReturnSound

LEMMA RmdirSound ==
  ASSUME NEW m, Sound(m), NEW path
  PROVE  Sound(vfs_rmdir(m, path))
<1> DEFINE gone == {i \in FileSlot : m.files[i].used /\ IsAbove(path, m.files[i].name)}
<1>1. \/ \E rc : vfs_rmdir(m, path) = Return(m, rc)
      \/ vfs_rmdir(m, path) = Return(RemoveFiles(m, gone), 0)
  BY Zenon DEF vfs_rmdir, With
<1>2. gone \in SUBSET FileSlot
  OBVIOUS
<1> HIDE DEF gone
<1> QED
  BY <1>1, <1>2, ReturnSound, RemoveSound

-----------------------------------------------------------------------------
(* Drivers and mounts.                                                     *)

\* A slot of registered_fs that no mount uses changes.
LEMMA SetDriver ==
  ASSUME NEW m, Sound(m), NEW i \in FsSlot, NEW d \in DriverNames,
         \A j \in MountSlot : m.mounts[j].mounted => m.mounts[j].fs # i,
         NEW rc, NEW r, r = [m EXCEPT !.registered_fs[i] = d, !.rc = rc]
  PROVE  Sound(r)
<1> DEFINE rf == [m.registered_fs EXCEPT ![i] = d]
<1>1. r = [m EXCEPT !.registered_fs = rf, !.rc = rc]
  OBVIOUS
<1>2. /\ FilesSound(m.files) /\ HandlesSound(m.files, m.handles, m.file_handles)
      /\ PositionsSound(m.files, m.handles) /\ MountsSound(m.mounts, m.registered_fs)
      /\ LentSound(m.handles, m.mounts, m.registered_fs, m.file_handles, m.live, m.orphans)
      /\ m.next_fd \in Nat /\ IsMachine(m) /\ m.registered_fs \in [FsSlot -> DriverNames]
      /\ m.file_handles \in [HandleSlot -> FileHandleSet]
  BY SoundParts, Zenon
<1>3. rf \in [FsSlot -> DriverNames] /\ \A k \in FsSlot \ {i} : rf[k] = m.registered_fs[k]
  BY <1>2
<1> HIDE DEF rf
<1>4. /\ IsMachine(r) /\ r.registered_fs = rf
      /\ r.files = m.files /\ r.handles = m.handles /\ r.next_fd = m.next_fd /\ r.mounts = m.mounts
      /\ r.file_handles = m.file_handles /\ r.live = m.live /\ r.orphans = m.orphans
  BY <1>1, <1>2, Zenon DEF IsMachine, Fields
<1>5. \A j \in MountSlot : m.mounts[j].mounted => rf[m.mounts[j].fs] = m.registered_fs[m.mounts[j].fs]
  BY <1>2, <1>3, MountFields, Zenon
<1>6. MountsSound(m.mounts, rf)
  BY <1>2, <1>3, <1>5, Zenon DEF MountsSound
<1>7. LentSound(m.handles, m.mounts, rf, m.file_handles, m.live, m.orphans)
  <2>1. ASSUME NEW n \in HandleSlot \ m.orphans
        PROVE  Lent(n, m.handles, m.mounts, rf, m.file_handles, m.live)
    <3>1. Lent(n, m.handles, m.mounts, m.registered_fs, m.file_handles, m.live)
      BY <1>2 DEF LentSound
    <3>2. m.file_handles[n].mount # 0 => m.file_handles[n].mount \in MountSlot
      BY <1>2, FileHandleFields
    <3> QED
      BY <1>5, <3>1, <3>2, Zenon DEF Lent
  <2> QED
    BY <1>2, <2>1 DEF LentSound
<1> QED
  BY <1>2, <1>4, <1>6, <1>7, Zenon DEF Sound

LEMMA RegisterSound ==
  ASSUME NEW m, Sound(m), NEW name \in DriverNames
  PROVE  Sound(vfs_register_filesystem(m, name))
<1> USE Zenon
<1> DEFINE S == {i \in FsSlot : m.registered_fs[i] = ""}
           i == First(S)
           r == [m EXCEPT !.registered_fs[i] = name, !.rc = 0]
<1>1. \/ \E rc : vfs_register_filesystem(m, name) = Return(m, rc)
      \/ i # 0 /\ vfs_register_filesystem(m, name) = r
  BY DEF vfs_register_filesystem, With
<1>2. i # 0 => i \in FsSlot /\ m.registered_fs[i] = ""
  <2>1. S \in SUBSET FsSlot
    OBVIOUS
  <2>2. i # 0 => i \in S
    BY <2>1, FirstOfSlots
  <2> QED
    BY <2>2
<1> HIDE DEF i
<1>3. ASSUME i # 0 PROVE \A j \in MountSlot : m.mounts[j].mounted => m.mounts[j].fs # i
  BY <1>2, <1>3, SoundParts, MountFields
<1>4. i # 0 => Sound(r)
  BY <1>2, <1>3, SetDriver
<1> QED
  BY <1>1, <1>4, ReturnSound

LEMMA UnregisterSound ==
  ASSUME NEW m, Sound(m), NEW name
  PROVE  Sound(vfs_unregister_filesystem(m, name))
<1> DEFINE i == vfs_find_filesystem(m, name)
           r == [m EXCEPT !.registered_fs[i] = "", !.rc = 0]
<1>1. \/ \E rc : vfs_unregister_filesystem(m, name) = Return(m, rc)
      \/ /\ i # 0 /\ vfs_unregister_filesystem(m, name) = r
         /\ \A j \in MountSlot : m.mounts[j].mounted => m.mounts[j].fs # i
  BY DEF vfs_unregister_filesystem, With
<1>2. i # 0 => i \in FsSlot
  BY DriverNamed, Zenon
<1>3. "" \in DriverNames
  BY DEF DriverNames
<1> HIDE DEF i
<1>4. ASSUME i # 0, \A j \in MountSlot : m.mounts[j].mounted => m.mounts[j].fs # i PROVE Sound(r)
  BY <1>2, <1>3, <1>4, SetDriver, Zenon
<1> QED
  BY <1>1, <1>4, ReturnSound, Zenon

\* A mount changes.  Only orphans may belong to it if it was mounted before.
LEMMA SetMount ==
  ASSUME NEW m, Sound(m), NEW j \in MountSlot, NEW x \in MountSet,
         x.mounted => /\ x.fs # 0 /\ m.registered_fs[x.fs] # ""
                      /\ \A k \in MountSlot : m.mounts[k].mounted => m.mounts[k].point # x.point,
         NEW r, Changes(m, r, {"mounts", "orphans", "rc"}), Put(r.mounts, m.mounts, j, x),
         r.orphans \subseteq HandleSlot, m.orphans \subseteq r.orphans,
         \A i \in r.orphans : m.file_handles[i].used,
         m.mounts[j].mounted =>
           \A i \in HandleSlot : m.file_handles[i].used /\ m.file_handles[i].mount = j => i \in r.orphans
  PROVE  Sound(r)
<1> USE Zenon
<1>1. /\ FilesSound(m.files) /\ HandlesSound(m.files, m.handles, m.file_handles)
      /\ PositionsSound(m.files, m.handles) /\ MountsSound(m.mounts, m.registered_fs)
      /\ LentSound(m.handles, m.mounts, m.registered_fs, m.file_handles, m.live, m.orphans)
      /\ m.next_fd \in Nat /\ m.mounts \in [MountSlot -> MountSet]
      /\ m.file_handles \in [HandleSlot -> FileHandleSet]
  BY SoundParts
<1>2. /\ IsMachine(r) /\ r.registered_fs = m.registered_fs /\ r.files = m.files
      /\ r.handles = m.handles /\ r.next_fd = m.next_fd
      /\ r.file_handles = m.file_handles /\ r.live = m.live
  BY DEF Changes, Fields
<1>3. /\ r.mounts \in [MountSlot -> MountSet] /\ r.mounts[j] = x
      /\ \A k \in MountSlot \ {j} : r.mounts[k] = m.mounts[k]
  BY <1>1 DEF Put
<1>4. MountsSound(r.mounts, m.registered_fs)
  <2>1. ASSUME NEW k \in MountSlot, r.mounts[k].mounted
        PROVE  r.mounts[k].fs # 0 /\ m.registered_fs[r.mounts[k].fs] # ""
    BY <1>1, <1>3, <2>1, ZenonT(40) DEF MountsSound
  <2>2. ASSUME NEW k \in MountSlot, NEW l \in MountSlot, k # l,
               r.mounts[k].mounted, r.mounts[l].mounted
        PROVE  r.mounts[k].point # r.mounts[l].point
    <3>1. CASE k # j /\ l # j
      <4>1. k \in MountSlot \ {j} /\ l \in MountSlot \ {j}
        BY <3>1
      <4>2. r.mounts[k] = m.mounts[k] /\ r.mounts[l] = m.mounts[l]
        BY <1>3, <4>1
      <4> QED
        BY <1>1, <2>2, <4>2 DEF MountsSound
    <3>2. CASE k = j
      BY <1>3, <2>2, <3>2
    <3>3. CASE l = j
      BY <1>3, <2>2, <3>3
    <3> QED
      BY <3>1, <3>2, <3>3
  <2> QED
    BY <1>1, <1>3, <2>1, <2>2 DEF MountsSound
<1>5. LentSound(m.handles, r.mounts, m.registered_fs, m.file_handles, m.live, r.orphans)
  <2>1. ASSUME NEW n \in HandleSlot \ r.orphans
        PROVE  Lent(n, m.handles, r.mounts, m.registered_fs, m.file_handles, m.live)
    <3>1. Lent(n, m.handles, m.mounts, m.registered_fs, m.file_handles, m.live)
      BY <1>1 DEF LentSound
    <3>2. m.file_handles[n].mount # 0 => m.file_handles[n].mount \in MountSlot
      BY <1>1, FileHandleFields
    <3>3. m.file_handles[n].used => m.file_handles[n].mount # j
      BY <3>1 DEF Lent
    <3> QED
      BY <1>3, <3>1, <3>2, <3>3 DEF Lent
  <2> QED
    BY <1>1, <2>1 DEF LentSound
<1> QED
  BY <1>1, <1>2, <1>4, <1>5 DEF Sound

LEMMA FsSlots == \A k \in FsSlot : k \in 0 .. MAX_REGISTERED_FS
BY Bounds DEF FsSlot

LEMMA MountSound ==
  ASSUME NEW m, Sound(m), NEW name \in DriverNames \ {""}, NEW path \in Names, NEW works \in BOOLEAN
  PROVE  Sound(vfs_mount_fs(m, name, path, works))
<1> USE Zenon
<1> DEFINE r == vfs_mkdir(m, path)
           j == FreeMount(r)
           x == [mounted |-> works, point |-> IF works THEN path ELSE <<>>,
                 fs |-> vfs_find_filesystem(r, name), ref_count |-> 0]
           rc == IF works THEN 0 ELSE EIO
           ms == [r.mounts EXCEPT ![j] = x]
           q == [r EXCEPT !.mounts = ms, !.rc = rc]
<1>1. Sound(r)
  BY MkdirSound
<1>2. \/ vfs_mount_fs(m, name, path, works) = r
      \/ \E e : vfs_mount_fs(m, name, path, works) = Return(r, e)
      \/ /\ vfs_find_filesystem(r, name) # 0 /\ MountAt(r, path) = 0 /\ j # 0
         /\ vfs_mount_fs(m, name, path, works) = q
  BY DEF vfs_mount_fs, Try
<1> HIDE DEF r
<1>3. ASSUME vfs_find_filesystem(r, name) # 0, MountAt(r, path) = 0, j # 0
      PROVE  Sound(q)
  <2>1. /\ vfs_find_filesystem(r, name) \in FsSlot
        /\ r.registered_fs[vfs_find_filesystem(r, name)] = name
    BY <1>3, DriverNamed
  <2>2. \A k \in MountSlot : r.mounts[k].mounted => r.mounts[k].point # path
    BY <1>3, MountedAt
  <2>3. j \in MountSlot /\ ~r.mounts[j].mounted
    BY <1>3, UnusedMount
  <2>4. <<>> \in Names
    BY DEF Names
  <2>5. x \in MountSet
    <3>1. vfs_find_filesystem(r, name) \in 0 .. MAX_REGISTERED_FS
      BY <2>1, FsSlots
    <3>2. (IF works THEN path ELSE <<>>) \in Names
      BY <2>4
    <3> QED
      BY <3>1, <3>2 DEF MountSet
  <2>6. x.mounted => /\ x.fs # 0 /\ r.registered_fs[x.fs] # ""
                     /\ \A k \in MountSlot : r.mounts[k].mounted => r.mounts[k].point # x.point
    BY <1>3, <2>1, <2>2
  <2> HIDE DEF x, j, rc
  <2>7. Put(ms, r.mounts, j, x)
    BY DEF Put
  <2> HIDE DEF ms
  <2>8. IsMachine(r) /\ LentSound(r.handles, r.mounts, r.registered_fs, r.file_handles, r.live, r.orphans)
    BY <1>1, SoundParts
  <2>9. Changes(r, q, {"mounts", "orphans", "rc"}) /\ q.mounts = ms /\ q.orphans = r.orphans
    BY <2>8 DEF Changes, IsMachine, Fields
  <2> HIDE DEF q
  <2>10. r.orphans \subseteq HandleSlot /\ \A i \in r.orphans : r.file_handles[i].used
    BY <2>8 DEF LentSound
  <2>11. q.orphans \subseteq HandleSlot /\ r.orphans \subseteq q.orphans
         /\ \A i \in q.orphans : r.file_handles[i].used
    BY <2>9, <2>10
  <2>12. Put(q.mounts, r.mounts, j, x)
    BY <2>7, <2>9
  <2> QED
    BY <1>1, <2>3, <2>5, <2>6, <2>9, <2>11, <2>12, SetMount
<1> QED
  BY <1>1, <1>2, <1>3, ReturnSound

LEMMA NoMountFields == NoMount \in MountSet /\ ~NoMount.mounted
<1>1. <<>> \in Names /\ 0 \in 0 .. MAX_REGISTERED_FS
  BY Bounds DEF Names
<1> QED
  BY <1>1 DEF NoMount, MountSet

LEMMA UmountSound ==
  ASSUME NEW m, Sound(m), NEW path, NEW works
  PROVE  Sound(vfs_umount(m, path, works))
<1> USE Zenon
<1> DEFINE j == MountAt(m, path)
           os == m.orphans \cup {i \in HandleSlot : m.file_handles[i].used /\ m.file_handles[i].mount = j}
           ms == [m.mounts EXCEPT ![j] = NoMount]
           q == [m EXCEPT !.mounts = ms, !.orphans = os, !.rc = 0]
<1>1. \/ \E e : vfs_umount(m, path, works) = Return(m, e)
      \/ j # 0 /\ vfs_umount(m, path, works) = q
  BY DEF vfs_umount, With
<1>2. ASSUME j # 0 PROVE Sound(q)
  <2>1. j \in MountSlot
    BY <1>2, MountedAt
  <2>2. IsMachine(m) /\ LentSound(m.handles, m.mounts, m.registered_fs, m.file_handles, m.live, m.orphans)
    BY SoundParts
  <2> HIDE DEF j
  <2>3. /\ os \subseteq HandleSlot /\ m.orphans \subseteq os /\ \A i \in os : m.file_handles[i].used
        /\ \A i \in HandleSlot : m.file_handles[i].used /\ m.file_handles[i].mount = j => i \in os
    BY <2>2 DEF LentSound
  <2>4. Put(ms, m.mounts, j, NoMount)
    BY SMT DEF Put
  <2> HIDE DEF ms, os
  <2>5. Changes(m, q, {"mounts", "orphans", "rc"}) /\ q.mounts = ms /\ q.orphans = os
    BY <2>2 DEF Changes, IsMachine, Fields
  <2> HIDE DEF q
  <2>6. /\ q.orphans \subseteq HandleSlot /\ m.orphans \subseteq q.orphans
        /\ \A i \in q.orphans : m.file_handles[i].used
        /\ \A i \in HandleSlot : m.file_handles[i].used /\ m.file_handles[i].mount = j => i \in q.orphans
    BY <2>3, <2>5
  <2>7. Put(q.mounts, m.mounts, j, NoMount)
    BY <2>4, <2>5, SMT
  <2> QED
    BY <2>1, <2>5, <2>6, <2>7, NoMountFields, SetMount
<1> QED
  BY <1>1, <1>2, ReturnSound, ZenonT(40)

-----------------------------------------------------------------------------
(* The shell's commands.                                                   *)

LEMMA ShellMountSound ==
  ASSUME NEW m, Sound(m), NEW name \in DriverNames \ {""}, NEW path \in Names, NEW works \in BOOLEAN
  PROVE  Sound(cmd_mount(m, name, path, works))
<1>1. Sound(vfs_mkdir(m, path))
  BY MkdirSound, Zenon
<1> QED
  BY <1>1, MountSound, Zenon DEF cmd_mount

LEMMA CatSound ==
  ASSUME NEW m, Sound(m), NEW path, NEW memory, NEW result \in Int
  PROVE  Sound(cmd_cat(m, path, memory, result))
<1>1. cmd_cat(m, path, memory, result) = m \/ cmd_cat(m, path, memory, result) = vfs_read(m, path, TRUE, result)
  BY Zenon DEF cmd_cat, With
<1> QED
  BY <1>1, ReadFileSound, Zenon

LEMMA EchoSound ==
  ASSUME NEW m, Sound(m), NEW path, NEW memory
  PROVE  Sound(cmd_echo(m, path, memory))
<1> DEFINE j == vfs_find_mount(m, path)
           e == [m.entries EXCEPT ![DriverOf(m, j)] = @ \cup {RelativePath(m, j, path)}]
<1>1. cmd_echo(m, path, memory) = m \/ cmd_echo(m, path, memory) = [m EXCEPT !.entries = e]
  BY DEF cmd_echo, With
<1> HIDE DEF e
<1>2. \A r : r = [m EXCEPT !.entries = e] => Sound(r)
  BY EntriesSound, Zenon
<1> QED
  BY <1>1, <1>2, Zenon

LEMMA RunProgramSound ==
  ASSUME NEW m, Sound(m), NEW path, NEW memory, NEW result \in Int
  PROVE  Sound(run_program(m, path, memory, result))
BY ReadFileSound DEF run_program

-----------------------------------------------------------------------------
(* The start.                                                              *)

\* The tables that vfs_init clears are sound: they hold the standard descriptors and no more.
LEMMA ClearedSound == Sound(Cleared)
<1> DEFINE hs == Cleared.handles
<1>1. /\ IsMachine(Cleared)
      /\ Cleared.next_fd = FIRST_FD /\ Cleared.orphans = {}
      /\ Cleared.files = [i \in FileSlot |-> NoFile]
      /\ Cleared.registered_fs = [i \in FsSlot |-> ""]
      /\ Cleared.mounts = [j \in MountSlot |-> NoMount]
      /\ Cleared.file_handles = [i \in HandleSlot |-> NoFileHandle]
      /\ Cleared.live = [i \in HandleSlot |-> ""]
      /\ hs = [i \in HandleSlot |-> IF i > FIRST_FD THEN NoHandle
                 ELSE [NoHandle EXCEPT !.used = TRUE, !.fd = i - 1, !.flags = IF i = 1 THEN {"r"} ELSE {"w"}]]
  BY Zenon DEF Cleared, IsMachine, Fields
<1> HIDE DEF hs
<1>2. FilesSound(Cleared.files)
  <2>1. NoFile \in FileSet /\ ~NoFile.used
    <3>1. <<>> \in Names /\ 0 \in 0 .. MAX_FILE_SIZE
      BY Bounds DEF Names
    <3> QED
      BY <3>1 DEF NoFile, FileSet
  <2> QED
    BY <1>1, <2>1, Zenon DEF FilesSound
<1>3. ASSUME NEW i \in HandleSlot
      PROVE  /\ hs[i] \in HandleSet /\ hs[i].fs_private = 0 /\ hs[i].mount = 0 /\ hs[i].file = 0
             /\ hs[i].used => hs[i].fd = i - 1
  <2>1. i \in Int /\ i - 1 \in Int
    BY Bounds DEF HandleSlot
  <2>2. NoHandle \in HandleSet
    BY NoHandleFields
  <2>3. CASE i > FIRST_FD
    BY <1>1, <2>2, <2>3, NoHandleFields, Zenon DEF NoHandle
  <2>4. CASE ~(i > FIRST_FD)
    <3> DEFINE fl == IF i = 1 THEN {"r"} ELSE {"w"}
               n == i - 1
               h == [NoHandle EXCEPT !.used = TRUE, !.fd = n, !.flags = fl]
    <3>1. hs[i] = h
      BY <1>1, <2>4, Zenon
    <3>2. fl \in SUBSET {"r", "w", "c", "t", "a"} /\ n \in Int
      BY <2>1
    <3> HIDE DEF fl, n
    <3>3. h \in HandleSet
      BY <2>2, <3>2, Zenon DEF HandleSet
    <3>4. h.fs_private = 0 /\ h.mount = 0 /\ h.file = 0 /\ h.fd = n
      BY DEF NoHandle
    <3> QED
      BY <3>1, <3>3, <3>4 DEF n
  <2> QED
    BY <2>3, <2>4
<1>4. HandlesSound(Cleared.files, hs, Cleared.file_handles)
  <2> USE Zenon
  <2>1. hs \in [HandleSlot -> HandleSet]
    BY <1>1, <1>3
  <2>2. Cleared.file_handles \in [HandleSlot -> FileHandleSet]
    BY <1>1, NoFileHandleFields
  <2>3. \A i \in HandleSlot : Kind(Cleared.files, hs[i], Cleared.file_handles)
    BY <1>3 DEF Kind
  <2>4. \A i, j \in HandleSlot : i # j => i - 1 # j - 1
    BY Bounds, SMT DEF HandleSlot
  <2>5. \A i, j \in HandleSlot : i # j => Apart(hs[i], hs[j])
    <3> SUFFICES ASSUME NEW i \in HandleSlot, NEW j \in HandleSlot, i # j, hs[i].used, hs[j].used
                 PROVE  hs[i].fd # hs[j].fd /\ hs[i].fs_private = 0
      BY DEF Apart
    <3>1. hs[i].fd = i - 1 /\ hs[j].fd = j - 1 /\ hs[i].fs_private = 0
      BY <1>3
    <3> QED
      BY <2>4, <3>1
  <2> QED
    BY <2>1, <2>2, <2>3, <2>5 DEF HandlesSound
<1>5. PositionsSound(Cleared.files, hs)
  BY <1>3, Zenon DEF PositionsSound
<1>6. MountsSound(Cleared.mounts, Cleared.registered_fs)
  <2>1. "" \in DriverNames
    BY DEF DriverNames
  <2> QED
    BY <1>1, <2>1, NoMountFields, Zenon DEF MountsSound
<1>7. LentSound(hs, Cleared.mounts, Cleared.registered_fs, Cleared.file_handles, Cleared.live, Cleared.orphans)
  <2>1. "" \in DriverNames
    BY DEF DriverNames
  <2> QED
    BY <1>1, <2>1, NoFileHandleFields, Zenon DEF LentSound, Lent
<1> QED
  BY <1>1, <1>2, <1>4, <1>5, <1>6, <1>7, Bounds, Zenon DEF Sound, hs

\* Every entry of the table has one of the names in P.
Listed(m, P) == \A k \in FileSlot : m.files[k].used => m.files[k].name \in P

LEMMA MkdirListed ==
  ASSUME NEW m, Sound(m), NEW P, Listed(m, P), NEW path \in P
  PROVE  Listed(vfs_mkdir(m, path), P)
<1> DEFINE i == FreeFile(m)
           fs == [m.files EXCEPT ![i] = File(path, "dir")]
           q == [m EXCEPT !.files = fs, !.rc = i]
<1>1. \/ \E rc : vfs_mkdir(m, path) = Return(m, rc)
      \/ vfs_mkdir(m, path) = q
  BY DEF vfs_mkdir, With
<1>2. IsMachine(m) /\ m.files \in [FileSlot -> FileSet]
  BY SoundParts
<1>3. \A k \in FileSlot : fs[k] = m.files[k] \/ fs[k].name = path
  BY <1>2 DEF File
<1> HIDE DEF fs, i
<1>4. q.files = fs /\ \A rc : Return(m, rc).files = m.files
  BY <1>2 DEF IsMachine, Fields, Return
<1> HIDE DEF q
<1> QED
  BY <1>1, <1>3, <1>4, Zenon DEF Listed

LEMMA RegisterFiles ==
  ASSUME NEW m, Sound(m), NEW name
  PROVE  vfs_register_filesystem(m, name).files = m.files
<1> DEFINE i == First({k \in FsSlot : m.registered_fs[k] = ""})
           rf == [m.registered_fs EXCEPT ![i] = name]
           q == [m EXCEPT !.registered_fs = rf, !.rc = 0]
<1>1. IsMachine(m)
  BY SoundParts
<1>2. \/ \E rc : vfs_register_filesystem(m, name) = Return(m, rc)
      \/ vfs_register_filesystem(m, name) = q
  BY Zenon DEF vfs_register_filesystem, With
<1> HIDE DEF rf
<1>3. q.files = m.files /\ \A rc : Return(m, rc).files = m.files
  BY <1>1 DEF IsMachine, Fields, Return
<1> HIDE DEF q
<1> QED
  BY <1>2, <1>3, Zenon

LEMMA MountListed ==
  ASSUME NEW m, Sound(m), NEW name, NEW P, Listed(m, P), NEW path \in P \cap Names, NEW works
  PROVE  Listed(vfs_mount_fs(m, name, path, works), P)
<1> DEFINE r == vfs_mkdir(m, path)
           x == [mounted |-> works, point |-> IF works THEN path ELSE <<>>,
                 fs |-> vfs_find_filesystem(r, name), ref_count |-> 0]
           ms == [r.mounts EXCEPT ![FreeMount(r)] = x]
           rc == IF works THEN 0 ELSE EIO
           q == [r EXCEPT !.mounts = ms, !.rc = rc]
<1>1. Sound(r) /\ Listed(r, P)
  BY MkdirSound, MkdirListed
<1>2. \/ vfs_mount_fs(m, name, path, works) = r
      \/ \E e : vfs_mount_fs(m, name, path, works) = Return(r, e)
      \/ vfs_mount_fs(m, name, path, works) = q
  BY Zenon DEF vfs_mount_fs, Try
<1> HIDE DEF r, ms, rc
<1>3. IsMachine(r)
  BY <1>1, SoundParts, Zenon
<1>4. q.files = r.files /\ \A e : Return(r, e).files = r.files
  BY <1>3 DEF IsMachine, Fields, Return
<1> HIDE DEF q
<1>5. vfs_mount_fs(m, name, path, works).files = r.files
  BY <1>2, <1>4, Zenon
<1> QED
  BY <1>1, <1>5, Zenon DEF Listed

\* devfs_init finds none of the devices it would link the standard descriptors to.
LEMMA LinkStdNothing ==
  ASSUME NEW m, Sound(m), Listed(m, {<<"dev">>})
  PROVE  LinkStd(m) = m
<1> USE Zenon
<1>1. \A name : FileNamed(m, name) # 0 => name = <<"dev">>
  <2> SUFFICES ASSUME NEW name, FileNamed(m, name) # 0 PROVE name = <<"dev">>
    OBVIOUS
  <2>1. /\ FileNamed(m, name) \in FileSlot /\ m.files[FileNamed(m, name)].used
        /\ m.files[FileNamed(m, name)].name = name
    BY NamedFile
  <2>2. m.files[FileNamed(m, name)].name \in {<<"dev">>}
    BY <2>1 DEF Listed
  <2> QED
    BY <2>1, <2>2
<1>2. <<"dev", "stdin">> # <<"dev">> /\ <<"dev", "stdout">> # <<"dev">> /\ <<"dev", "stderr">> # <<"dev">>
  BY SMT
<1>3. vfs_link_std_fd(m, 0, <<"dev", "stdin">>) = m
  BY <1>1, <1>2 DEF vfs_link_std_fd
<1>4. vfs_link_std_fd(m, 1, <<"dev", "stdout">>) = m
  BY <1>1, <1>2 DEF vfs_link_std_fd
<1>5. vfs_link_std_fd(m, 2, <<"dev", "stderr">>) = m
  BY <1>1, <1>2 DEF vfs_link_std_fd
<1> QED
  BY <1>3, <1>4, <1>5 DEF LinkStd

LEMMA InitSound == Sound(vfs_init)
<1> USE Zenon
<1> DEFINE r == vfs_register_filesystem(Cleared, "devfs")
           d == vfs_mount_fs(r, "devfs", <<"dev">>, TRUE)
           s == vfs_register_filesystem(d, "procfs")
<1>1. /\ <<"dev">> \in Names /\ <<"proc">> \in Names
      /\ "devfs" \in DriverNames \ {""} /\ "procfs" \in DriverNames \ {""}
  BY SMT DEF Names, DriverNames
<1>2. Sound(r)
  BY <1>1, ClearedSound, RegisterSound
<1>3. Listed(r, {<<"dev">>})
  <2>1. \A k \in FileSlot : ~Cleared.files[k].used
    BY SMT DEF Cleared, NoFile
  <2>2. r.files = Cleared.files
    BY ClearedSound, RegisterFiles
  <2> QED
    BY <2>1, <2>2 DEF Listed
<1> HIDE DEF r
<1>4. Sound(d) /\ Listed(d, {<<"dev">>})
  <2>1. <<"dev">> \in {<<"dev">>} \cap Names /\ TRUE \in BOOLEAN
    BY <1>1
  <2> QED
    BY <1>1, <1>2, <1>3, <2>1, MountSound, MountListed
<1> HIDE DEF d
<1>5. LinkStd(d) = d
  BY <1>4, LinkStdNothing
<1>6. Sound(s)
  BY <1>1, <1>4, RegisterSound
<1>7. vfs_init = vfs_mount_fs(s, "procfs", <<"proc">>, TRUE)
  BY <1>5 DEF vfs_init, procfs_init, devfs_init, d, r
<1> HIDE DEF s
<1> QED
  BY <1>1, <1>6, <1>7, MountSound

-----------------------------------------------------------------------------
(* Every call, of the tables that the variables hold.                      *)

LEMMA CopySound ==
  ASSUME NEW m, Sound(m), NEW r, IsMachine(r),
         r.files = m.files, r.handles = m.handles, r.next_fd = m.next_fd,
         r.registered_fs = m.registered_fs, r.mounts = m.mounts,
         r.file_handles = m.file_handles, r.live = m.live, r.orphans = m.orphans
  PROVE  Sound(r)
BY SoundParts, Zenon DEF Sound

LEMMA MachineFields ==
  /\ IsMachine(Machine) /\ Machine.files = files /\ Machine.handles = handles
  /\ Machine.next_fd = next_fd /\ Machine.registered_fs = registered_fs
  /\ Machine.mounts = mounts /\ Machine.file_handles = file_handles
  /\ Machine.entries = entries /\ Machine.live = live /\ Machine.orphans = orphans
BY Zenon DEF Machine, IsMachine, Fields

LEMMA CallSound ==
  ASSUME NEW m, Sound(m), Call(m)
  PROVE  Sound(Machine)'
<1>1. /\ IsMachine(Machine') /\ Machine'.files = files' /\ Machine'.handles = handles'
      /\ Machine'.next_fd = next_fd' /\ Machine'.registered_fs = registered_fs'
      /\ Machine'.mounts = mounts' /\ Machine'.file_handles = file_handles'
      /\ Machine'.live = live' /\ Machine'.orphans = orphans'
  BY Zenon DEF Machine, IsMachine, Fields
<1>2. Sound(Machine')
  BY <1>1, CopySound, Zenon DEF Call
<1> QED
  BY <1>2

\* The tables of the machine are sound: the inductive invariant.
TablesSound == Sound(Machine)

LEMMA NextSound ==
  ASSUME TablesSound, [Next]_vars
  PROVE  TablesSound'
<1> USE Zenon
<1> DEFINE m == Machine
<1>1. Sound(m)
  BY SMT DEF TablesSound
<1>2. /\ FileLen \in Int /\ EIO \in Int /\ DEV_NULL_FD \in Int /\ Results \subseteq Int
      /\ Flags \subseteq SUBSET {"r", "w", "c", "t", "a"} /\ Counts \subseteq Nat
      /\ \A s \in Seeks : s[1] \in Int /\ s[2] \in {"set", "cur", "end"}
  <2>1. Flags \subseteq SUBSET {"r", "w", "c", "t", "a"} /\ Counts \subseteq Nat
        /\ Seeks \subseteq Int \X {"set", "cur", "end"} /\ FileLen \in Nat
    BY VfsAssumption
  <2>2. FileLen \in Int /\ EIO \in Int /\ DEV_NULL_FD \in Int /\ Results \subseteq Int
    BY <2>1, SMT DEF EIO, DEV_NULL_FD, Results
  <2>3. \A s \in Seeks : s[1] \in Int /\ s[2] \in {"set", "cur", "end"}
    BY <2>1, SMT
  <2> QED
    BY <2>1, <2>2, <2>3
<1>3. /\ Dirs \subseteq Names /\ Drivers \subseteq DriverNames \ {""}
  BY VfsAssumption DEF Names, DriverNames
<1> SUFFICES ASSUME ~UNCHANGED vars
             PROVE  \E r : Sound(r) /\ Call(r)
  <2>1. CASE UNCHANGED vars
    <3>1. Machine' = Machine
      BY <2>1, SMT DEF vars, Machine
    <3> QED
      BY <1>1, <3>1, SMT DEF TablesSound
  <2>2. CASE ~UNCHANGED vars
    BY <2>2, CallSound, SMT DEF TablesSound
  <2> QED
    BY <2>1, <2>2, SMT
<1> HIDE DEF m
<1>4. ASSUME NEW p \in Paths, NEW f \in Flags, NEW b \in BOOLEAN, Open(p, f, b)
      PROVE  \E r : Sound(r) /\ Call(r)
  BY <1>1, <1>2, <1>4, OpenSound DEF Open, m
<1>5. ASSUME NEW fd \in Fds, Close(fd)
      PROVE  \E r : Sound(r) /\ Call(r)
  BY <1>1, <1>5, CloseSound DEF Close, m
<1>6. ASSUME NEW fd \in Fds, NEW n \in Counts, NEW r \in Results, Read(fd, n, r)
      PROVE  \E s : Sound(s) /\ Call(s)
  <2>1. n \in Nat /\ r \in Int
    BY <1>2
  <2> QED
    BY <1>1, <1>6, <2>1, ReadSound DEF Read, m
<1>7. ASSUME NEW fd \in Fds, NEW n \in Counts, NEW r \in Results, Write(fd, n, r)
      PROVE  \E s : Sound(s) /\ Call(s)
  <2>1. n \in Nat /\ r \in Int
    BY <1>2
  <2> QED
    BY <1>1, <1>7, <2>1, WriteSound DEF Write, m
<1>8. ASSUME NEW fd \in Fds, NEW s \in Seeks, Seek(fd, s[1], s[2])
      PROVE  \E r : Sound(r) /\ Call(r)
  <2>1. s[1] \in Int /\ s[2] \in {"set", "cur", "end"}
    BY <1>2
  <2> QED
    BY <1>1, <1>8, <2>1, SeekSound DEF Seek, m
<1>9. ASSUME NEW p \in Paths, NEW n \in Counts, Create(p, n, TRUE, FileLen)
      PROVE  \E r : Sound(r) /\ Call(r)
  <2>1. n \in Nat
    BY <1>2
  <2> QED
    BY <1>1, <1>2, <1>9, <2>1, CreateSound DEF Create, m
<1>10. ASSUME NEW p \in Paths, Delete(p)
       PROVE  \E r : Sound(r) /\ Call(r)
  BY <1>1, <1>10, DeleteSound DEF Delete, m
<1>11. ASSUME NEW p \in Dirs, Mkdir(p) \/ Rmdir(p)
       PROVE  \E r : Sound(r) /\ Call(r)
  <2>1. p \in Names
    BY <1>3
  <2> QED
    BY <1>1, <1>11, <2>1, MkdirSound, RmdirSound DEF Mkdir, Rmdir, m
<1>12. ASSUME NEW p \in Devices, PseudoRegister(p) \/ PseudoRegisterWithFd(p)
       PROVE  \E r : Sound(r) /\ Call(r)
  <2>1. Sound(vfs_pseudo_register(m, p))
    BY <1>1, PseudoRegisterSound
  <2>2. Sound(vfs_pseudo_register_with_fd(m, p, DEV_NULL_FD))
    BY <1>1, <1>2, PseudoRegisterWithFdSound
  <2> QED
    BY <1>12, <2>1, <2>2 DEF PseudoRegister, PseudoRegisterWithFd, m
<1>13. ASSUME NEW d \in Drivers, RegisterFilesystem(d) \/ UnregisterFilesystem(d)
       PROVE  \E r : Sound(r) /\ Call(r)
  <2>1. d \in DriverNames
    BY <1>3
  <2> QED
    BY <1>1, <1>13, <2>1, RegisterSound, UnregisterSound
       DEF RegisterFilesystem, UnregisterFilesystem, m
<1>14. ASSUME NEW d \in Drivers, NEW p \in Dirs, NEW b \in BOOLEAN, Mount(d, p, b)
       PROVE  \E r : Sound(r) /\ Call(r)
  <2>1. d \in DriverNames \ {""} /\ p \in Names
    BY <1>3
  <2> QED
    BY <1>1, <1>14, <2>1, ShellMountSound DEF Mount, m
<1>15. ASSUME NEW p \in Dirs, NEW b \in BOOLEAN, Umount(p, b)
       PROVE  \E r : Sound(r) /\ Call(r)
  BY <1>1, <1>15, UmountSound DEF Umount, cmd_umount, m
<1>16. ASSUME NEW p \in Paths, NEW b \in BOOLEAN, Cat(p, b, FileLen)
       PROVE  \E r : Sound(r) /\ Call(r)
  BY <1>1, <1>2, <1>16, CatSound DEF Cat, m
<1>17. ASSUME NEW p \in Paths \ Devices, NEW b \in BOOLEAN, Echo(p, b)
       PROVE  \E r : Sound(r) /\ Call(r)
  BY <1>1, <1>17, EchoSound DEF Echo, m
<1>18. ASSUME NEW p \in Paths, RunProgram(p, TRUE, FileLen)
       PROVE  \E r : Sound(r) /\ Call(r)
  BY <1>1, <1>2, <1>18, RunProgramSound DEF RunProgram, m
<1> QED
  BY <1>4, <1>5, <1>6, <1>7, <1>8, <1>9, <1>10, <1>11, <1>12, <1>13, <1>14, <1>15, <1>16, <1>17,
     <1>18 DEF Next, VfsNext

\* The tables are sound after every sequence of calls of the file system and of the shell.
THEOREM TablesStaySound == Spec => []TablesSound
<1>1. Init => TablesSound
  <2> SUFFICES ASSUME Init PROVE Sound(Machine)
    BY DEF TablesSound
  <2> QED
    BY InitSound, MachineFields, CopySound, Zenon DEF Init
<1>2. TablesSound /\ [Next]_vars => TablesSound'
  BY NextSound
<1> QED
  BY <1>1, <1>2, PTL DEF Spec

-----------------------------------------------------------------------------
(* What sound tables say of the descriptors, the positions and the drivers. *)

LEMMA TablesParts ==
  ASSUME TablesSound
  PROVE  /\ IsMachine(Machine) /\ next_fd \in Nat
         /\ FilesSound(files) /\ HandlesSound(files, handles, file_handles)
         /\ PositionsSound(files, handles) /\ MountsSound(mounts, registered_fs)
         /\ LentSound(handles, mounts, registered_fs, file_handles, live, orphans)
BY MachineFields, SoundParts, Zenon DEF TablesSound

LEMMA SoundDescriptors == TablesSound => DescriptorsSound
<1> USE Zenon
<1> SUFFICES ASSUME TablesSound PROVE DescriptorsSound
  BY SMT
<1>1. \A i \in HandleSlot : DescriptorKind(handles[i])
  BY TablesParts DEF HandlesSound, Kind, DescriptorKind
<1>2. \A i, j \in OpenSlots : i # j =>
        /\ handles[i].fd # handles[j].fd
        /\ handles[i].fs_private = 0 \/ handles[i].fs_private # handles[j].fs_private
  BY TablesParts DEF HandlesSound, Apart, OpenSlots
<1>3. \A i, j \in FileSlot : i # j /\ files[i].used /\ files[j].used => files[i].name # files[j].name
  BY TablesParts DEF FilesSound
<1>4. ASSUME OpenSlots # HandleSlot
      PROVE  allocate_fd(Machine).rc \in FreeFds(Machine)
  <2>1. PICK k \in HandleSlot : ~handles[k].used
    BY <1>4 DEF OpenSlots
  <2>2. ~Machine.handles[k].used
    BY <2>1, MachineFields
  <2>3. FreeFds(Machine) # {}
    BY <2>2, FdLeft
  <2>4. IsMachine(Machine) /\ Machine.next_fd \in Nat
    BY TablesParts, MachineFields
  <2> QED
    BY <2>3, <2>4, AllocateFd
<1> QED
  BY <1>1, <1>2, <1>3, <1>4 DEF DescriptorsSound

\* Descriptors, file handles and entries of the table stay apart, a descriptor refers only to
\* what is in use, and a free slot always finds a number: no open, close, delete, rmdir or
\* umount, in any order, leaves a descriptor of another file behind.
THEOREM DescriptorsStaySound == Spec => []DescriptorsSound
BY TablesStaySound, SoundDescriptors, PTL

LEMMA SoundPositions == TablesSound => PositionsFit
<1> SUFFICES ASSUME TablesSound, NEW i \in OpenSlots, handles[i].file # 0
             PROVE  LET f == files[handles[i].file]
                    IN  /\ f.size <= MAX_FILE_SIZE
                        /\ f.type = "dir" => handles[i].position <= f.size
                        /\ f.type = "device" /\ "write" \notin DevOps[f.name] =>
                             handles[i].position <= MAX_FILE_SIZE
  BY Zenon DEF PositionsFit
<1> DEFINE f == files[handles[i].file]
<1>1. i \in HandleSlot /\ handles[i].used
  BY Zenon DEF OpenSlots
<1>2. Fits(f, handles[i].position)
  BY <1>1, TablesParts, Zenon DEF PositionsSound
<1>3. handles[i] \in HandleSet /\ files \in [FileSlot -> FileSet]
  BY <1>1, TablesParts DEF HandlesSound, FilesSound
<1>4. handles[i].file \in FileSlot
  BY <1>3, HandleFields, Zenon
<1>5. f \in FileSet
  BY <1>3, <1>4
<1> HIDE DEF f
<1>6. f.size <= MAX_FILE_SIZE
  <2>1. f.size \in 0 .. MAX_FILE_SIZE
    BY <1>5 DEF FileSet
  <2> QED
    BY <2>1, Bounds
<1> QED
  BY <1>2, <1>6, Zenon DEF Fits, f

\* No seek, read or write, and no removal, leaves a descriptor behind the end of a directory
\* or behind the room of a device in the table, where MAX_FILE_SIZE - position would wrap.
THEOREM PositionsStayFit == Spec => []PositionsFit
BY TablesStaySound, SoundPositions, PTL

LEMMA SoundDrivers == TablesSound => DriversSound
<1> USE Zenon
<1> SUFFICES ASSUME TablesSound PROVE DriversSound
  BY SMT
<1>1. /\ MountsSound(mounts, registered_fs) /\ HandlesSound(files, handles, file_handles)
      /\ LentSound(handles, mounts, registered_fs, file_handles, live, orphans)
  BY TablesParts
<1>2. \A j \in MountSlot : mounts[j].mounted =>
        mounts[j].fs # 0 /\ DriverOf(Machine, j) = registered_fs[mounts[j].fs] /\ DriverOf(Machine, j) # ""
  BY <1>1, MachineFields DEF MountsSound, DriverOf
<1>3. \A i, j \in MountSlot : i # j /\ mounts[i].mounted /\ mounts[j].mounted => mounts[i].point # mounts[j].point
  BY <1>1 DEF MountsSound
<1>4. ASSUME NEW i \in HandleSlot \ orphans
      PROVE  /\ file_handles[i].used = (live[i] # "")
             /\ file_handles[i].used =>
                  /\ \E h \in OpenSlots : handles[h].fs_private = i
                  /\ mounts[file_handles[i].mount].mounted
                  /\ live[i] = DriverOf(Machine, file_handles[i].mount)
  <2>1. Lent(i, handles, mounts, registered_fs, file_handles, live)
    BY <1>1 DEF LentSound
  <2>2. file_handles[i] \in FileHandleSet
    BY <1>1, SMT DEF HandlesSound
  <2>3. file_handles[i].used \in BOOLEAN
    BY <2>2, SMT DEF FileHandleSet
  <2>4. file_handles[i].mount # 0 => file_handles[i].mount \in MountSlot
    BY <2>2, FileHandleFields
  <2>5. file_handles[i].used <=> live[i] # ""
    BY <2>1 DEF Lent
  <2>6. file_handles[i].used = (live[i] # "")
    BY <2>3, <2>5
  <2>7. file_handles[i].used =>
          /\ \E h \in OpenSlots : handles[h].fs_private = i
          /\ mounts[file_handles[i].mount].mounted
          /\ live[i] = DriverOf(Machine, file_handles[i].mount)
    BY <1>2, <2>1, <2>4 DEF Lent, OpenSlots
  <2> QED
    BY <2>6, <2>7
<1> QED
  BY <1>2, <1>3, <1>4 DEF DriversSound

\* Unless its mount is unmounted under it, a file handle is in use exactly as long as the
\* driver holds its private data, for one descriptor and one mount of that driver: no open
\* that fails half way and no close leaks the data or closes it twice.
THEOREM DriversStaySound == Spec => []DriversSound
BY TablesStaySound, SoundDrivers, PTL
=============================================================================
