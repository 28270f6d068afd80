----------------------------- MODULE VfsReaddir -----------------------------
(***************************************************************************)
(* Listing a directory: vfs_readdir (core/fs/vfs.c), which joins what the  *)
(* table or the driver has with the mount points below the directory, and  *)
(* the shell's ls.  Neither changes the tables.                            *)
(***************************************************************************)
EXTENDS Shell, SequencesExt

\* The last components of the paths that are one step below a path.
ChildrenOf(paths, path) ==
  LET child == SelectSeq(paths, LAMBDA p : IsPrefix(path, p) /\ Len(p) = Len(path) + 1)
  IN  [i \in 1 .. Len(child) |-> Last(child[i])]
\* devfs lists all its devices, whatever the path.
driver_readdir(m, j, rel) ==
  LET paths == SetToSeq(m.entries[DriverOf(m, j)])
  IN  IF DriverOf(m, j) = "devfs" THEN [i \in 1 .. Len(paths) |-> Last(paths[i])] ELSE ChildrenOf(paths, rel)
LegacyChildren(m, path) ==
  LET used == SelectSeq([i \in FileSlot |-> m.files[i]], LAMBDA f : f.used)
  IN  ChildrenOf([i \in 1 .. Len(used) |-> used[i].name], path)

\* Mutant of AddMounts: a mount point is added without a look at what is already listed.
AddTwice(m, path, list, max) ==
  FoldLeft(LAMBDA l, mt :
             IF mt.mounted /\ IsStrictPrefix(path, mt.point) /\ Len(l) < max
             THEN Append(l, mt.point[Len(path) + 1]) ELSE l, list, m.mounts)

\* The next component of every mount point below the path, if it is not listed yet.
AddMounts(m, path, list, max) ==
  FoldLeft(LAMBDA l, mt :
             IF mt.mounted /\ IsStrictPrefix(path, mt.point) /\ Len(l) < max
             THEN IF mt.point[Len(path) + 1] \in ToSet(l) THEN l ELSE Append(l, mt.point[Len(path) + 1])
             ELSE l, list, m.mounts)

vfs_readdir(m, path, max) ==
  With(vfs_find_mount(m, path), LAMBDA j :
    With(IF HasDriver(m, j) THEN driver_readdir(m, j, RelativePath(m, j, path)) ELSE LegacyChildren(m, path),
      LAMBDA own : AddMounts(m, path, SubSeq(own, 1, Lesser(Len(own), max)), max)))

\* The names that ls prints: those of vfs_readdir, or of the table if there are none.
cmd_ls(m, path) ==
  With(vfs_readdir(m, path, 32), LAMBDA list : IF list # <<>> THEN list ELSE LegacyChildren(m, path))

\* With room for everything, a directory lists no name twice, and lists the way to every
\* mount below it, although entries come from the table, from a driver and from the mounts.
\* (ls has room for 32 entries, and drops the mounts when the directory itself has as many.)
MountsListed ==
  \A p \in Dirs \cup {<<>>} :
    LET list == vfs_readdir(Machine, p, MAX_FILES + MAX_MOUNTS)
    IN  /\ IsInjective(list)
        /\ \A j \in MountSlot : mounts[j].mounted /\ IsStrictPrefix(p, mounts[j].point) =>
             mounts[j].point[Len(p) + 1] \in ToSet(list)
=============================================================================
