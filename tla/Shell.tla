-------------------------------- MODULE Shell --------------------------------
(***************************************************************************)
(* The shell's commands on files (core/kernel/shell.c) over the virtual    *)
(* file system.  cat and echo go past vfs_open: they call the driver with  *)
(* a file handle of their own, which they open, use and close in one       *)
(* command.  Paths are absolute, after the working directory is put in     *)
(* front of them.                                                          *)
(***************************************************************************)
EXTENDS Vfs

\* The mount point is made, whatever vfs_mkdir returns, and mounted on.
cmd_mount(m, name, path, works) == vfs_mount_fs(vfs_mkdir(m, path), name, path, works)

cmd_umount(m, path, works) == vfs_umount(m, path, works)

\* A file that the mount's driver knows and can open is read by the driver, until it returns
\* no more, and closed: the tables do not change.  Any other path goes through vfs_read.
cmd_cat(m, path, memory, result) ==
  With(vfs_find_mount(m, path), LAMBDA j :
    IF HasDriver(m, j) /\ vfs_stat(m, path) = "file" /\ memory THEN m
    ELSE vfs_read(m, path, TRUE, result))

\* The file is opened, and created if the driver can, written and closed.
cmd_echo(m, path, memory) ==
  With(vfs_find_mount(m, path), LAMBDA j :
    IF HasDriver(m, j) /\ {"write", "create"} \subseteq Ops[DriverOf(m, j)] /\ memory
       /\ RelativePath(m, j, path) # <<>>
    THEN [m EXCEPT !.entries[DriverOf(m, j)] = @ \cup {RelativePath(m, j, path)}]
    ELSE m)

\* A program is read as a whole before its process is created.
run_program(m, path, memory, result) ==
  IF vfs_exists(m, path) THEN vfs_read(m, path, memory, result) ELSE m

Mount(name, path, works) == Call(cmd_mount(Machine, name, path, works))
Umount(path, works) == Call(cmd_umount(Machine, path, works))
Cat(path, memory, result) == Call(cmd_cat(Machine, path, memory, result))
Echo(path, memory) == Call(cmd_echo(Machine, path, memory))
RunProgram(path, memory, result) == Call(run_program(Machine, path, memory, result))

Next ==
  \/ VfsNext
  \/ \E d \in Drivers, p \in Dirs, b \in BOOLEAN : Mount(d, p, b)
  \/ \E p \in Dirs, b \in BOOLEAN : Umount(p, b)
  \/ \E p \in Paths, b \in BOOLEAN : Cat(p, b, FileLen)
  \/ \E p \in Paths \ Devices, b \in BOOLEAN : Echo(p, b)
  \/ \E p \in Paths : RunProgram(p, TRUE, FileLen)

Spec == Init /\ [][Next]_vars
=============================================================================
