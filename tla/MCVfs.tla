-------------------------------- MODULE MCVfs --------------------------------
(***************************************************************************)
(* The virtual file system and the shell with devfs, procfs and a driver   *)
(* that can create and unlink; with a directory and a device inside the    *)
(* mount of devfs, like those of a process in /proc; and two descriptors   *)
(* besides a standard one.                                                 *)
(***************************************************************************)
EXTENDS VfsReaddir

MCOps == [d \in {"devfs", "procfs", "fat32"} |-> CASE d = "fat32" -> {"write", "create", "unlink", "append"}
                                               [] d = "devfs" -> {"write"} [] OTHER -> {}]
MCEntries == [d \in {"devfs", "procfs", "fat32"} |-> {<<"a">>}]
MCDevOps == <<"dev", "s", "p">> :> {"read"}
MCDevLen == <<"dev", "s", "p">> :> 1
MCDirs == {<<"dev", "s">>}
MCPaths == {<<"dev", "s", "a">>, <<"dev", "s", "p">>, <<"dev", "s">>}
MCSeeks == {<<-1, "end">>, <<1, "cur">>}
MCFlags == {{"r", "w"}, {"r", "w", "a"}}

\* Bounds: one descriptor is moved and one entry has data at a time; a file handle is
\* orphaned while there is neither, and no descriptor but of mounted files; one descriptor is
\* open to append, of a mounted file, with no orphan and no other file moved or filled.
Moved == {i \in HandleSlot : handles[i].position > 0}
Filled == {i \in FileSlot : files[i].size > 0}
Appending == {i \in HandleSlot : "a" \in handles[i].flags}
Bound ==
  /\ Cardinality(orphans) <= 1 /\ Cardinality(Moved) <= 1 /\ Cardinality(Filled) <= 1
  /\ orphans # {} => Moved \cup Filled = {} /\ \A i \in HandleSlot : handles[i].file = 0
  /\ Appending # {} =>
       /\ Cardinality(Appending) = 1 /\ orphans \cup Filled = {} /\ Moved \subseteq Appending
       /\ \A i \in Appending : handles[i].file = 0
=============================================================================
