------------------------------- MODULE MCExt2 -------------------------------
(***************************************************************************)
(* A volume of two groups with room for two files, both called a: one with *)
(* a '/', which is found, and any number with a character in its place.    *)
(***************************************************************************)
EXTENDS Ext2

MCPaths == {[slash |-> TRUE, name |-> "a"], [slash |-> FALSE, name |-> "ba"]}
MCBeheaded == [n \in {"ba"} |-> "a"]
MCNeed == [n \in {".", "a"} |-> IF n = "a" THEN 2 ELSE 1]

\* Bounds: the second handle is of a file that the first one has open, the only one of the
\* volume; it stays in the first two blocks, and at most three blocks are allocated meanwhile.
Bound ==
  \A h \in Handles \ {1} : fh[h].open =>
    /\ fh[1].open /\ fh[1].ino = fh[h].ino /\ Cardinality(dev.ibm) = 3
    /\ fh[h].position <= BS /\ Cardinality(dev.bbm \ UsedBlocks) <= 3
=============================================================================
