------------------------------ MODULE MCFat32 ------------------------------
EXTENDS Fat32

F == <<"f">>
G == <<"d", "g">>
L == <<"long">>
D == <<"d">>
MCFilePaths == {F, G, L, D}
MCDirPaths == {D}
\* An empty root, or one with a file whose long name stands for the 8.3 name d.
MCRoot == {Zero, [Zero EXCEPT ![1] = Long("long", "d"), ![2] = Entry("d", FALSE, 0, 0)]}

\* Nothing is done with a file d once it is made.  Of the others one is used through two
\* handles, while the volume is not full.
InUse == {c \in Cluster : fat[1][c] # FREE}
Bound ==
  \A h \in Handles : fh[h].open =>
    /\ fh[h].path # D
    /\ fh[h].shared => fh[h].path = L /\ InUse # Cluster

\* The handles are alike.
Symmetry == Permutations(Handles)
====
