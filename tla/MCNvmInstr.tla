----------------------------- MODULE MCNvmInstr -----------------------------
(***************************************************************************)
(* NvmInstr with 4-bit words: a stack of 3 cells, a heap of 2 bytes read   *)
(* in words of 2, programs of 4 or 5 bytes behind a signature of 1, of     *)
(* which SYS_SPAWN would take the shorter length for an argc.              *)
(***************************************************************************)
EXTENDS NvmInstr

Word == INSTANCE NvmWord WITH WIDTH <- 4

MCAlu(op, a, b) == Word!Result(op, a, b)

\* Words that the handlers tell apart: the extremes, -1, offsets and cells within
\* and behind heap and stack, code addresses and one in the signature.
Followed == {-8, -1, 0, 1, 3, 7}

\* Bounds.  A process is followed while its cells hold such words and the cells
\* it has not written hold zeros: a read of such a cell is recorded in rd whatever
\* its value.  And it is followed while fp is no less than -1: every handler
\* treats all negative frame pointers alike.
Bound ==
    /\ \A c \in Cells : stack[c] \in IF c \in own THEN Followed ELSE {0}
    /\ fp >= -1
=============================================================================
