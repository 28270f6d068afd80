------------------------------ MODULE MCBuddy ------------------------------
(***************************************************************************)
(* Slab and Buddy with two CPUs, pools of 2 blocks, and memory of 4        *)
(* smallest blocks in one block of the largest order, or of 2 where the    *)
(* largest order has no block.  A smallest block has 4 bytes and a header  *)
(* 1, so sizes 4 and 8 are the ones whose header kmalloc ignores; a slab   *)
(* page has two objects of one byte or one object of two.                  *)
(***************************************************************************)
EXTENDS Slab

MCObjSizes == <<1, 2>>

\* Bound: with small requests the other CPU does nothing; in the larger memory there are at
\* most three slab pages and no other blocks.  At most one block is taken for a slab object,
\* and the other CPU has no pools then.
Bound ==
    /\ Cardinality(mistaken) <= 1
    /\ mistaken # {} => \A c \in CPUs \ {BSP} : ~initialized[c]
    /\ pages # <<>> \/ IsSmall(call[BSP].size) \/ (\E h \in held : IsSmall(h.size)) =>
         /\ \A c \in CPUs \ {BSP} : ~initialized[c] /\ call[c] = Idle
         /\ pool = 6 => /\ Cardinality(DOMAIN pages) <= 3 /\ held = {} /\ call[BSP] = Idle
                        /\ \A o \in pool_orders : blocks[BSP][o] = <<>>
=============================================================================
