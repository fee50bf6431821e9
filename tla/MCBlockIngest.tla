--------------------------- MODULE MCBlockIngest ----------------------------
(***************************************************************************)
(* Instances of BlockIngest for TLC.  g is genesis; a2 and b2 are siblings *)
(* above it; a3 stands on a2, a4 on a3, and c3 on a2 too, but c3 is older  *)
(* than a2 (within the lag); f4 is the tip of a branch whose other blocks  *)
(* are unknown.                                                            *)
(***************************************************************************)
EXTENDS BlockIngest, TLC

CONSTANTS g, a2, b2, a3, c3, a4, f4, unknown, k1, k2, s1, s2

Row(h, p, d, t, w, n, k) ==
  [height |-> h, prev |-> p, distance |-> d, stamp |-> t, weight |-> w,
   newest |-> n, keys |-> k]

Table ==
  g  :> Row(1, unknown, 1, 0, 0, 0, {})
  @@ a2 :> Row(2, g, 3, 1, 2, 1, {k1})
  @@ b2 :> Row(2, g, 4, 0, 2, 1, {k2})
  @@ a3 :> Row(3, a2, 5, 2, 4, 2, {k1, k2})
  @@ c3 :> Row(3, a2, 5, 0, 2, 1, {k1})
  @@ a4 :> Row(4, a3, 7, 3, 5, 3, {k2})
  @@ f4 :> Row(4, unknown, 4, 0, 3, 2, {k2})

MCContent == [b \in Block |-> [Table[b] EXCEPT !.keys = @ \cap Key]]

Slots == Permutations(Slot)

\* The distance and the difficulty of every block follow from any block one
\* height below it, so that only the previous hash tells a child from a block
\* of another branch.
MCPairs == {<<p, b>> \in Block \X Block :
              Table[b].height = Table[p].height + 1}
=============================================================================
