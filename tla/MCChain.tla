------------------------------- MODULE MCChain -------------------------------
(***************************************************************************)
(* A tree of blocks for Chain.  a1-a2 and b1-b2-b3 are branches on genesis *)
(* and c2 continues b1.  b2 spends an output of a1, so it cannot be        *)
(* connected on its own branch, and its child b3 is heavier than a2; a2    *)
(* spends an output of a1 and one of its own, b1 one of its own; a2 and c2 *)
(* contain the same transaction.                                           *)
(***************************************************************************)
EXTENDS Chain, TLC

CONSTANTS g, a1, a2, b1, b2, b3, c2, x, y, z, none

MCParent == [b \in Block \ {g} |-> CASE b = a2 -> a1
                                     [] b \in {b2, c2} -> b1
                                     [] b = b3 -> b2
                                     [] OTHER -> g]

MCChainwork == [b \in Block |-> CASE b = g -> 0 [] b = b1 -> 1 [] b = a1 -> 2
                                  [] b \in {b2, c2} -> 3 [] b = a2 -> 4 [] b = b3 -> 5]

MCCreates == [b \in Block |-> CASE b = a1 -> {x} [] b = b1 -> {y} [] b \in {a2, c2} -> {z}
                                [] OTHER -> {}]
MCSpends == [b \in Block |-> CASE b = a2 -> {x, z} [] b = b2 -> {x} [] b = b1 -> {y}
                               [] OTHER -> {}]

MCHeight == LET h[b \in Block] == IF b = g THEN 0 ELSE h[MCParent[b]] + 1 IN h
MCPath == LET p[b \in Block] == IF b = g THEN {g} ELSE p[MCParent[b]] \cup {b} IN p
MCUnspent ==
  LET u[b \in Block] == IF b = g THEN {} ELSE (u[MCParent[b]] \cup MCCreates[b]) \ MCSpends[b]
  IN  u

Of(kind, bs) == [kind : {kind}, block : bs, form : {"sound"}]

MCJobs == Of("add", Block \ {g}) \cup {[kind |-> "add", block |-> a2, form |-> "mutated"]}
            \cup Of("reset", {b1}) \cup Of("invalidate", {b1})
MCJobsReset == MCJobs \cup Of("replay", {a1})
==============================================================================
