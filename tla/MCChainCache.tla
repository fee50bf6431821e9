----------------------------- MODULE MCChainCache -----------------------------
(***************************************************************************)
(* Two branches a and b-c on genesis.  a and c contain the same            *)
(* transaction, whose output z is another coin on either branch; c spends  *)
(* the output y of b.                                                      *)
(***************************************************************************)
EXTENDS ChainCache

CONSTANTS g, a, b1, c1, y, z, none, unread, r1

MCParent == [b \in Block \ {g} |-> IF b = c1 THEN b1 ELSE g]
MCHeight == [b \in Block |-> CASE b = g -> 0 [] b = c1 -> 2 [] OTHER -> 1]
MCPath == [b \in Block |-> CASE b = g -> {g} [] b = c1 -> {g, b1, c1} [] OTHER -> {g, b}]
MCCreates == [b \in Block |-> CASE b \in {a, c1} -> {z} [] b = b1 -> {y} [] OTHER -> {}]
MCSpends == [b \in Block |-> IF b = c1 THEN {y} ELSE {}]
MCUnspent == [b \in Block |-> CASE b \in {a, c1} -> {z} [] b = b1 -> {y} [] OTHER -> {}]
==============================================================================
