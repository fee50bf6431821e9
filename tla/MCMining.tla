------------------------------- MODULE MCMining -------------------------------
(***************************************************************************)
(* Genesis g, block x on it and block y on x, which lists later headers.   *)
(***************************************************************************)
EXTENDS Mining, TLC

CONSTANTS g, x, y, none, eth, r1, r2, w1, w2

MCPrev == [b \in Block |-> CASE b = y -> x [] b = x -> g [] OTHER -> None]
MCHeaders ==
  [b \in Block |-> [c \in Chain |-> CASE b = x -> {1} [] b = y -> 2..4 [] OTHER -> {}]]

(***************************************************************************)
(* Once the last work is handed out, only the pool and the officer go on,  *)
(* and they read nothing else.                                             *)
(***************************************************************************)
Ahead == IF Open THEN vars ELSE <<officer, poolVars>>

Alike == Permutations(Worker) \cup Permutations(Call)
==============================================================================
