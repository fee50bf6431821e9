------------------------------- MODULE Ledger --------------------------------
(***************************************************************************)
(* What the chain of the library promises about its stored state, whatever *)
(* batches, failures and stops bring it about.  The state is always that   *)
(* of one block, the head, and moves to a neighbour of it in the tree.  It *)
(* moves towards a goal on the shortest way: a block with more work than   *)
(* the head it set out from, or on request an ancestor of the head.        *)
(***************************************************************************)
EXTENDS Naturals

CONSTANTS
  Block, Genesis, None,
  Parent, Path, Chainwork, Unspent, \* the tree, see ChainTree
  Sound,   \* the blocks that break no rule on their own branch
  Faults   \* whether writes fail and the process stops

VARIABLES
  head,    \* the block the state belongs to
  coins,   \* the unspent outputs
  goal,    \* where the head is going, None while it rests
  lost     \* a recall ended on the way: nothing is promised any more

vars == <<head, coins, goal, lost>>

Init == head = Genesis /\ coins = Unspent[Genesis] /\ goal = None /\ lost = FALSE

(***************************************************************************)
(* A resting head sets out for more work only.                             *)
(***************************************************************************)
Bound(g) == g = goal \/ (goal = None /\ Chainwork[g] > Chainwork[head])

NextUp(g, b) == head \in Path[g] /\ b \in Path[g] \ {Genesis} /\ Parent[b] = head

Move(b) == head' = b /\ coins' = Unspent[b] /\ UNCHANGED lost

Connect(g, b) ==
  /\ Bound(g) /\ NextUp(g, b) /\ b \in Sound
  /\ Move(b)
  /\ goal' = IF b = g THEN None ELSE g

Disconnect(g) ==
  /\ Bound(g) /\ head \notin Path[g]
  /\ Move(Parent[head])
  /\ goal' = g

Recall(g) ==
  /\ goal = None /\ g \in Path[head]
  /\ goal' = g
  /\ UNCHANGED <<head, coins, lost>>

(***************************************************************************)
(* The head comes to rest where it was going, or below a block that is     *)
(* refused; on the way down only because of a fault.                       *)
(***************************************************************************)
Refused == \E b \in Block : NextUp(goal, b) /\ (b = goal \/ b \notin Sound)

Rest ==
  /\ goal # None
  /\ head = goal \/ Refused \/ Faults
  /\ goal' = None
  /\ UNCHANGED <<head, coins, lost>>

Lose ==
  /\ Faults /\ goal # None /\ goal \in Path[head]
  /\ lost' = TRUE /\ goal' = None
  /\ UNCHANGED <<head, coins>>

Astray == lost /\ lost'

Next ==
  \/ \E g, b \in Block : Connect(g, b)
  \/ \E g \in Block : Disconnect(g) \/ Recall(g)
  \/ Rest \/ Lose \/ Astray

Spec == Init /\ [][Next]_vars
==============================================================================
