---------------------------- MODULE TipRegister -----------------------------
(***************************************************************************)
(* What the node promises about the tip of its chain, whatever handlers    *)
(* bring it about: the tip moves to a child of itself at any time, it      *)
(* moves to another branch only while no other sync holds the lock, and    *)
(* neither move lowers the total distance.                                 *)
(***************************************************************************)
EXTENDS Blocks

VARIABLES
  tip,    \* the tip of the chain
  lock,   \* the block whose sync is in progress, genesis when there is none
  now,    \* the clock
  epoch   \* how often the node has started again

vars == <<tip, lock, now, epoch>>

Init == tip = Genesis /\ lock = Genesis /\ now = 0 /\ epoch = 0

Heavier(b) == Distance(b) >= Distance(tip)

Advance(b) == /\ Prev(b) = tip /\ Heavier(b)
              /\ tip' = b
              /\ UNCHANGED <<lock, now, epoch>>

BeginSync(b) == /\ LockOpen(lock) /\ Heavier(b)
                /\ lock' = b
                /\ UNCHANGED <<tip, now, epoch>>

Graft(b) == /\ LockOpen(lock) \/ lock = b
            /\ Heavier(b)
            /\ tip' = b
            /\ UNCHANGED <<lock, now, epoch>>

Expire == /\ LockStale(lock, now)
          /\ lock' = Genesis
          /\ UNCHANGED <<tip, now, epoch>>

Recover == /\ lock' = Genesis /\ epoch' = epoch + 1
           /\ UNCHANGED <<tip, now>>

Tick == now' = now + 1 /\ UNCHANGED <<tip, lock, epoch>>

Next == \/ \E b \in Block : Advance(b) \/ BeginSync(b) \/ Graft(b)
        \/ Expire \/ Recover \/ Tick

Spec == Init /\ [][Next]_vars
=============================================================================
