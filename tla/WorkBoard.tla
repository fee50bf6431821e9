------------------------------ MODULE WorkBoard ------------------------------
(***************************************************************************)
(* What the mining officer promises about the work it hands out, whatever  *)
(* the rovers, the tip and the processes that mine do meanwhile.  A work   *)
(* is on offer from the moment it is handed out; it is published at most   *)
(* once and as it was handed out, and nothing withdraws it but its own     *)
(* publication, or newer work while it is the oldest of a full board.      *)
(***************************************************************************)
EXTENDS Naturals, Sequences, FiniteSets

CONSTANTS
  Work,      \* the blocks that may be handed out as work
  MaxListed  \* works on offer at the same time

VARIABLES
  handed,    \* the works handed out, the number of each being its id
  offered,   \* the ids that are on offer
  published  \* the ids that were published, with their blocks

vars == <<handed, offered, published>>

Init == handed = <<>> /\ offered = {} /\ published = <<>>

Oldest(id) == id \in offered /\ \A other \in offered : id <= other

HandOut(work) ==
  LET id == Len(handed) + 1 IN
  /\ handed' = Append(handed, work)
  /\ \/ Cardinality(offered) < MaxListed /\ offered' = offered \cup {id}
     \/ /\ Cardinality(offered) = MaxListed
        /\ \E old \in offered : Oldest(old) /\ offered' = (offered \ {old}) \cup {id}
  /\ UNCHANGED published

Publish(id) ==
  /\ id \in offered
  /\ published' = Append(published, [work |-> id, block |-> handed[id]])
  /\ offered' = offered \ {id}
  /\ UNCHANGED handed

(***************************************************************************)
(* The two guards change nothing; they spare TLC the search for a witness. *)
(***************************************************************************)
Next ==
  \/ handed' # handed /\ \E work \in Work : HandOut(work)
  \/ published' # published /\ \E id \in offered : Publish(id)

Spec == Init /\ [][Next]_vars
==============================================================================
