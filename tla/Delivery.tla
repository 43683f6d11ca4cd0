------------------------------ MODULE Delivery ------------------------------
(***************************************************************************)
(* What a session of the pipeline promises about points, whatever its      *)
(* threads do: points are made in one order, wait in that order, and are   *)
(* settled from the front, a batch of at most BatchSize at a time, each    *)
(* batch written whole or given up whole.  Nothing is settled twice.       *)
(***************************************************************************)
EXTENDS Points

CONSTANT BatchSize

VARIABLES
  pending,   \* points made and not yet settled
  stored,    \* points InfluxDB has, in the order they were written
  frontier   \* no point up to this one is made any more

delivery == <<pending, stored, frontier>>

Init == pending = <<>> /\ stored = <<>> /\ frontier = <<0, 0>>

Advance == frontier' \in Point /\ Before(frontier, frontier')

Accept == /\ Advance
          /\ pending' = Append(pending, frontier')
          /\ UNCHANGED stored

\* A message is begun: what was left of the one before is never made.
Skip == Advance /\ UNCHANGED <<pending, stored>>

Settle(n) ==
  /\ pending' = SubSeq(pending, n + 1, Len(pending))
  /\ \/ stored' = stored \o SubSeq(pending, 1, n)
     \/ UNCHANGED stored
  /\ UNCHANGED frontier

Next == \/ Accept
        \/ Skip
        \/ \E n \in 1..BatchSize : n <= Len(pending) /\ Settle(n)

Spec == Init /\ [][Next]_delivery

\* No point is stored twice, and points are stored in the order they were made.
AtMostOnceInOrder == Increasing(stored \o pending)
=============================================================================
