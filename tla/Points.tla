------------------------------- MODULE Points -------------------------------
(* The points of a session and the order in which the parser makes them.   *)
EXTENDS Naturals, Sequences

\* The parser appends to its queue one Line after another: a point is
\* identified by its message and its position among that message's lines.
Point == Nat \X Nat

\* By message first, messages being numbered as they arrive.
Before(p, q) == \/ p[1] < q[1]
                \/ p[1] = q[1] /\ p[2] < q[2]

\* A sequence of points in that order has none of them twice.
Increasing(s) == \A i, j \in 1..Len(s) : i < j => Before(s[i], s[j])
=============================================================================
