--------------------------- MODULE MCShiroSession ---------------------------
(* Instances of ShiroSession: nodes and requests are model values.           *)
EXTENDS ShiroSession, TLC

CONSTANTS n1, n2, r1, r2  \* model values

TwoNodes == {n1, n2}
TwoRequests == {r1, r2}
NoAttribute == {}
OneAttribute == {"a"}

(* Nodes and requests are interchangeable.                                 *)
Symmetry == Permutations(TwoNodes) \cup Permutations(TwoRequests)

(* Durable and BoundedStaleness say nothing of what follows a disturbance. *)
Undisturbed == ~disturbed

(* The state without the histories that only they look at.                 *)
CodeState == <<redis, heap, cached, age, pc, node, object, created>>
=============================================================================
