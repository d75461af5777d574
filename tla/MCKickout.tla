----------------------------- MODULE MCKickout -----------------------------
(* Two nodes, three sessions and two requests at a time; two sessions once *)
(* requests have overlapped or a copy has run out under a request.         *)
EXTENDS Kickout

CONSTANTS n1, n2, s1, s2, s3, t1, t2  \* model values

TwoNodes == {n1, n2}
ThreeSessions == {s1, s2, s3}
TwoThreads == {t1, t2}

SessionsIfDisturbed == 2
Bound ==
  disturbed => Cardinality({s \in Sessions : redis[s] # "new"}) <= SessionsIfDisturbed

Symmetry ==
  Permutations(TwoNodes) \cup Permutations(ThreeSessions) \cup Permutations(TwoThreads)
=============================================================================
