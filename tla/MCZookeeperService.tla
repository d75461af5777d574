------------------------- MODULE MCZookeeperService -------------------------
(* Two callers and two servers that come and go.                           *)
EXTENDS ZookeeperService

CONSTANTS c1, c2, s1, s2, a1, a2  \* model values
=============================================================================
