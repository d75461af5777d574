----------------------------- MODULE MCNettyRpc -----------------------------
(* One caller that calls a second time, and one that calls once.           *)
EXTENDS NettyRpc, TLC

CONSTANTS c1, c2  \* model values

TwoCallers == {c1, c2}
TwiceAndOnce == c1 :> 2 @@ c2 :> 1
OnceEach == c1 :> 1 @@ c2 :> 1
=============================================================================
