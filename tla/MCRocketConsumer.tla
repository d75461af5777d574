-------------------------- MODULE MCRocketConsumer --------------------------
(* Two client threads.  More messages than the binder's queue, its loop    *)
(* and a thread that waits can hold.                                       *)
EXTENDS RocketConsumer

CONSTANTS t1, t2  \* model values

FourOrThree == [x \in Modes |-> IF x = "stream" THEN 4 ELSE 3]
=============================================================================
