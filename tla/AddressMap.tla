----------------------------- MODULE AddressMap -----------------------------
(***************************************************************************)
(* What a DiscoveryService promises to the load balancers of the map that  *)
(* getIp returns: one refresh at a time empties it and adds keys.          *)
(***************************************************************************)
EXTENDS Naturals

CONSTANT MaxKeys
ASSUME KeysAssumption == MaxKeys \in Nat

VARIABLES
  keys,       \* how many keys the map has
  refreshing  \* is a refresh under way?

EmptyMap == keys = 0 /\ refreshing = FALSE

Begin == ~refreshing /\ refreshing' = TRUE /\ keys' = 0
Add == refreshing /\ keys < MaxKeys /\ keys' = keys + 1 /\ UNCHANGED refreshing
End == refreshing /\ refreshing' = FALSE /\ UNCHANGED keys

Refresh == Begin \/ Add \/ End
MapSpec == EmptyMap /\ [][Refresh]_<<keys, refreshing>>
=============================================================================
