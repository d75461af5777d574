----------------------------- MODULE PollRibbon -----------------------------
(***************************************************************************)
(* The choice of a server's address: DiscoveryService.getServiceAddress    *)
(* for one service, and PollRibbon.getIpAddress, called by several threads *)
(* while the map of addresses is refreshed.  What the map does is          *)
(* AddressMap's; ZookeeperService is shown to implement that.              *)
(*                                                                         *)
(* Neither the keys of the map nor the field pos are read under a lock     *)
(* that excludes their writers, so every access is a step of its own.      *)
(* synchronized (pos) locks the Integer that pos refers to: Integers this  *)
(* small are shared objects, so equal values are one monitor, also for two *)
(* ribbons, and each new value of pos is another monitor.                  *)
(***************************************************************************)
EXTENDS AddressMap, FiniteSets

CONSTANTS
  Clients,
  Nobody,
  MaxPos   \* bound: no call begins on a ribbon whose pos is MaxPos, or
           \* while a pos++ has read MaxPos

ASSUME RibbonAssumption ==
  /\ IsFiniteSet(Clients) /\ Nobody \notin Clients
  /\ MaxPos \in Nat /\ MaxPos > MaxKeys

(* Calls that overlap can raise pos without end, each adding to what the   *)
(* other has stored over its reset: hence the bound.                       *)
Positions == 0..(MaxPos + Cardinality(Clients))

VARIABLES
  robin,   \* SERVICE_ADDRESS_ROBIN: a ribbon is named after its creator
  pos,     \* PollRibbon.pos of each ribbon
  held,    \* held[i]: the thread that owns the monitor of the Integer i
  at,      \* where a caller is
  ribbon,  \* ribbon[c]: the ribbon that c uses
  iplist,  \* iplist[c]: how many keys c has copied
  lock,    \* lock[c]: the Integer that c synchronizes on
  old,     \* old[c]: what c's pos++ has read
  alone    \* alone[c]: has no other thread moved since c's call began?

map == <<keys, refreshing>>
ribbonVars == <<map, robin, pos, held, at, ribbon, iplist, lock, old, alone>>

RibbonInit ==
  /\ EmptyMap
  /\ robin = Nobody
  /\ pos = [c \in Clients |-> 0]
  /\ held = [i \in Positions |-> Nobody]
  /\ at = [c \in Clients |-> "idle"]
  /\ ribbon = [c \in Clients |-> Nobody]
  /\ iplist = [c \in Clients |-> 0]
  /\ lock = [c \in Clients |-> 0]
  /\ old = [c \in Clients |-> 0]
  /\ alone = [c \in Clients |-> FALSE]

Position(c) == pos[ribbon[c]]

(* Thread t moves, to l: every other call has been overlapped.             *)
Overlap(t) == alone' = [c \in Clients |-> c = t /\ alone[c]]
Proceed(c, l) == at' = [at EXCEPT ![c] = l] /\ Overlap(c)

(* The call ends, with an address or an exception; its locals go.          *)
Return(c) ==
  /\ at' = [at EXCEPT ![c] = "idle"]
  /\ ribbon' = [ribbon EXCEPT ![c] = Nobody]
  /\ iplist' = [iplist EXCEPT ![c] = 0]
  /\ lock' = [lock EXCEPT ![c] = 0]
  /\ old' = [old EXCEPT ![c] = 0]

(* The discovery service refreshes its map.                                *)
RefreshMap ==
  /\ Refresh
  /\ Overlap(Nobody)
  /\ UNCHANGED <<robin, pos, held, at, ribbon, iplist, lock, old>>

-----------------------------------------------------------------------------
(* getServiceAddress: the ribbon of the service is looked up,              *)
Call(c) ==
  /\ at[c] = "idle"
  /\ robin # Nobody => pos[robin] < MaxPos
  /\ \A d \in Clients : old[d] < MaxPos
  /\ ribbon' = [ribbon EXCEPT ![c] = robin]
  /\ at' = [at EXCEPT ![c] = IF robin = Nobody THEN "create" ELSE "copy"]
  /\ alone' = [d \in Clients |-> d = c]
  /\ UNCHANGED <<map, robin, pos, held, iplist, lock, old>>

(* and put, if it was missing, over what another caller may have put.      *)
PutRibbon(c) ==
  /\ at[c] = "create"
  /\ ribbon' = [ribbon EXCEPT ![c] = c]
  /\ robin' = c
  /\ Proceed(c, "copy")
  /\ UNCHANGED <<map, pos, held, iplist, lock, old>>

(* getIp throws.                                                           *)
NoMap(c) ==
  /\ at[c] = "copy"
  /\ Return(c) /\ Overlap(c)
  /\ UNCHANGED <<map, robin, pos, held>>

(* iplist.addAll(ipset): the copy is what the map holds when the iterator  *)
(* is made,                                                                *)
CopyKeys(c) ==
  /\ at[c] = "copy"
  /\ iplist' = [iplist EXCEPT ![c] = keys]
  /\ Proceed(c, "sync")
  /\ UNCHANGED <<map, robin, pos, held, ribbon, lock, old>>

(* unless the map changes before the iterator has returned its last key:   *)
(* it throws a ConcurrentModificationException.                            *)
CopyFails(c) ==
  /\ at[c] = "copy" /\ keys > 0
  /\ Refresh /\ keys' # keys
  /\ Return(c) /\ Overlap(Nobody)
  /\ UNCHANGED <<robin, pos, held>>

(* synchronized (pos): the Integer is read, and its monitor entered later. *)
ReadLock(c) ==
  /\ at[c] = "sync"
  /\ lock' = [lock EXCEPT ![c] = Position(c)]
  /\ Proceed(c, "enter")
  /\ UNCHANGED <<map, robin, pos, held, ribbon, iplist, old>>

Enter(c) ==
  /\ at[c] = "enter" /\ held[lock[c]] = Nobody
  /\ held' = [held EXCEPT ![lock[c]] = c]
  /\ Proceed(c, "check")
  /\ UNCHANGED <<map, robin, pos, ribbon, iplist, lock, old>>

(* Mutant: > for >=.                                                       *)
CheckOffByOne(c) ==
  /\ at[c] = "check"
  /\ Proceed(c, IF Position(c) > keys THEN "reset" ELSE "get")
  /\ UNCHANGED <<map, robin, pos, held, ribbon, iplist, lock, old>>

(* pos >= ipset.size() compares with the live map, not with the copy.      *)
Check(c) ==
  /\ at[c] = "check"
  /\ Proceed(c, IF Position(c) >= keys THEN "reset" ELSE "get")
  /\ UNCHANGED <<map, robin, pos, held, ribbon, iplist, lock, old>>

Reset(c) ==
  /\ at[c] = "reset"
  /\ pos' = [pos EXCEPT ![ribbon[c]] = 0]
  /\ Proceed(c, "get")
  /\ UNCHANGED <<map, robin, held, ribbon, iplist, lock, old>>

(* Mutant: an exception in the block leaves the monitor held.              *)
ReleaseNormally(c) ==
  held' = IF at[c] = "get" THEN held ELSE [held EXCEPT ![lock[c]] = Nobody]

Release(c) == held' = [held EXCEPT ![lock[c]] = Nobody]

(* iplist.get(pos): an address, or an IndexOutOfBoundsException that       *)
(* leaves the block.                                                       *)
Get(c) ==
  /\ at[c] = "get"
  /\ \/ /\ Position(c) < iplist[c]
        /\ Proceed(c, "increment")
        /\ UNCHANGED <<held, ribbon, iplist, lock, old>>
     \/ /\ Position(c) >= iplist[c]
        /\ Return(c) /\ Overlap(c)
        /\ Release(c)
  /\ UNCHANGED <<map, robin, pos>>

(* pos++ reads the field and writes it.                                    *)
Increment(c) ==
  /\ at[c] = "increment"
  /\ old' = [old EXCEPT ![c] = Position(c)]
  /\ Proceed(c, "store")
  /\ UNCHANGED <<map, robin, pos, held, ribbon, iplist, lock>>

Store(c) ==
  /\ at[c] = "store"
  /\ pos' = [pos EXCEPT ![ribbon[c]] = old[c] + 1]
  /\ Release(c)
  /\ Return(c) /\ Overlap(c)
  /\ UNCHANGED <<map, robin>>

-----------------------------------------------------------------------------
Caller(c) ==
  \/ PutRibbon(c) \/ NoMap(c) \/ CopyKeys(c) \/ CopyFails(c)
  \/ ReadLock(c) \/ Enter(c) \/ Check(c) \/ Reset(c)
  \/ Get(c) \/ Increment(c) \/ Store(c)

RibbonNext == RefreshMap \/ \E c \in Clients : Call(c) \/ Caller(c)

RibbonSpec == RibbonInit /\ [][RibbonNext]_ribbonVars

-----------------------------------------------------------------------------
Block == {"check", "reset", "get", "increment", "store"}

(* The fields of the ribbon and the locals of the callers hold what their  *)
(* declarations say, and a monitor belongs to a caller that is in the      *)
(* synchronized block and entered it through that Integer.                 *)
RibbonTypeOK ==
  /\ keys \in 0..MaxKeys /\ refreshing \in BOOLEAN
  /\ robin \in Clients \cup {Nobody}
  /\ pos \in [Clients -> Positions]
  /\ held \in [Positions -> Clients \cup {Nobody}]
  /\ at \in [Clients -> {"idle", "create", "copy", "sync", "enter", "check",
                         "reset", "get", "increment", "store"}]
  /\ ribbon \in [Clients -> Clients \cup {Nobody}]
  /\ iplist \in [Clients -> 0..MaxKeys]
  /\ lock \in [Clients -> Positions] /\ old \in [Clients -> Positions]
  /\ alone \in [Clients -> BOOLEAN]
  /\ \A i \in Positions, c \in Clients :
       held[i] = c => lock[c] = i /\ at[c] \in Block

(* A call that no other thread overlaps finds an index within its list,    *)
(* wherever earlier calls and refreshes left pos and whoever is suspended  *)
(* in the block, unless no server is known (PollRibbon.getIpAddress).      *)
LoneCallSucceeds ==
  \A c \in Clients :
    at[c] = "get" /\ alone[c] /\ iplist[c] > 0 => Position(c) < iplist[c]
=============================================================================
