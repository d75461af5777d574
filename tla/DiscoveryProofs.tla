--------------------------- MODULE DiscoveryProofs ---------------------------
(***************************************************************************)
(* The two parts of discovery.  For any number of callers, services,       *)
(* servers and registrations: the map that getIp returns is refreshed by   *)
(* one thread at a time, and the watchers of the event thread miss no      *)
(* change of a service's nodes.  For any number of callers and of servers: *)
(* the monitors and the indices of PollRibbon, which stands on AddressMap, *)
(* and what a call that is not overlapped gets.                            *)
(***************************************************************************)
EXTENDS ZookeeperService, PollRibbon, SequenceTheorems, FiniteSetTheorems, TLAPS

-----------------------------------------------------------------------------
(* PollRibbon.                                                             *)

Bound == MaxPos + Cardinality(Clients)
Labels == {"idle", "create", "copy", "sync", "enter", "check", "reset", "get", "increment", "store"}

(* The calls that use ribbon r.                                             *)
Users(r) == {c \in Clients : ribbon[c] = r}

(* The types, in parts: the map, the fields and locals, the monitors.       *)
MapType == keys \in 0..MaxKeys /\ refreshing \in BOOLEAN

Locals ==
  /\ robin \in Clients \cup {Nobody}
  /\ at \in [Clients -> Labels]
  /\ ribbon \in [Clients -> Clients \cup {Nobody}]
  /\ iplist \in [Clients -> 0..MaxKeys]

Indices ==
  /\ pos \in [Clients -> Positions]
  /\ lock \in [Clients -> Positions] /\ old \in [Clients -> Positions]

Monitors ==
  /\ held \in [Positions -> Clients \cup {Nobody}]
  /\ \A i \in Positions, c \in Clients : held[i] = c => lock[c] = i /\ at[c] \in Block

(* Whoever works on a ribbon has one.                                       *)
HasRibbon == \A c \in Clients : at[c] \notin {"idle", "create"} <=> ribbon[c] # Nobody

(* A ribbon is used only once it has been put.                              *)
Created ==
  /\ robin = Nobody => \A c \in Clients : at[c] \in {"idle", "create"} /\ pos[c] = 0
  /\ \A c \in Clients : at[c] = "create" =>
        pos[c] = 0 /\ robin # c /\ \A d \in Clients : ribbon[d] # c

(* Each call adds one at most, to what pos is or to what its pos++ has      *)
(* read: there is room for that.                                            *)
Room ==
  /\ \A c \in Clients : at[c] # "store" => old[c] = 0
  /\ \A r \in Clients : pos[r] + Cardinality(Users(r)) <= Bound
  /\ \A r \in Clients : \A c \in Users(r) : old[c] + Cardinality(Users(r)) <= Bound

(* While nobody else moves the copy is the map, and pos stays checked.      *)
Lone ==
  \A c \in Clients : alone[c] =>
    /\ at[c] \in {"sync", "enter", "check", "reset", "get"} => iplist[c] = keys
    /\ at[c] = "get" /\ iplist[c] > 0 => Position(c) < iplist[c]

Types == MapType /\ Locals /\ Indices /\ Monitors /\ alone \in [Clients -> BOOLEAN]
RibbonIInv == Types /\ HasRibbon /\ Created /\ Room /\ Lone

-----------------------------------------------------------------------------
(* The facts about the constants that the proofs use.                      *)
LEMMA Sizes ==
  /\ IsFiniteSet(Clients) /\ Cardinality(Clients) \in Nat
  /\ MaxPos \in Nat /\ MaxKeys \in Nat /\ Bound \in Nat /\ Positions = 0..Bound
  /\ Nobody \notin Clients
BY RibbonAssumption, KeysAssumption, FS_CardinalityType DEF Bound, Positions

(* Counting callers.                                                       *)
LEMMA UserCount ==
  ASSUME NEW S \in SUBSET Clients
  PROVE  /\ IsFiniteSet(S) /\ Cardinality(S) \in Nat /\ Cardinality(S) <= Cardinality(Clients)
         /\ \A c \in S : Cardinality(S \ {c}) = Cardinality(S) - 1
         /\ \A T \in SUBSET S : Cardinality(T) <= Cardinality(S) /\ Cardinality(T) \in Nat
<1>1. /\ IsFiniteSet(S) /\ Cardinality(S) <= Cardinality(Clients)
  BY Sizes, FS_Subset
<1>2. Cardinality(S) \in Nat
  BY <1>1, FS_CardinalityType
<1>3. \A c \in S : Cardinality(S \ {c}) = Cardinality(S) - 1
  BY <1>1, FS_RemoveElement
<1>4. \A T \in SUBSET S : Cardinality(T) <= Cardinality(S) /\ Cardinality(T) \in Nat
  BY <1>1, FS_Subset, FS_CardinalityType
<1>5. QED
  BY <1>1, <1>2, <1>3, <1>4

(* Refreshes keep the size of the map within its bound.                    *)
LEMMA RibbonMapStep == MapType /\ [RibbonNext]_ribbonVars => MapType'
<1>1. SUFFICES ASSUME MapType, [RibbonNext]_ribbonVars PROVE MapType'
  OBVIOUS
<1>2. Refresh \/ UNCHANGED map
  BY <1>1 DEF RibbonNext, Caller, RefreshMap, Call, PutRibbon, NoMap, CopyKeys, CopyFails, ReadLock, Enter, Check, Reset,
             Get, Increment, Store, ribbonVars
<1>3. keys' \in 0..MaxKeys
  BY <1>1, <1>2, Sizes DEF MapType, Refresh, Begin, Add, End, map
<1>4. refreshing' \in BOOLEAN
  <2>1. refreshing' = refreshing \/ refreshing' = TRUE \/ refreshing' = FALSE
    BY <1>2, Zenon DEF Refresh, Begin, Add, End, map
  <2>2. refreshing \in BOOLEAN
    BY <1>1 DEF MapType
  <2>3. QED
    BY <2>1, <2>2, Zenon
<1>5. QED
  BY <1>3, <1>4 DEF MapType

(* A caller's locals.                                                      *)
LEMMA LocalsStep ==
  ASSUME MapType, Locals, [RibbonNext]_ribbonVars
  PROVE  Locals'
<1>1. /\ robin \in Clients \cup {Nobody} /\ at \in [Clients -> Labels]
      /\ ribbon \in [Clients -> Clients \cup {Nobody}] /\ iplist \in [Clients -> 0..MaxKeys]
      /\ keys \in 0..MaxKeys /\ 0 \in 0..MaxKeys
  BY Sizes DEF Locals, MapType
<1>2. ASSUME NEW c \in Clients, Return(c), UNCHANGED robin PROVE Locals'
  <2>1. at' \in [Clients -> Labels]
    BY <1>1, <1>2 DEF Return, Labels
  <2>2. ribbon' \in [Clients -> Clients \cup {Nobody}] /\ iplist' \in [Clients -> 0..MaxKeys]
    BY <1>1, <1>2 DEF Return
  <2>3. QED
    BY <1>1, <1>2, <2>1, <2>2 DEF Locals
<1>3. ASSUME NEW c \in Clients, NEW l \in Labels, Proceed(c, l), UNCHANGED <<robin, ribbon, iplist>> PROVE Locals'
  BY <1>1, <1>3 DEF Proceed, Locals
<1>4. ASSUME UNCHANGED <<robin, at, ribbon, iplist>> PROVE Locals'
  BY <1>1, <1>4 DEF Locals
<1>5. ASSUME NEW c \in Clients, Call(c) PROVE Locals'
  <2>1. at' \in [Clients -> Labels]
    BY <1>1, <1>5 DEF Call, Labels
  <2>2. ribbon' \in [Clients -> Clients \cup {Nobody}]
    BY <1>1, <1>5 DEF Call
  <2>3. QED
    BY <1>1, <1>5, <2>1, <2>2 DEF Call, Locals
<1>6. ASSUME NEW c \in Clients, PutRibbon(c) PROVE Locals'
  <2>1. at' \in [Clients -> Labels]
    BY <1>1, <1>6 DEF PutRibbon, Proceed, Labels
  <2>2. ribbon' \in [Clients -> Clients \cup {Nobody}]
    BY <1>1, <1>6 DEF PutRibbon
  <2>3. QED
    BY <1>1, <1>6, <2>1, <2>2 DEF PutRibbon, Locals
<1>7. ASSUME NEW c \in Clients, CopyKeys(c) PROVE Locals'
  <2>1. at' \in [Clients -> Labels]
    BY <1>1, <1>7 DEF CopyKeys, Proceed, Labels
  <2>2. iplist' \in [Clients -> 0..MaxKeys]
    BY <1>1, <1>7 DEF CopyKeys
  <2>3. QED
    BY <1>1, <1>7, <2>1, <2>2 DEF CopyKeys, Locals
<1>8. ASSUME NEW c \in Clients, NoMap(c) \/ CopyFails(c) \/ Store(c) PROVE Locals'
  BY <1>2, <1>8 DEF NoMap, CopyFails, Store
<1>9. ASSUME NEW c \in Clients, ReadLock(c) \/ Enter(c) \/ Reset(c) \/ Increment(c) PROVE Locals'
  BY <1>3, <1>9 DEF ReadLock, Enter, Reset, Increment, Labels
<1>10. ASSUME NEW c \in Clients, Check(c) PROVE Locals'
  BY <1>3, <1>10 DEF Check, Labels
<1>11. ASSUME NEW c \in Clients, Get(c) PROVE Locals'
  BY <1>2, <1>3, <1>11 DEF Get, Labels
<1>12. CASE RefreshMap \/ UNCHANGED ribbonVars
  BY <1>4, <1>12 DEF RefreshMap, ribbonVars
<1>13. QED
  BY <1>5, <1>6, <1>7, <1>8, <1>9, <1>10, <1>11, <1>12 DEF RibbonNext, Caller

(* Who is past the lookup has a ribbon.                                    *)
LEMMA HasRibbonStep ==
  ASSUME Locals, HasRibbon, [RibbonNext]_ribbonVars
  PROVE  HasRibbon'
<1>1. /\ robin \in Clients \cup {Nobody} /\ at \in [Clients -> Labels]
      /\ ribbon \in [Clients -> Clients \cup {Nobody}] /\ Nobody \notin Clients
  BY Sizes DEF Locals
<1>2. ASSUME NEW c \in Clients, Return(c) PROVE HasRibbon'
  BY <1>1, <1>2 DEF Return, HasRibbon
<1>3. ASSUME NEW c \in Clients, NEW l, Proceed(c, l), l \notin {"idle", "create"},
             at[c] \notin {"idle", "create"}, UNCHANGED ribbon
      PROVE HasRibbon'
  BY <1>1, <1>3 DEF Proceed, HasRibbon
<1>4. ASSUME NEW c \in Clients, Call(c) PROVE HasRibbon'
  BY <1>1, <1>4 DEF Call, HasRibbon
<1>5. ASSUME NEW c \in Clients, PutRibbon(c) PROVE HasRibbon'
  BY <1>1, <1>5 DEF PutRibbon, Proceed, HasRibbon
<1>6. ASSUME NEW c \in Clients, NoMap(c) \/ CopyFails(c) \/ Store(c) PROVE HasRibbon'
  BY <1>2, <1>6 DEF NoMap, CopyFails, Store
<1>7. ASSUME NEW c \in Clients, CopyKeys(c) \/ ReadLock(c) \/ Enter(c) \/ Reset(c) \/ Increment(c) PROVE HasRibbon'
  BY <1>3, <1>7 DEF CopyKeys, ReadLock, Enter, Reset, Increment
<1>8. ASSUME NEW c \in Clients, Check(c) PROVE HasRibbon'
  BY <1>3, <1>8 DEF Check
<1>9. ASSUME NEW c \in Clients, Get(c) PROVE HasRibbon'
  BY <1>2, <1>3, <1>9 DEF Get
<1>10. CASE RefreshMap \/ UNCHANGED ribbonVars
  BY <1>10 DEF RefreshMap, ribbonVars, HasRibbon
<1>11. QED
  BY <1>4, <1>5, <1>6, <1>7, <1>8, <1>9, <1>10 DEF RibbonNext, Caller

(* A ribbon is used, and its pos moves, only once it has been put.         *)
LEMMA CreatedStep ==
  ASSUME Locals, pos \in [Clients -> Positions], HasRibbon, Created, [RibbonNext]_ribbonVars
  PROVE  Created'
<1>1. /\ robin \in Clients \cup {Nobody} /\ at \in [Clients -> Labels] /\ pos \in [Clients -> Positions]
      /\ ribbon \in [Clients -> Clients \cup {Nobody}] /\ Nobody \notin Clients
  BY Sizes DEF Locals
<1>2. ASSUME NEW c \in Clients, Return(c), UNCHANGED <<robin, pos>> PROVE Created'
  BY <1>1, <1>2 DEF Return, Created
<1>3. ASSUME NEW c \in Clients, NEW l, Proceed(c, l), l \notin {"idle", "create"},
             at[c] \notin {"idle", "create"}, UNCHANGED <<ribbon, robin, pos>>
      PROVE Created'
  BY <1>1, <1>3 DEF Proceed, Created
<1>4. ASSUME NEW c \in Clients, Call(c) PROVE Created'
  <2>1. CASE robin = Nobody
    BY <1>1, <1>4, <2>1 DEF Call, Created, HasRibbon
  <2>2. CASE robin # Nobody
    BY <1>1, <1>4, <2>2 DEF Call, Created
  <2>3. QED
    BY <2>1, <2>2
<1>5. ASSUME NEW c \in Clients, PutRibbon(c) PROVE Created'
  BY <1>1, <1>5 DEF PutRibbon, Proceed, Created
<1>6. ASSUME NEW c \in Clients, NoMap(c) \/ CopyFails(c) PROVE Created'
  BY <1>2, <1>6 DEF NoMap, CopyFails
<1>7. ASSUME NEW c \in Clients, CopyKeys(c) \/ ReadLock(c) \/ Enter(c) \/ Increment(c) PROVE Created'
  BY <1>3, <1>7 DEF CopyKeys, ReadLock, Enter, Increment
<1>8. ASSUME NEW c \in Clients, Check(c) PROVE Created'
  BY <1>3, <1>8 DEF Check
<1>9. ASSUME NEW c \in Clients, Get(c) PROVE Created'
  BY <1>2, <1>3, <1>9 DEF Get
<1>10. ASSUME NEW c \in Clients, Reset(c) \/ Store(c) PROVE Created'
  <2>1. /\ at[c] \notin {"idle", "create"} /\ UNCHANGED robin /\ robin # Nobody
        /\ \A d \in Clients : d # c => at'[d] = at[d] /\ ribbon'[d] = ribbon[d]
        /\ at'[c] # "create" /\ ribbon'[c] \in {Nobody, ribbon[c]}
        /\ \A d \in Clients : d # ribbon[c] => pos'[d] = pos[d]
    BY <1>1, <1>10 DEF Reset, Store, Return, Proceed, Created
  <2>2. QED
    BY <1>1, <2>1 DEF Created
<1>11. CASE RefreshMap \/ UNCHANGED ribbonVars
  BY <1>11 DEF RefreshMap, ribbonVars, Created
<1>12. QED
  BY <1>4, <1>5, <1>6, <1>7, <1>8, <1>9, <1>10, <1>11 DEF RibbonNext, Caller

(* With room for every call the positions stay within the bound.            *)
LEMMA IndicesFit ==
  ASSUME Room, pos \in [Clients -> Nat], old \in [Clients -> Nat], HasRibbon, Locals
  PROVE  pos \in [Clients -> Positions] /\ old \in [Clients -> Positions]
<1>1. \A r \in Clients : Cardinality(Users(r)) \in Nat
  BY UserCount DEF Users
<1>2. ASSUME NEW c \in Clients PROVE pos[c] \in Positions
  <2>1. pos[c] + Cardinality(Users(c)) <= Bound /\ pos[c] \in Nat
    BY DEF Room
  <2>2. QED
    BY <1>1, <2>1, Sizes
<1>3. ASSUME NEW c \in Clients PROVE old[c] \in Positions
  <2>1. CASE at[c] = "store"
    <3>1. ribbon[c] \in Clients
      BY <2>1 DEF HasRibbon, Locals
    <3>2. c \in Users(ribbon[c])
      BY DEF Users
    <3>3. old[c] + Cardinality(Users(ribbon[c])) <= Bound /\ old[c] \in Nat
      BY <3>1, <3>2 DEF Room
    <3>4. QED
      BY <1>1, <3>1, <3>3, Sizes
  <2>2. CASE at[c] # "store"
    BY <2>2, Sizes DEF Room
  <2>3. QED
    BY <2>1, <2>2
<1>4. QED
  BY <1>2, <1>3

(* A call begins below MaxPos and adds one user, who increments pos once:  *)
(* there is always room.                                                   *)
LEMMA RoomStep ==
  ASSUME Locals, Indices, HasRibbon, Created, Room, [RibbonNext]_ribbonVars
  PROVE  Room' /\ pos' \in [Clients -> Nat] /\ old' \in [Clients -> Nat]
<1>1. /\ robin \in Clients \cup {Nobody} /\ at \in [Clients -> Labels]
      /\ ribbon \in [Clients -> Clients \cup {Nobody}] /\ Nobody \notin Clients
      /\ pos \in [Clients -> Nat] /\ old \in [Clients -> Nat]
      /\ MaxPos \in Nat /\ Bound \in Nat /\ Cardinality(Clients) \in Nat
  BY Sizes DEF Locals, Indices
<1>2. \A r \in Clients : Users(r) \in SUBSET Clients /\ Cardinality(Users(r)) \in Nat
  BY UserCount DEF Users
<1>3. /\ \A c \in Clients : at[c] # "store" => old[c] = 0
      /\ \A r \in Clients : pos[r] + Cardinality(Users(r)) <= Bound
      /\ \A r \in Clients : \A c \in Users(r) : old[c] + Cardinality(Users(r)) <= Bound
  BY DEF Room
<1> DEFINE Goal == Room' /\ pos' \in [Clients -> Nat] /\ old' \in [Clients -> Nat]
(* The users only leave, and nothing is raised.                             *)
<1>4. ASSUME pos' \in [Clients -> Nat], old' \in [Clients -> Nat],
             \A r \in Clients : pos'[r] <= pos[r],
             \A c \in Clients : old'[c] <= old[c] /\ (at'[c] # "store" => old'[c] = 0),
             \A c \in Clients : ribbon'[c] \in {Nobody, ribbon[c]}
      PROVE  Goal
  <2>1. ASSUME NEW r \in Clients
        PROVE /\ Users(r)' \subseteq Users(r) /\ Cardinality(Users(r)') \in Nat
              /\ Cardinality(Users(r)') <= Cardinality(Users(r))
    <3>1. Users(r)' \subseteq Users(r)
      BY <1>1, <1>4 DEF Users
    <3>2. QED
      BY <1>2, <3>1, UserCount
  <2>2. \A r \in Clients : pos'[r] + Cardinality(Users(r)') <= Bound
    <3>1. ASSUME NEW r \in Clients PROVE pos'[r] + Cardinality(Users(r)') <= Bound
      <4>1. /\ pos'[r] \in Nat /\ pos[r] \in Nat /\ pos'[r] <= pos[r]
            /\ pos[r] + Cardinality(Users(r)) <= Bound
        BY <1>1, <1>3, <1>4
      <4>2. QED
        BY <1>1, <1>2, <2>1, <4>1
    <3>2. QED
      BY <3>1
  <2>3. \A r \in Clients : \A c \in Users(r)' : old'[c] + Cardinality(Users(r)') <= Bound
    <3>1. ASSUME NEW r \in Clients, NEW c \in Users(r)' PROVE old'[c] + Cardinality(Users(r)') <= Bound
      <4>1. c \in Users(r) /\ c \in Clients
        BY <2>1, <3>1 DEF Users
      <4>2. /\ old'[c] \in Nat /\ old[c] \in Nat /\ old'[c] <= old[c]
            /\ old[c] + Cardinality(Users(r)) <= Bound
        BY <1>1, <1>3, <1>4, <4>1
      <4>3. QED
        BY <1>1, <1>2, <2>1, <4>2
    <3>2. QED
      BY <3>1
  <2>4. QED
    BY <1>4, <2>2, <2>3 DEF Room
<1>5. ASSUME UNCHANGED pos, NEW c \in Clients, Return(c) PROVE Goal
  <2>1. /\ old' \in [Clients -> Nat]
        /\ \A d \in Clients : old'[d] <= old[d] /\ (at'[d] # "store" => old'[d] = 0)
        /\ \A d \in Clients : ribbon'[d] \in {Nobody, ribbon[d]}
    BY <1>1, <1>3, <1>5 DEF Return
  <2>2. QED
    BY <1>1, <1>4, <1>5, <2>1
<1>6. ASSUME UNCHANGED <<pos, old, ribbon>>, NEW c \in Clients, NEW l, Proceed(c, l), at[c] # "store" PROVE Goal
  <2>1. \A d \in Clients : old'[d] <= old[d] /\ (at'[d] # "store" => old'[d] = 0)
    BY <1>1, <1>3, <1>6 DEF Proceed
  <2>2. QED
    BY <1>1, <1>4, <1>6, <2>1
<1>7. ASSUME UNCHANGED <<pos, old, at, ribbon>> PROVE Goal
  <2>1. \A d \in Clients : old'[d] <= old[d] /\ (at'[d] # "store" => old'[d] = 0)
    BY <1>1, <1>3, <1>7
  <2>2. QED
    BY <1>1, <1>4, <1>7, <2>1
(* A call comes while pos and what is read of it are below MaxPos.          *)
<1>8. ASSUME NEW c \in Clients, Call(c) PROVE Goal
  <2>1. /\ UNCHANGED <<pos, old>>
        /\ robin # Nobody => pos[robin] < MaxPos
        /\ \A d \in Clients : old[d] < MaxPos
        /\ ribbon' = [ribbon EXCEPT ![c] = robin] /\ at[c] = "idle" /\ at'[c] # "store"
        /\ \A d \in Clients : d # c => at'[d] = at[d]
    BY <1>1, <1>8 DEF Call
  <2>2. \A r \in Clients : Users(r)' \in SUBSET Clients /\ (r # robin => Users(r)' = Users(r))
    BY <1>1, <2>1 DEF Users, HasRibbon
  <2>3. \A r \in Clients : Cardinality(Users(r)') \in Nat /\ Cardinality(Users(r)') <= Cardinality(Clients)
    BY <2>2, UserCount
  <2>4. ASSUME NEW r \in Clients
        PROVE /\ pos'[r] + Cardinality(Users(r)') <= Bound
              /\ \A d \in Users(r)' : old'[d] + Cardinality(Users(r)') <= Bound
    <3>1. CASE r # robin
      BY <1>3, <2>1, <2>2, <3>1
    <3>2. CASE r = robin
      <4>1. pos'[r] < MaxPos /\ pos'[r] \in Nat
        BY <1>1, <2>1, <3>2
      <4>2. \A d \in Users(r)' : old'[d] < MaxPos /\ old'[d] \in Nat
        BY <1>1, <2>1, <2>2
      <4>3. QED
        BY <1>1, <2>3, <4>1, <4>2 DEF Bound
    <3>3. QED
      BY <3>1, <3>2
  <2>5. \A d \in Clients : at'[d] # "store" => old'[d] = 0
    BY <1>3, <2>1
  <2>6. QED
    BY <1>1, <2>1, <2>4, <2>5 DEF Room
(* A ribbon that is put has one user, and its pos is 0.                     *)
<1>9. ASSUME NEW c \in Clients, PutRibbon(c) PROVE Goal
  <2>1. /\ UNCHANGED <<pos, old>> /\ at[c] = "create" /\ ribbon' = [ribbon EXCEPT ![c] = c]
        /\ at' = [at EXCEPT ![c] = "copy"]
    BY <1>9 DEF PutRibbon, Proceed
  <2>2. pos[c] = 0 /\ old[c] = 0 /\ ribbon[c] = Nobody /\ \A d \in Clients : ribbon[d] # c
    BY <1>3, <2>1 DEF Created, HasRibbon
  <2>3. Users(c)' = {c} /\ \A r \in Clients : r # c => Users(r)' = Users(r)
    BY <1>1, <2>1, <2>2 DEF Users
  <2>4. Cardinality(Users(c)') \in Nat /\ Cardinality(Users(c)') <= Cardinality(Clients)
    BY <2>3, UserCount
  <2>5. \A r \in Clients : /\ pos'[r] + Cardinality(Users(r)') <= Bound
                           /\ \A d \in Users(r)' : old'[d] + Cardinality(Users(r)') <= Bound
    <3>1. /\ pos'[c] + Cardinality(Users(c)') <= Bound
          /\ \A d \in Users(c)' : old'[d] + Cardinality(Users(c)') <= Bound
      BY <1>1, <2>1, <2>2, <2>3, <2>4 DEF Bound
    <3>2. ASSUME NEW r \in Clients, r # c
          PROVE  /\ pos'[r] + Cardinality(Users(r)') <= Bound
                 /\ \A d \in Users(r)' : old'[d] + Cardinality(Users(r)') <= Bound
      BY <1>3, <2>1, <2>3, <3>2
    <3>3. QED
      BY <3>1, <3>2
  <2>6. \A d \in Clients : at'[d] # "store" => old'[d] = 0
    BY <1>1, <1>3, <2>1
  <2>7. QED
    BY <1>1, <2>1, <2>5, <2>6 DEF Room
<1>10. ASSUME NEW c \in Clients, Increment(c) PROVE Goal
  <2>1. /\ UNCHANGED <<pos, ribbon>> /\ old' = [old EXCEPT ![c] = pos[ribbon[c]]]
        /\ at[c] = "increment" /\ at' = [at EXCEPT ![c] = "store"]
    BY <1>10 DEF Increment, Proceed, Position
  <2>2. ribbon[c] \in Clients
    BY <1>1, <2>1 DEF HasRibbon
  <2>3. \A r \in Clients : Users(r)' = Users(r)
    BY <2>1 DEF Users
  <2>4. old' \in [Clients -> Nat] /\ \A d \in Clients : at'[d] # "store" => old'[d] = 0
    BY <1>1, <1>3, <2>1, <2>2
  <2>5. \A r \in Clients : \A d \in Users(r) : old'[d] + Cardinality(Users(r)) <= Bound
    <3>1. \A r \in Clients : c \in Users(r) => r = ribbon[c] /\ old'[c] = pos[r]
      BY <1>1, <2>1 DEF Users
    <3>2. \A d \in Clients : d # c => old'[d] = old[d]
      BY <1>1, <2>1
    <3>3. QED
      BY <1>2, <1>3, <3>1, <3>2
  <2>6. QED
    BY <1>1, <1>3, <2>1, <2>3, <2>4, <2>5 DEF Room
<1>11. ASSUME NEW c \in Clients, Reset(c) PROVE Goal
  <2>1. /\ UNCHANGED <<old, ribbon>> /\ pos' = [pos EXCEPT ![ribbon[c]] = 0]
        /\ at[c] = "reset" /\ at' = [at EXCEPT ![c] = "get"]
    BY <1>11 DEF Reset, Proceed
  <2>2. pos' \in [Clients -> Nat] /\ \A r \in Clients : pos'[r] <= pos[r]
    <3>1. pos' \in [Clients -> Nat] /\ \A r \in Clients : pos'[r] = 0 \/ pos'[r] = pos[r]
      BY <1>1, <2>1
    <3>2. QED
      BY <1>1, <3>1
  <2>3. \A d \in Clients : old'[d] <= old[d] /\ (at'[d] # "store" => old'[d] = 0)
    BY <1>1, <1>3, <2>1
  <2>4. QED
    BY <1>1, <1>4, <2>1, <2>2, <2>3
(* pos++ is stored by a call that leaves.                                   *)
<1>12. ASSUME NEW c \in Clients, Store(c) PROVE Goal
  <2>0. ribbon[c] \in Clients
    BY <1>1, <1>12 DEF Store, HasRibbon
  <2> PICK q \in Clients : q = ribbon[c]
    BY <2>0
  <2>1. /\ pos' = [pos EXCEPT ![q] = old[c] + 1] /\ ribbon' = [ribbon EXCEPT ![c] = Nobody]
        /\ old' = [old EXCEPT ![c] = 0] /\ at' = [at EXCEPT ![c] = "idle"] /\ at[c] = "store"
    BY <1>12 DEF Store, Return
  <2>2. q \in Clients /\ q # Nobody /\ q = ribbon[c]
    BY <1>1
  <2>3. c \in Users(q) /\ Users(q)' = Users(q) \ {c} /\ \A r \in Clients : r # q => Users(r)' = Users(r)
    BY <1>1, <2>1, <2>2 DEF Users
  <2>4. Cardinality(Users(q)') = Cardinality(Users(q)) - 1
    BY <1>2, <2>2, <2>3, UserCount
  <2>5. /\ old[c] \in Nat /\ old[c] + Cardinality(Users(q)) <= Bound
        /\ pos' \in [Clients -> Nat] /\ old' \in [Clients -> Nat]
    BY <1>1, <1>3, <2>1, <2>2, <2>3
  <2>6. \A r \in Clients : pos'[r] + Cardinality(Users(r)') <= Bound
    <3>1. pos'[q] = old[c] + 1 /\ \A r \in Clients : r # q => pos'[r] = pos[r]
      BY <1>1, <2>1, <2>2
    <3>2. (old[c] + 1) + (Cardinality(Users(q)) - 1) <= Bound
      BY <1>1, <1>2, <2>2, <2>5
    <3>3. QED
      BY <1>3, <2>3, <2>4, <3>1, <3>2
  <2>7. \A r \in Clients : \A d \in Users(r)' : old'[d] + Cardinality(Users(r)') <= Bound
    <3>1. ASSUME NEW r \in Clients, NEW d \in Users(r)' PROVE old'[d] + Cardinality(Users(r)') <= Bound
      <4>1. d \in Users(r) /\ d # c /\ d \in Clients
        BY <1>1, <2>1, <2>2, <2>3, <3>1 DEF Users
      <4>2. old'[d] = old[d] /\ old[d] \in Nat /\ old[d] + Cardinality(Users(r)) <= Bound
        BY <1>1, <1>3, <2>1, <4>1
      <4>3. CASE r = q
        BY <1>1, <1>2, <2>4, <4>2, <4>3
      <4>4. CASE r # q
        BY <2>3, <4>2, <4>4
      <4>5. QED
        BY <4>3, <4>4
    <3>2. QED
      BY <3>1
  <2>8. \A d \in Clients : at'[d] # "store" => old'[d] = 0
    BY <1>1, <1>3, <2>1
  <2>9. QED
    BY <2>5, <2>6, <2>7, <2>8 DEF Room
<1>13. ASSUME NEW c \in Clients, NoMap(c) \/ CopyFails(c) PROVE Goal
  BY <1>5, <1>13 DEF NoMap, CopyFails
<1>14. ASSUME NEW c \in Clients, CopyKeys(c) \/ ReadLock(c) \/ Enter(c) PROVE Goal
  BY <1>6, <1>14 DEF CopyKeys, ReadLock, Enter
<1>15. ASSUME NEW c \in Clients, Check(c) PROVE Goal
  BY <1>6, <1>15 DEF Check
<1>16. ASSUME NEW c \in Clients, Get(c) PROVE Goal
  <2>1. UNCHANGED pos /\ at[c] = "get" /\ (Return(c) \/ (Proceed(c, "increment") /\ UNCHANGED <<ribbon, old>>))
    BY <1>16 DEF Get
  <2>2. QED
    BY <1>5, <1>6, <2>1
<1>17. CASE RefreshMap \/ UNCHANGED ribbonVars
  BY <1>7, <1>17 DEF RefreshMap, ribbonVars
<1>18. QED
  BY <1>8, <1>9, <1>10, <1>11, <1>12, <1>13, <1>14, <1>15, <1>16, <1>17 DEF RibbonNext, Caller

(* pos, and what was read of it, stay within the bound.                    *)
LEMMA IndicesStep ==
  ASSUME MapType, Locals, Indices, HasRibbon, Created, Room, [RibbonNext]_ribbonVars
  PROVE  Indices' /\ Room'
<1>1. Room' /\ pos' \in [Clients -> Nat] /\ old' \in [Clients -> Nat] /\ HasRibbon' /\ Locals'
  BY RoomStep, HasRibbonStep, LocalsStep
<1>2. pos' \in [Clients -> Positions] /\ old' \in [Clients -> Positions]
  <2>1. (Room /\ pos \in [Clients -> Nat] /\ old \in [Clients -> Nat] /\ HasRibbon /\ Locals
           => pos \in [Clients -> Positions] /\ old \in [Clients -> Positions])'
    BY IndicesFit, PTL
  <2>2. Positions' = Positions
    BY DEF Positions
  <2>3. QED
    BY <1>1, <2>1, <2>2
<1>3. lock' \in [Clients -> Positions]
  <2>1. /\ lock \in [Clients -> Positions] /\ pos \in [Clients -> Positions]
        /\ 0 \in Positions
    BY Sizes DEF Indices
  <2>2. ASSUME NEW c \in Clients, ReadLock(c) PROVE lock' \in [Clients -> Positions]
    <3>1. ribbon[c] \in Clients
      BY <2>2 DEF ReadLock, HasRibbon, Locals
    <3>2. QED
      BY <2>1, <2>2, <3>1 DEF ReadLock, Position
  <2>3. ASSUME NEW c \in Clients, Return(c) PROVE lock' \in [Clients -> Positions]
    BY <2>1, <2>3 DEF Return
  <2>4. \/ UNCHANGED lock \/ \E c \in Clients : ReadLock(c) \/ Return(c)
    BY DEF RibbonNext, Caller, RefreshMap, Call, PutRibbon, NoMap, CopyKeys, CopyFails, Enter, Check, Reset,
           Get, Increment, Store, ribbonVars
  <2>5. QED
    BY <2>1, <2>2, <2>3, <2>4
<1>4. QED
  BY <1>1, <1>2, <1>3 DEF Indices

(* Entering and leaving the synchronized block.                            *)
LEMMA MonitorsStep ==
  ASSUME Locals, Indices, Monitors, [RibbonNext]_ribbonVars
  PROVE  Monitors'
<1>1. /\ at \in [Clients -> Labels] /\ lock \in [Clients -> Positions] /\ Nobody \notin Clients
      /\ held \in [Positions -> Clients \cup {Nobody}]
      /\ \A i \in Positions, c \in Clients : held[i] = c => lock[c] = i /\ at[c] \in Block
  BY Sizes DEF Locals, Indices, Monitors
<1>2. ASSUME NEW c \in Clients, NEW l, Proceed(c, l), UNCHANGED <<held, lock>>, at[c] \notin Block \/ l \in Block
      PROVE  Monitors'
  BY <1>1, <1>2 DEF Proceed, Monitors
(* Who leaves the block has released the monitor, its only one.             *)
<1>3. ASSUME NEW c \in Clients, Return(c), Release(c) \/ (UNCHANGED held /\ at[c] \notin Block) PROVE Monitors'
  <2>1. lock' = [lock EXCEPT ![c] = 0] /\ at' = [at EXCEPT ![c] = "idle"]
    BY <1>3 DEF Return
  <2>2. /\ held' \in [Positions -> Clients \cup {Nobody}]
        /\ \A i \in Positions : held'[i] # c /\ (held'[i] = held[i] \/ held'[i] = Nobody)
    <3>1. CASE Release(c)
      BY <1>1, <3>1 DEF Release
    <3>2. CASE UNCHANGED held /\ at[c] \notin Block
      BY <1>1, <3>2
    <3>3. QED
      BY <1>3, <3>1, <3>2
  <2>3. QED
    BY <1>1, <2>1, <2>2 DEF Monitors
<1>4. ASSUME NEW c \in Clients, Call(c) PROVE Monitors'
  <2>1. /\ UNCHANGED <<held, lock>> /\ at[c] \notin Block
        /\ \A d \in Clients : d # c => at'[d] = at[d]
    BY <1>1, <1>4 DEF Call, Block
  <2>2. QED
    BY <1>1, <2>1 DEF Monitors
<1>5. ASSUME NEW c \in Clients, ReadLock(c) PROVE Monitors'
  <2>1. /\ UNCHANGED held /\ at[c] \notin Block
        /\ \A d \in Clients : d # c => at'[d] = at[d] /\ lock'[d] = lock[d]
    BY <1>1, <1>5 DEF ReadLock, Proceed, Block
  <2>2. QED
    BY <1>1, <2>1 DEF Monitors
<1>6. ASSUME NEW c \in Clients, Enter(c) PROVE Monitors'
  <2>1. /\ UNCHANGED lock /\ held' = [held EXCEPT ![lock[c]] = c]
        /\ at' = [at EXCEPT ![c] = "check"] /\ lock[c] \in Positions
    BY <1>1, <1>6 DEF Enter, Proceed
  <2>2. held' \in [Positions -> Clients \cup {Nobody}]
    BY <1>1, <2>1
  <2>3. ASSUME NEW i \in Positions, NEW d \in Clients, held'[i] = d PROVE lock'[d] = i /\ at'[d] \in Block
    BY <1>1, <2>1, <2>3 DEF Block
  <2>4. QED
    BY <2>2, <2>3 DEF Monitors
<1>7. ASSUME NEW c \in Clients, NoMap(c) \/ CopyFails(c) \/ Store(c) PROVE Monitors'
  BY <1>3, <1>7 DEF NoMap, CopyFails, Store, Block
<1>8. ASSUME NEW c \in Clients, PutRibbon(c) \/ CopyKeys(c) \/ Reset(c) \/ Increment(c) PROVE Monitors'
  BY <1>2, <1>8 DEF PutRibbon, CopyKeys, Reset, Increment, Block
<1>9. ASSUME NEW c \in Clients, Check(c) PROVE Monitors'
  BY <1>2, <1>9 DEF Check, Block
<1>10. ASSUME NEW c \in Clients, Get(c) PROVE Monitors'
  <2>1. (Return(c) /\ Release(c)) \/ (Proceed(c, "increment") /\ UNCHANGED <<held, lock>>)
    BY <1>10 DEF Get
  <2>2. QED
    BY <1>2, <1>3, <2>1 DEF Block
<1>11. CASE RefreshMap \/ UNCHANGED ribbonVars
  BY <1>1, <1>11 DEF RefreshMap, ribbonVars, Monitors
<1>12. QED
  BY <1>4, <1>5, <1>6, <1>7, <1>8, <1>9, <1>10, <1>11 DEF RibbonNext, Caller

(* A step of another thread ends the solitude of every call.                *)
LEMMA LoneStep ==
  ASSUME Types, HasRibbon, Lone, [RibbonNext]_ribbonVars
  PROVE  alone' \in [Clients -> BOOLEAN] /\ Lone'
<1>1. /\ at \in [Clients -> Labels] /\ ribbon \in [Clients -> Clients \cup {Nobody}]
      /\ iplist \in [Clients -> 0..MaxKeys] /\ keys \in 0..MaxKeys /\ MaxKeys \in Nat
      /\ pos \in [Clients -> Positions] /\ Nobody \notin Clients
      /\ \A i \in Positions : i \in Nat
  BY Sizes DEF Types, MapType, Locals, Indices
<1>2. ASSUME NEW t, Overlap(t), \A c \in Clients : c = t /\ alone[c] =>
               /\ at'[c] \in {"sync", "enter", "check", "reset", "get"} => iplist'[c] = keys'
               /\ at'[c] = "get" /\ iplist'[c] > 0 => pos'[ribbon'[c]] < iplist'[c]
      PROVE  alone' \in [Clients -> BOOLEAN] /\ Lone'
  <2>1. alone' \in [Clients -> BOOLEAN]
    BY <1>2, Zenon DEF Overlap
  <2>2. \A c \in Clients : alone'[c] => c = t /\ alone[c]
    BY <1>2, Zenon DEF Overlap
  <2>3. QED
    BY <1>2, <2>1, <2>2 DEF Lone, Position
<1>3. ASSUME NEW c \in Clients, Proceed(c, "increment") \/ Proceed(c, "store") \/ Proceed(c, "copy")
      PROVE  alone' \in [Clients -> BOOLEAN] /\ Lone'
  <2>1. Overlap(c) /\ at'[c] \in {"increment", "store", "copy"}
    BY <1>1, <1>3 DEF Proceed
  <2>2. QED
    BY <1>2, <2>1
<1>4. ASSUME NEW c \in Clients, Return(c), NEW t, Overlap(t), t = c \/ t = Nobody
      PROVE  alone' \in [Clients -> BOOLEAN] /\ Lone'
  <2>1. at'[c] = "idle"
    BY <1>1, <1>4 DEF Return
  <2>2. QED
    BY <1>1, <1>2, <1>4, <2>1
<1>5. ASSUME NEW c \in Clients, Call(c) PROVE alone' \in [Clients -> BOOLEAN] /\ Lone'
  <2>1. alone' = [d \in Clients |-> d = c] /\ at'[c] \in {"create", "copy"}
    BY <1>1, <1>5 DEF Call
  <2>2. alone' \in [Clients -> BOOLEAN] /\ \A d \in Clients : alone'[d] => d = c
    BY <2>1, Zenon
  <2>3. QED
    BY <2>1, <2>2 DEF Lone
<1>6. ASSUME NEW c \in Clients, PutRibbon(c) \/ Increment(c) PROVE alone' \in [Clients -> BOOLEAN] /\ Lone'
  BY <1>3, <1>6 DEF PutRibbon, Increment
<1>7. ASSUME NEW c \in Clients, NoMap(c) \/ CopyFails(c) \/ Store(c) PROVE alone' \in [Clients -> BOOLEAN] /\ Lone'
  BY <1>4, <1>7 DEF NoMap, CopyFails, Store
<1>8. ASSUME NEW c \in Clients, CopyKeys(c) PROVE alone' \in [Clients -> BOOLEAN] /\ Lone'
  <2>1. Overlap(c) /\ at'[c] = "sync" /\ iplist'[c] = keys /\ keys' = keys
    BY <1>1, <1>8 DEF CopyKeys, Proceed, map
  <2>2. QED
    BY <1>2, <2>1
<1>9. ASSUME NEW c \in Clients, ReadLock(c) \/ Enter(c) PROVE alone' \in [Clients -> BOOLEAN] /\ Lone'
  <2>1. /\ Overlap(c) /\ at'[c] \in {"enter", "check"} /\ at[c] \in {"sync", "enter"}
        /\ iplist' = iplist /\ keys' = keys
    BY <1>1, <1>9 DEF ReadLock, Enter, Proceed, map
  <2>2. alone[c] => iplist[c] = keys
    BY <2>1 DEF Lone
  <2>3. QED
    BY <1>2, <2>1, <2>2
<1>10. ASSUME NEW c \in Clients, Check(c) PROVE alone' \in [Clients -> BOOLEAN] /\ Lone'
  <2>1. /\ Overlap(c) /\ at[c] = "check" /\ at'[c] = IF pos[ribbon[c]] >= keys THEN "reset" ELSE "get"
        /\ UNCHANGED <<iplist, pos, ribbon, keys>>
    BY <1>1, <1>10 DEF Check, Proceed, map, Position
  <2>2. alone[c] => iplist[c] = keys
    BY <2>1 DEF Lone
  <2>3. pos[ribbon[c]] \in Nat
    BY <1>1, <2>1 DEF HasRibbon
  <2>4. at'[c] = "get" => pos[ribbon[c]] < keys
    BY <1>1, <2>1, <2>3
  <2>5. QED
    BY <1>2, <2>1, <2>2, <2>4
<1>11. ASSUME NEW c \in Clients, Reset(c) PROVE alone' \in [Clients -> BOOLEAN] /\ Lone'
  <2>1. /\ Overlap(c) /\ at[c] = "reset" /\ at'[c] = "get" /\ UNCHANGED <<iplist, ribbon, keys>>
        /\ pos' = [pos EXCEPT ![ribbon[c]] = 0]
    BY <1>1, <1>11 DEF Reset, Proceed, map
  <2>2. alone[c] => iplist[c] = keys
    BY <2>1 DEF Lone
  <2>3. pos'[ribbon'[c]] = 0
    BY <1>1, <2>1 DEF HasRibbon
  <2>4. QED
    BY <1>2, <2>1, <2>2, <2>3
<1>12. ASSUME NEW c \in Clients, Get(c) PROVE alone' \in [Clients -> BOOLEAN] /\ Lone'
  BY <1>3, <1>4, <1>12 DEF Get
<1>13. CASE RefreshMap
  <2>1. Overlap(Nobody)
    BY <1>13 DEF RefreshMap
  <2>2. QED
    BY <1>1, <1>2, <2>1
<1>14. CASE UNCHANGED ribbonVars
  <2>1. UNCHANGED <<at, alone, iplist, keys, pos, ribbon>>
    BY <1>14 DEF ribbonVars, map
  <2>2. alone' \in [Clients -> BOOLEAN]
    BY <2>1, Zenon DEF Types
  <2>3. Lone'
    BY <2>1, Zenon DEF Lone, Position
  <2>4. QED
    BY <2>2, <2>3
<1>15. QED
  BY <1>5, <1>6, <1>7, <1>8, <1>9, <1>10, <1>11, <1>12, <1>13, <1>14 DEF RibbonNext, Caller

-----------------------------------------------------------------------------
(* No ribbon, no call.                                                     *)
LEMMA Initially == RibbonInit => RibbonIInv
<1>1. SUFFICES ASSUME RibbonInit PROVE RibbonIInv
  OBVIOUS
<1>2. MapType
  <2>1. keys \in 0..MaxKeys
    BY <1>1, Sizes DEF RibbonInit, EmptyMap
  <2>2. refreshing \in BOOLEAN
    BY <1>1, Zenon DEF RibbonInit, EmptyMap
  <2>3. QED
    BY <2>1, <2>2 DEF MapType
<1>3. Locals /\ Indices
  BY <1>1, Sizes DEF RibbonInit, Locals, Indices, Labels
<1>4. Monitors
  BY <1>1, Sizes DEF RibbonInit, Monitors
<1>5. alone \in [Clients -> BOOLEAN] /\ \A c \in Clients : ~alone[c]
  BY <1>1, Zenon DEF RibbonInit
<1>6. HasRibbon /\ Created
  BY <1>1, Sizes DEF RibbonInit, HasRibbon, Created
<1>7. Room
  <2>1. ASSUME NEW r \in Clients PROVE Users(r) = {} /\ pos[r] + Cardinality(Users(r)) <= Bound
    <3>1. Users(r) = {}
      BY <1>1, Sizes DEF RibbonInit, Users
    <3>2. Cardinality(Users(r)) = 0 /\ pos[r] = 0
      BY <1>1, <3>1, FS_EmptySet DEF RibbonInit
    <3>3. QED
      BY <3>1, <3>2, Sizes
  <2>2. \A c \in Clients : old[c] = 0
    BY <1>1 DEF RibbonInit
  <2>3. QED
    BY <2>1, <2>2 DEF Room
<1>8. Lone
  BY <1>5 DEF Lone
<1>9. QED
  BY <1>2, <1>3, <1>4, <1>5, <1>6, <1>7, <1>8 DEF RibbonIInv, Types

(* Each part of the invariant from the parts before it.                    *)
LEMMA Inductive == RibbonIInv /\ [RibbonNext]_ribbonVars => RibbonIInv'
<1>1. SUFFICES ASSUME RibbonIInv, [RibbonNext]_ribbonVars PROVE RibbonIInv'
  OBVIOUS
<1>2. MapType /\ Locals /\ Indices /\ Monitors /\ Types /\ HasRibbon /\ Created /\ Room /\ Lone
  BY <1>1 DEF RibbonIInv, Types
<1>3. MapType' /\ Locals' /\ HasRibbon' /\ Indices' /\ Room' /\ Monitors'
  BY <1>1, <1>2, RibbonMapStep, LocalsStep, HasRibbonStep, IndicesStep, MonitorsStep
<1>4. Created'
  <2>1. pos \in [Clients -> Positions]
    BY <1>2 DEF Indices
  <2>2. QED
    BY <1>1, <1>2, <2>1, CreatedStep
<1>5. alone' \in [Clients -> BOOLEAN] /\ Lone'
  BY <1>1, <1>2, LoneStep
<1>6. QED
  BY <1>3, <1>4, <1>5 DEF RibbonIInv, Types

(* The invariant holds always.                                             *)
LEMMA Invariant == RibbonSpec => []RibbonIInv
BY Initially, Inductive, PTL DEF RibbonSpec

(* The types; and who owns a monitor is in the synchronized block, and has  *)
(* entered it through that Integer.                                         *)
THEOREM RibbonType == RibbonSpec => []RibbonTypeOK
<1>1. RibbonIInv => RibbonTypeOK
  BY Zenon DEF RibbonIInv, Types, RibbonTypeOK, MapType, Locals, Indices, Monitors, Labels
<1>2. QED
  BY <1>1, Invariant, PTL

(* A call that is not overlapped finds an index within its list.            *)
THEOREM RibbonLoneCallSucceeds == RibbonSpec => []LoneCallSucceeds
<1>1. RibbonIInv => LoneCallSucceeds
  BY DEF RibbonIInv, Lone, LoneCallSucceeds
<1>2. QED
  BY <1>1, Invariant, PTL

-----------------------------------------------------------------------------
(* ZookeeperService.                                                       *)

Watched(s) == \E c \in Callers : watch[c] = s
Announced(s) == \E i \in DOMAIN events : events[i][2] = s
NoneLost == \A c \in Callers : watch[c] # Lost
AddressesOf(S) == {n[2] : n \in S}

(* The monitor of ipMap is held by the thread that fills it, and whoever is *)
(* in getIp or process has a path.                                          *)
Locked ==
  \A t \in Threads :
     /\ pc[t] = "fill" <=> monitor = t
     /\ pc[t] # "idle" => path[t] # None

(* A watcher is registered, or has one event, or neither.                   *)
OneEvent ==
  /\ \A i \in DOMAIN events : watch[events[i][1]] = None
  /\ \A i, j \in DOMAIN events : events[i][1] = events[j][1] => i = j

(* A caller that may still make its watcher has not made one.               *)
Unused ==
  \A c \in Callers : pc[c] = "read" \/ (pc[c] = "idle" /\ ~init) =>
     watch[c] = None /\ \A i \in DOMAIN events : events[i][1] # c

(* What the event thread has read is what the service's nodes are, unless   *)
(* an event says that they have changed since: a watcher is registered.     *)
Fetched ==
  pc[Event] \in {"set", "fill"} /\ ~Announced(path[Event]) /\ NoneLost =>
     /\ Watched(path[Event])
     /\ pc[Event] = "set" => list[Event] = Children(path[Event])
     /\ pc[Event] = "fill" =>
           ipMap \cup AddressesOf(list[Event]) = AddressesOf(Children(path[Event]))

(* The same for ipMap, when nothing is on its way to it.                    *)
Fresh ==
  refreshed # None /\ Quiet(refreshed) /\ NoneLost =>
     Watched(refreshed) /\ ipMap = AddressesOf(Children(refreshed))

IInv == TypeOK /\ Locked /\ OneEvent /\ Unused /\ Fetched /\ Fresh

-----------------------------------------------------------------------------
(* SetToSeq lists every element of a finite set once.                       *)
LEMMA Listed ==
  ASSUME NEW S, IsFiniteSet(S)
  PROVE  /\ SetToSeq(S) \in Seq(S)
         /\ DOMAIN SetToSeq(S) = 1..Len(SetToSeq(S)) /\ Len(SetToSeq(S)) \in Nat
         /\ \A i \in 1..Len(SetToSeq(S)) : SetToSeq(S)[i] \in S
         /\ \A x \in S : \E i \in 1..Len(SetToSeq(S)) : SetToSeq(S)[i] = x
         /\ \A i, j \in 1..Len(SetToSeq(S)) : SetToSeq(S)[i] = SetToSeq(S)[j] => i = j
<1> DEFINE n == Cardinality(S)
           q == SetToSeq(S)
<1>1. n \in Nat /\ ExistsBijection(1..n, S)
  BY FS_CardinalityType
<1>2. \E f \in [1..n -> S] : IsInjective(f)
  BY <1>1 DEF ExistsBijection, Bijection, Injection
<1>3. q \in [1..n -> S] /\ IsInjective(q)
  BY <1>2 DEF SetToSeq
<1>4. q \in Surjection(1..n, S)
  <2>1. q \in Injection(1..n, S)
    BY <1>3 DEF Injection
  <2>2. Cardinality(1..n) = n
    BY <1>1, FS_Interval
  <2>3. QED
    BY <2>1, <2>2, FS_Injection
<1>5. q \in Seq(S) /\ Len(q) = n
  BY <1>1, <1>3, SeqDef
<1> HIDE DEF q, n
<1>6. \A x \in S : \E i \in 1..n : q[i] = x
  BY <1>4 DEF Surjection
<1>7. DOMAIN q = 1..n /\ (\A i, j \in 1..n : q[i] = q[j] => i = j) /\ \A i \in 1..n : q[i] \in S
  BY <1>3 DEF IsInjective
<1>8. QED
  BY <1>1, <1>5, <1>6, <1>7 DEF q, n

(* The event thread is none of the callers.                                *)
LEMMA CallersAreThreads ==
  /\ Callers \subseteq Threads /\ Event \in Threads /\ None \notin Threads
  /\ \A c \in Callers : c # Event
BY ZookeeperAssumption DEF Threads

(* A change of the children of s: watchers become events.                   *)
LEMMA Fired ==
  ASSUME TypeOK, NEW s \in Services, Fire(s)
  PROVE  /\ watch' \in [Callers -> Services \cup {None, Lost}]
         /\ \A c \in Callers : watch'[c] = IF watch[c] = s THEN None ELSE watch[c]
         /\ events' \in Seq(Callers \X Services)
         /\ \A i \in DOMAIN events : i \in DOMAIN events' /\ events'[i] = events[i]
         /\ \A i \in DOMAIN events' \ DOMAIN events :
               /\ events'[i][1] \in Callers /\ events'[i][2] = s
               /\ watch[events'[i][1]] = s
         /\ \A i, j \in DOMAIN events' \ DOMAIN events : events'[i][1] = events'[j][1] => i = j
         /\ Watched(s) => Announced(s)'
<1> DEFINE fired == {c \in Callers : watch[c] = s}
           pairs == fired \X {s}
           new == SetToSeq(pairs)
<1>1. /\ watch' = [c \in Callers |-> IF c \in fired THEN None ELSE watch[c]]
      /\ events' = events \o new
  BY DEF Fire
<1>2. watch \in [Callers -> Services \cup {None, Lost}] /\ events \in Seq(Callers \X Services)
  BY DEF TypeOK
<1>3. IsFiniteSet(pairs)
  <2>1. IsFiniteSet(fired)
    BY ZookeeperAssumption, FS_Subset
  <2>2. IsFiniteSet({s})
    BY FS_Singleton
  <2> HIDE DEF fired
  <2>3. QED
    BY <2>1, <2>2, FS_Product
<1>4. /\ new \in Seq(pairs)
      /\ DOMAIN new = 1..Len(new) /\ Len(new) \in Nat
      /\ \A i \in 1..Len(new) : new[i] \in pairs
      /\ \A x \in pairs : \E i \in 1..Len(new) : new[i] = x
      /\ \A i, j \in 1..Len(new) : new[i] = new[j] => i = j
  <2> HIDE DEF pairs
  <2>1. QED
    BY <1>3, Listed
<1>5. new \in Seq(Callers \X Services)
  <2>1. pairs \subseteq Callers \X Services
    OBVIOUS
  <2> HIDE DEF pairs, new
  <2>2. QED
    BY <1>4, <2>1, SeqMonotonic
<1> HIDE DEF new
<1>6. /\ events' \in Seq(Callers \X Services) /\ Len(events') = Len(events) + Len(new)
      /\ DOMAIN events = 1..Len(events) /\ Len(events) \in Nat
      /\ DOMAIN events' = 1..Len(events')
      /\ \A i \in 1..Len(events) + Len(new) :
            events'[i] = IF i <= Len(events) THEN events[i] ELSE new[i - Len(events)]
  BY <1>1, <1>2, <1>5, ConcatProperties, LenProperties
<1>7. \A i \in DOMAIN events : i \in DOMAIN events' /\ events'[i] = events[i]
  BY <1>4, <1>6
<1>8. \A i \in DOMAIN events' \ DOMAIN events :
         i - Len(events) \in 1..Len(new) /\ events'[i] = new[i - Len(events)]
  BY <1>4, <1>6
<1>9. \A i \in DOMAIN events' \ DOMAIN events :
         /\ events'[i][1] \in Callers /\ events'[i][2] = s /\ watch[events'[i][1]] = s
         /\ events'[i] = <<events'[i][1], s>>
  BY <1>4, <1>8
<1>10. ASSUME NEW i \in DOMAIN events' \ DOMAIN events, NEW j \in DOMAIN events' \ DOMAIN events,
              events'[i][1] = events'[j][1]
       PROVE  i = j
  <2>1. events'[i] = events'[j]
    BY <1>9, <1>10
  <2>2. i - Len(events) = j - Len(events)
    BY <1>4, <1>8, <2>1
  <2>3. i \in Nat /\ j \in Nat
    BY <1>4, <1>6
  <2>4. QED
    BY <1>6, <2>2, <2>3
<1>11. Watched(s) => Announced(s)'
  <2> SUFFICES ASSUME NEW c \in Callers, watch[c] = s
               PROVE  \E i \in DOMAIN events' : events'[i][2] = s
    BY DEF Watched, Announced
  <2>1. <<c, s>> \in pairs
    OBVIOUS
  <2>2. PICK i \in 1..Len(new) : new[i] = <<c, s>>
    BY <1>4, <2>1
  <2>3. i + Len(events) \in DOMAIN events' /\ (i + Len(events)) - Len(events) = i /\ ~(i + Len(events) <= Len(events))
    BY <1>4, <1>6
  <2>4. events'[i + Len(events)] = <<c, s>>
    BY <1>6, <2>2, <2>3
  <2>5. QED
    BY <2>3, <2>4
<1>12. QED
  BY <1>1, <1>2, <1>6, <1>7, <1>9, <1>10, <1>11

-----------------------------------------------------------------------------
(* No node, no watcher, an empty map.                                      *)
LEMMA InitIInv == Init => IInv
<1> SUFFICES ASSUME Init PROVE IInv
  OBVIOUS
<1> USE ZookeeperAssumption, CallersAreThreads DEF Init
<1>1. <<>> \in Seq(Callers \X Services) /\ DOMAIN <<>> = {}
  BY EmptySeq
<1>2. init \in BOOLEAN
  BY Zenon
<1>3. TypeOK
  BY <1>1, <1>2 DEF TypeOK
<1>4. Locked
  BY DEF Locked
<1>5. OneEvent /\ Unused
  BY <1>1 DEF OneEvent, Unused
<1>6. Fetched /\ Fresh
  BY DEF Fetched, Fresh
<1>7. QED
  BY <1>3, <1>4, <1>5, <1>6 DEF IInv

(* The event thread's path and the refreshed service are services, and      *)
(* where the thread is tells what Fetched and Fresh are about.              *)
LEMMA PathFacts ==
  ASSUME IInv
  PROVE  /\ \A t \in Threads : pc[t] # "idle" => path[t] \in Services
         /\ \A s : Quiet(s) <=> ~Announced(s) /\ \A t \in Threads : pc[t] \notin {"set", "fill"}
         /\ pc \in [Threads -> {"idle", "read", "set", "fill", "flag"}]
         /\ watch \in [Callers -> Services \cup {None, Lost}]
         /\ refreshed # None => refreshed \in Services
BY DEF IInv, TypeOK, Locked, Quiet, Announced

(* The nodes of s change.  What was read of s before is announced to be     *)
(* stale, since a watcher was registered; other services are not affected.  *)
LEMMA NodesStep ==
  ASSUME IInv, NEW s \in Services, Fire(s), nodes' \subseteq Nodes, created' \in 0..MaxNodes,
         \A q \in Services : q # s => Children(q)' = Children(q),
         UNCHANGED <<service, pc, path, list>>
  PROVE  IInv'
<1> USE ZookeeperAssumption, CallersAreThreads, PathFacts DEF service
<1>1. /\ watch' \in [Callers -> Services \cup {None, Lost}]
      /\ \A c \in Callers : watch'[c] = IF watch[c] = s THEN None ELSE watch[c]
      /\ events' \in Seq(Callers \X Services)
      /\ \A i \in DOMAIN events : i \in DOMAIN events' /\ events'[i] = events[i]
      /\ \A i \in DOMAIN events' \ DOMAIN events :
            /\ events'[i][1] \in Callers /\ events'[i][2] = s
            /\ watch[events'[i][1]] = s
      /\ \A i, j \in DOMAIN events' \ DOMAIN events : events'[i][1] = events'[j][1] => i = j
      /\ Watched(s) => Announced(s)'
  BY Fired DEF IInv
<1>2. TypeOK'
  BY <1>1 DEF IInv, TypeOK
<1>3. Locked'
  BY DEF IInv, Locked
<1>a. \A i \in DOMAIN events : events[i][1] \in Callers
  BY ElementOfSeq, LenProperties DEF IInv, TypeOK
<1>4. OneEvent'
  <2>1. \A i \in DOMAIN events' : watch'[events'[i][1]] = None
    BY <1>1, <1>a DEF IInv, OneEvent
  <2>2. ASSUME NEW i \in DOMAIN events', NEW j \in DOMAIN events', events'[i][1] = events'[j][1] PROVE i = j
    <3>1. i \in DOMAIN events <=> j \in DOMAIN events
      BY <1>1, <2>2, <1>a DEF IInv, OneEvent
    <3>2. QED
      BY <1>1, <2>2, <3>1 DEF IInv, OneEvent
  <2>3. QED
    BY <2>1, <2>2 DEF OneEvent
<1>5. Unused'
  BY <1>1 DEF IInv, Unused
<1>6. /\ \A q : Announced(q) => Announced(q)'
      /\ \A q \in Services : q # s /\ Watched(q) => Watched(q)'
      /\ NoneLost' => NoneLost
  <2>1. \A q : Announced(q) => Announced(q)'
    BY <1>1 DEF Announced
  <2>2. \A q \in Services : q # s /\ Watched(q) => Watched(q)'
    BY <1>1 DEF Watched
  <2>3. NoneLost' => NoneLost
    BY <1>1 DEF NoneLost
  <2>4. QED
    BY <2>1, <2>2, <2>3
<1>7. Fetched'
  <2> DEFINE q == path[Event]
  <2> SUFFICES ASSUME pc[Event] \in {"set", "fill"}, ~Announced(path[Event])', NoneLost' PROVE Fetched'
    BY DEF Fetched
  <2>1. q \in Services /\ ~Announced(q)
    BY <1>6, CallersAreThreads
  <2>2. Watched(q)
    BY <1>6, <2>1 DEF IInv, Fetched
  <2>3. q # s
    BY <1>1, <2>2
  <2>4. Watched(q)' /\ Children(q)' = Children(q)
    BY <1>6, <2>1, <2>2, <2>3
  <2>5. QED
    BY <1>6, <2>1, <2>4 DEF IInv, Fetched, AddressesOf
<1>8. Fresh'
  <2> SUFFICES ASSUME refreshed # None, Quiet(refreshed)', NoneLost' PROVE Fresh'
    BY DEF Fresh
  <2>1. refreshed \in Services /\ Quiet(refreshed) /\ ~Announced(refreshed)'
    <3>1. ~Announced(refreshed)'
      BY DEF Quiet, Announced
    <3>2. \A t \in Threads : pc[t] \notin {"set", "fill"}
      BY DEF Quiet
    <3>3. QED
      BY <1>6, <3>1, <3>2
  <2>2. Watched(refreshed) /\ ipMap = AddressesOf(Children(refreshed))
    BY <1>6, <2>1 DEF IInv, Fresh
  <2>3. refreshed # s
    BY <1>1, <2>1, <2>2
  <2>4. Watched(refreshed)' /\ Children(refreshed)' = Children(refreshed)
    BY <1>6, <2>1, <2>2, <2>3
  <2>5. QED
    BY <2>2, <2>4 DEF Fresh, AddressesOf
<1>9. QED
  BY <1>2, <1>3, <1>4, <1>5, <1>7, <1>8 DEF IInv

(* A server registers: a change of the children of its service.            *)
LEMMA RegisterStep ==
  ASSUME IInv, NEW s \in Services, NEW a \in Addresses, Register(s, a)
  PROVE  IInv'
<1>1. created' \in 1..MaxNodes /\ created' \in 0..MaxNodes
  BY ZookeeperAssumption DEF Register, IInv, TypeOK
<1>2. nodes' \subseteq Nodes
  BY <1>1 DEF Register, IInv, TypeOK, Nodes
<1>3. \A q \in Services : q # s => Children(q)' = Children(q)
  BY DEF Register, Children
<1>4. QED
  BY <1>1, <1>2, <1>3, NodesStep DEF Register

(* A server's session ends: a change as well.                              *)
LEMMA NodeExpiresStep ==
  ASSUME IInv, NEW n \in Nodes, NodeExpires(n)
  PROVE  IInv'
<1>1. n[1] \in Services /\ nodes' \subseteq Nodes /\ created' \in 0..MaxNodes
  BY DEF NodeExpires, IInv, TypeOK, Nodes
<1>2. \A q \in Services : q # n[1] => Children(q)' = Children(q)
  BY DEF NodeExpires, Children
<1>3. QED
  BY <1>1, <1>2, NodesStep DEF NodeExpires

-----------------------------------------------------------------------------
(* The steps of a caller that leave ipMap and the event thread alone.       *)
LEMMA CallerStep ==
  ASSUME IInv, NEW c \in Callers, NEW s \in Services, GetIp(c, s) \/ ReadFails(c) \/ SetInit(c)
  PROVE  IInv'
<1> USE ZookeeperAssumption, CallersAreThreads, PathFacts DEF zookeeper
<1>1. /\ UNCHANGED <<zookeeper, ipMap, monitor, refreshed, list>>
      /\ pc[c] \in {"idle", "read", "flag"} /\ pc'[c] \in {"idle", "read"}
      /\ \A t \in Threads : t # c => pc'[t] = pc[t] /\ path'[t] = path[t]
      /\ pc' \in [Threads -> {"idle", "read", "set", "fill", "flag"}]
      /\ path' \in [Threads -> Services \cup {None}]
      /\ pc'[c] = "read" => path'[c] = s
  BY DEF GetIp, ReadFails, SetInit, Leave, Goto, service, IInv, TypeOK
<1>2. /\ init' \in BOOLEAN /\ (init => init')
      /\ pc'[c] = "read" => pc[c] = "idle" /\ ~init
      /\ pc'[c] = "idle" => init' \/ pc[c] = "read"
  BY Zenon DEF GetIp, ReadFails, SetInit, service, IInv, TypeOK, Leave, Goto
<1>3. TypeOK'
  BY <1>1, <1>2 DEF IInv, TypeOK
<1>4. Locked'
  BY <1>1 DEF IInv, Locked
<1>5. OneEvent'
  BY <1>1 DEF IInv, OneEvent
<1>6. Unused'
  <2>1. ASSUME NEW d \in Callers, pc'[d] = "read" \/ (pc'[d] = "idle" /\ ~init')
        PROVE  pc[d] = "read" \/ (pc[d] = "idle" /\ ~init)
    BY <1>1, <1>2, <2>1
  <2>2. QED
    BY <1>1, <2>1 DEF IInv, Unused
<1>7. \A t \in Threads : pc'[t] \in {"set", "fill"} <=> pc[t] \in {"set", "fill"}
  BY <1>1
<1>8. pc'[Event] = pc[Event] /\ path'[Event] = path[Event]
  BY <1>1
<1>9. Fetched'
  BY <1>1, <1>8 DEF IInv, Fetched, Announced, NoneLost, Watched, AddressesOf, Children
<1>10. Fresh'
  BY <1>1, <1>7 DEF IInv, Fresh, Quiet, NoneLost, Watched, AddressesOf, Children
<1>11. QED
  BY <1>3, <1>4, <1>5, <1>6, <1>9, <1>10 DEF IInv

(* A caller makes its watcher: it has no other, so none is forgotten.       *)
LEMMA ReadChildrenStep ==
  ASSUME IInv, NEW c \in Callers, ReadChildren(c)
  PROVE  IInv'
<1> USE ZookeeperAssumption, CallersAreThreads, PathFacts DEF service
<1>1. /\ pc[c] = "read" /\ path[c] \in Services
      /\ UNCHANGED <<nodes, created, events, service, path>>
      /\ pc'[c] = "set" /\ watch'[c] = path[c]
      /\ \A t \in Threads : t # c => pc'[t] = pc[t] /\ list'[t] = list[t]
      /\ \A d \in Callers : d # c => watch'[d] = watch[d]
      /\ pc' \in [Threads -> {"idle", "read", "set", "fill", "flag"}]
      /\ watch' \in [Callers -> Services \cup {None, Lost}]
  BY DEF ReadChildren, GetChildren, Goto, IInv, TypeOK
<1>2. list' \in [Threads -> SUBSET Nodes]
  BY DEF ReadChildren, GetChildren, Children, IInv, TypeOK
<1>3. watch[c] = None /\ \A i \in DOMAIN events : events[i][1] # c
  BY <1>1 DEF IInv, Unused
<1>4. TypeOK'
  BY <1>1, <1>2 DEF IInv, TypeOK
<1>5. Locked'
  BY <1>1 DEF IInv, Locked
<1>a. \A i \in DOMAIN events : events[i][1] \in Callers
  BY ElementOfSeq, LenProperties DEF IInv, TypeOK
<1>6. OneEvent'
  BY <1>1, <1>3, <1>a DEF IInv, OneEvent
<1>7. Unused'
  BY <1>1 DEF IInv, Unused
<1>8. (NoneLost' => NoneLost) /\ \A q \in Services : Watched(q) => Watched(q)'
  BY <1>1, <1>3 DEF NoneLost, Watched
<1>9. Fetched'
  <2> SUFFICES ASSUME pc'[Event] \in {"set", "fill"}, ~Announced(path[Event])', NoneLost' PROVE Fetched'
    BY <1>1 DEF Fetched
  <2>1. /\ pc'[Event] = pc[Event] /\ list'[Event] = list[Event] /\ path[Event] \in Services
        /\ ~Announced(path[Event])
    BY <1>1 DEF Announced
  <2>2. Watched(path[Event])'
    BY <1>1, <1>8, <2>1 DEF IInv, Fetched
  <2>3. QED
    BY <1>1, <1>8, <2>1, <2>2 DEF IInv, Fetched, AddressesOf, Children
<1>10. Fresh'
  BY <1>1 DEF Fresh, Quiet
<1>11. QED
  BY <1>4, <1>5, <1>6, <1>7, <1>9, <1>10 DEF IInv

(* The event thread takes the oldest event: its watcher has no other, and   *)
(* is registered again by the request that reads the children.              *)
LEMMA ProcessStep ==
  ASSUME IInv, NEW ok \in BOOLEAN, Process(ok)
  PROVE  IInv'
<1> DEFINE w == Head(events)[1]
           s == Head(events)[2]
<1> USE ZookeeperAssumption, CallersAreThreads, PathFacts DEF service
<1>1. /\ events \in Seq(Callers \X Services) /\ events # <<>>
      /\ events' = Tail(events) /\ pc[Event] = "idle"
      /\ UNCHANGED <<nodes, created, service>>
  BY DEF Process, IInv, TypeOK
<1>2. /\ w \in Callers /\ s \in Services /\ 1 \in DOMAIN events /\ events[1][1] = w
      /\ events' \in Seq(Callers \X Services)
      /\ \A i \in DOMAIN events' : i + 1 \in DOMAIN events /\ events'[i] = events[i + 1] /\ i + 1 # 1 /\ i \in Nat
  <2>1. Head(events) \in Callers \X Services /\ Head(events) = events[1] /\ Len(events) \in Nat /\ Len(events) # 0
    BY <1>1, LenProperties, HeadTailProperties
  <2>2. /\ events' \in Seq(Callers \X Services) /\ Len(events') = Len(events) - 1
        /\ \A i \in 1..Len(events') : events'[i] = events[i + 1]
    BY <1>1, HeadTailProperties
  <2>3. DOMAIN events = 1..Len(events) /\ DOMAIN events' = 1..Len(events')
    BY <1>1, <2>2, LenProperties
  <2>4. QED
    BY <2>1, <2>2, <2>3
<1> HIDE DEF w, s
<1>a. \A i \in DOMAIN events : events[i][1] \in Callers
  BY ElementOfSeq, LenProperties DEF IInv, TypeOK
<1>3. /\ watch'[w] \in {s, Lost}
      /\ \A d \in Callers : d # w => watch'[d] = watch[d]
      /\ watch' \in [Callers -> Services \cup {None, Lost}]
      /\ \A t \in Threads : t # Event => pc'[t] = pc[t] /\ path'[t] = path[t] /\ list'[t] = list[t]
      /\ pc' \in [Threads -> {"idle", "read", "set", "fill", "flag"}]
      /\ path' \in [Threads -> Services \cup {None}]
  BY <1>2 DEF Process, GetChildren, Goto, IInv, TypeOK, w, s
<1>4. \/ /\ watch'[w] = Lost /\ UNCHANGED <<pc, path, list>>
      \/ /\ watch'[w] = s /\ pc'[Event] = "set" /\ path'[Event] = s /\ list'[Event] = Children(s)
  BY <1>2 DEF Process, GetChildren, Goto, IInv, TypeOK, w, s
<1>5. list' \in [Threads -> SUBSET Nodes]
  BY DEF Process, GetChildren, Children, IInv, TypeOK
<1>6. TypeOK'
  BY <1>1, <1>2, <1>3, <1>5 DEF IInv, TypeOK
<1>7. Locked'
  BY <1>1, <1>2, <1>3, <1>4 DEF IInv, Locked
<1>8. OneEvent'
  <2>1. \A i \in DOMAIN events' : events'[i][1] # w /\ events'[i][1] \in Callers
    BY <1>2, <1>a DEF IInv, OneEvent
  <2>2. \A i \in DOMAIN events' : watch'[events'[i][1]] = None
    BY <1>2, <1>3, <2>1 DEF IInv, OneEvent
  <2>3. ASSUME NEW i \in DOMAIN events', NEW j \in DOMAIN events', events'[i][1] = events'[j][1] PROVE i = j
    <3>1. i + 1 = j + 1
      BY <1>2, <2>3 DEF IInv, OneEvent
    <3>2. QED
      BY <1>2, <3>1
  <2>4. QED
    BY <2>2, <2>3 DEF OneEvent
<1>9. Unused'
  <2>1. ASSUME NEW d \in Callers, pc'[d] = "read" \/ (pc'[d] = "idle" /\ ~init)
        PROVE  watch'[d] = None /\ \A i \in DOMAIN events' : events'[i][1] # d
    <3>1. watch[d] = None /\ \A i \in DOMAIN events : events[i][1] # d
      BY <1>3, <2>1 DEF IInv, Unused
    <3>2. QED
      BY <1>2, <1>3, <3>1
  <2>2. QED
    BY <1>1, <2>1 DEF Unused
<1>10. CASE watch'[w] = Lost
  BY <1>2, <1>6, <1>7, <1>8, <1>9, <1>10 DEF IInv, Fetched, Fresh, NoneLost
<1>11. CASE watch'[w] = s
  <2>1. pc'[Event] = "set" /\ path'[Event] = s /\ list'[Event] = Children(s)
    BY <1>2, <1>4, <1>11
  <2>2. Fetched'
    BY <1>1, <1>2, <1>11, <2>1 DEF Fetched, Watched, Children
  <2>3. Fresh'
    BY <2>1 DEF Fresh, Quiet
  <2>4. QED
    BY <1>6, <1>7, <1>8, <1>9, <2>2, <2>3 DEF IInv
<1>12. QED
  BY <1>3, <1>10, <1>11

-----------------------------------------------------------------------------
(* setIpMap: the monitor keeps the others out until the list is in the map. *)
LEMMA ClearStep ==
  ASSUME IInv, NEW t \in Threads, Clear(t)
  PROVE  IInv'
<1> USE CallersAreThreads, PathFacts DEF zookeeper
<1>1. /\ pc[t] = "set" /\ monitor = None /\ monitor' = t /\ ipMap' = {} /\ pc'[t] = "fill"
      /\ \A u \in Threads : u # t => pc'[u] = pc[u]
      /\ pc' \in [Threads -> {"idle", "read", "set", "fill", "flag"}]
      /\ UNCHANGED <<zookeeper, init, refreshed, path, list>>
  BY DEF Clear, Goto
<1>2. TypeOK'
  BY <1>1 DEF IInv, TypeOK
<1>3. Locked'
  BY <1>1 DEF IInv, Locked
<1>4. OneEvent' /\ Unused'
  BY <1>1 DEF IInv, OneEvent, Unused
<1>5. pc[Event] # "fill"
  BY <1>1 DEF IInv, Locked
<1>6. Fetched'
  <2> SUFFICES ASSUME pc'[Event] \in {"set", "fill"}, ~Announced(path[Event]), NoneLost PROVE Fetched'
    BY <1>1 DEF Fetched, Announced, NoneLost
  <2>1. pc[Event] = "set"
    BY <1>1, <1>5
  <2>2. Watched(path[Event]) /\ list[Event] = Children(path[Event])
    BY <2>1 DEF IInv, Fetched
  <2>3. {} \cup AddressesOf(list[Event]) = AddressesOf(Children(path[Event]))
    BY <2>2
  <2>4. QED
    BY <1>1, <2>2, <2>3 DEF Fetched, Watched, AddressesOf, Children
<1>7. Fresh'
  BY <1>1 DEF Fresh, Quiet
<1>8. QED
  BY <1>2, <1>3, <1>4, <1>6, <1>7 DEF IInv

(* One put into ipMap by whoever holds the monitor.                        *)
LEMMA PutStep ==
  ASSUME IInv, NEW t \in Threads, NEW n \in Nodes, Put(t, n)
  PROVE  IInv'
<1> USE CallersAreThreads, PathFacts DEF zookeeper
<1>1. /\ pc[t] = "fill" /\ monitor = t /\ n \in list[t]
      /\ list'[t] = list[t] \ {n} /\ \A u \in Threads : u # t => list'[u] = list[u]
      /\ list' \in [Threads -> SUBSET Nodes]
      /\ ipMap' = ipMap \cup {n[2]} /\ n[2] \in Addresses
      /\ UNCHANGED <<zookeeper, init, monitor, refreshed, pc, path>>
  BY DEF Put, Nodes, IInv, TypeOK, Locked
<1>2. TypeOK'
  BY <1>1 DEF IInv, TypeOK
<1>3. Locked' /\ OneEvent' /\ Unused'
  BY <1>1 DEF IInv, Locked, OneEvent, Unused
<1>4. Fetched'
  <2> SUFFICES ASSUME pc[Event] \in {"set", "fill"}, ~Announced(path[Event]), NoneLost PROVE Fetched'
    BY <1>1 DEF Fetched, Announced, NoneLost
  <2>1. CASE t = Event
    <3>1. ipMap' \cup AddressesOf(list[t] \ {n}) = ipMap \cup AddressesOf(list[t])
      BY <1>1 DEF AddressesOf
    <3>2. /\ Watched(path[Event])
          /\ ipMap \cup AddressesOf(list[Event]) = AddressesOf(Children(path[Event]))
      BY <1>1, <2>1 DEF IInv, Fetched
    <3>3. ipMap' \cup AddressesOf(list'[Event]) = AddressesOf(Children(path[Event]))
      BY <1>1, <2>1, <3>1, <3>2
    <3>4. QED
      BY <1>1, <2>1, <3>2, <3>3 DEF Fetched, Watched, AddressesOf, Children
  <2>2. CASE t # Event
    <3>1. pc[Event] = "set"
      BY <1>1, <2>2 DEF IInv, Locked
    <3>2. Watched(path[Event]) /\ list[Event] = Children(path[Event])
      BY <3>1 DEF IInv, Fetched
    <3>3. QED
      BY <1>1, <2>2, <3>1, <3>2 DEF Fetched, Watched, Children
  <2>3. QED
    BY <2>1, <2>2
<1>5. Fresh'
  BY <1>1 DEF Fresh, Quiet
<1>6. QED
  BY <1>2, <1>3, <1>4, <1>5 DEF IInv

(* The map is full again; the monitor is released.                         *)
LEMMA FilledStep ==
  ASSUME IInv, NEW t \in Threads, Filled(t)
  PROVE  IInv'
<1> USE CallersAreThreads, PathFacts DEF zookeeper
<1>1. /\ pc[t] = "fill" /\ monitor = t /\ list[t] = {} /\ monitor' = None
      /\ refreshed' = IF t = Event THEN path[t] ELSE None
      /\ pc'[t] = IF t = Event THEN "idle" ELSE "flag"
      /\ t # Event => path'[t] = path[t]
      /\ \A u \in Threads : u # t => pc'[u] = pc[u] /\ path'[u] = path[u]
      /\ pc' \in [Threads -> {"idle", "read", "set", "fill", "flag"}]
      /\ path' \in [Threads -> Services \cup {None}]
      /\ UNCHANGED <<zookeeper, init, ipMap, list>>
  <2>1. CASE t = Event
    BY <2>1 DEF Filled, Leave, Goto, IInv, TypeOK, Locked
  <2>2. CASE t # Event
    BY <2>2 DEF Filled, Goto, IInv, TypeOK, Locked
  <2>3. QED
    BY <2>1, <2>2
<1>2. TypeOK'
  BY <1>1 DEF IInv, TypeOK
<1>3. Locked'
  BY <1>1 DEF IInv, Locked
<1>4. OneEvent'
  BY <1>1 DEF IInv, OneEvent
<1>5. Unused'
  BY <1>1 DEF IInv, Unused
<1>6. CASE t = Event
  <2>1. Fetched'
    BY <1>1, <1>6 DEF Fetched
  <2>2. Fresh'
    <3> DEFINE s == path[Event]
    <3>1. refreshed' = s /\ s \in Services
      BY <1>1, <1>6
    <3> SUFFICES ASSUME Quiet(refreshed)', NoneLost' PROVE Fresh'
      BY DEF Fresh
    <3>2. ~Announced(s) /\ NoneLost
      BY <1>1, <3>1 DEF Quiet, Announced, NoneLost
    <3>3. Watched(s) /\ ipMap \cup AddressesOf({}) = AddressesOf(Children(s))
      BY <1>1, <1>6, <3>2 DEF IInv, Fetched
    <3>4. AddressesOf({}) = {}
      BY DEF AddressesOf
    <3>5. ipMap = AddressesOf(Children(s))
      BY <3>3, <3>4
    <3>6. QED
      BY <1>1, <3>1, <3>3, <3>5 DEF Fresh, Watched, AddressesOf, Children
  <2>3. QED
    BY <1>2, <1>3, <1>4, <1>5, <2>1, <2>2 DEF IInv
<1>7. CASE t # Event
  <2>1. pc'[Event] = pc[Event] /\ path'[Event] = path[Event] /\ pc[Event] # "fill"
    BY <1>1, <1>7 DEF IInv, Locked
  <2>2. Fetched'
    <3> SUFFICES ASSUME pc[Event] = "set", ~Announced(path[Event]), NoneLost PROVE Fetched'
      BY <1>1, <2>1 DEF Fetched, Announced, NoneLost
    <3>1. Watched(path[Event]) /\ list[Event] = Children(path[Event])
      BY DEF IInv, Fetched
    <3>2. QED
      BY <1>1, <2>1, <3>1 DEF Fetched, Watched, Children
  <2>3. Fresh'
    BY <1>1, <1>7 DEF Fresh
  <2>4. QED
    BY <1>2, <1>3, <1>4, <1>5, <2>2, <2>3 DEF IInv
<1>8. QED
  BY <1>6, <1>7

(* The steps of servers, callers and the event thread.                     *)
LEMMA IInvStep ==
  ASSUME IInv, [Next]_vars
  PROVE  IInv'
<1>1. ASSUME UNCHANGED vars PROVE IInv'
  <2> USE <1>1 DEF IInv, vars, zookeeper, service
  <2>1. TypeOK' /\ Locked' /\ OneEvent' /\ Unused'
    BY DEF TypeOK, Locked, OneEvent, Unused
  <2>2. Fetched'
    BY DEF Fetched, Watched, Announced, NoneLost, AddressesOf, Children
  <2>3. Fresh'
    BY DEF Fresh, Quiet, Watched, NoneLost, AddressesOf, Children
  <2>4. QED
    BY <2>1, <2>2, <2>3
<1>2. ASSUME NEW c \in Callers, ReadFails(c) \/ SetInit(c) PROVE IInv'
  <2>1. PICK s \in Services : TRUE
    <3>1. path[c] \in Services
      BY <1>2, PathFacts, CallersAreThreads DEF ReadFails, SetInit
    <3>2. QED
      BY <3>1
  <2>2. QED
    BY <1>2, <2>1, CallerStep
<1>3. QED
  BY <1>1, <1>2, RegisterStep, NodeExpiresStep, CallerStep, ReadChildrenStep, ProcessStep,
     ClearStep, PutStep, FilledStep
  DEF Next, SetIpMap

(* The invariant holds always.                                             *)
LEMMA ZookeeperInvariant == Spec => []IInv
<1>1. QED
  BY InitIInv, IInvStep, PTL DEF Spec

-----------------------------------------------------------------------------
(* The fields keep their types: only addresses reach ipMap.                 *)
THEOREM ZookeeperType == Spec => []TypeOK
<1>1. IInv => TypeOK
  BY DEF IInv
<1>2. QED
  BY <1>1, ZookeeperInvariant, PTL

(* The watcher of getIp registers itself with the request that reads the    *)
(* children: the map that the event thread filled last is up to date when   *)
(* no event of its service is pending and no registration has failed.       *)
THEOREM ZookeeperNoUpdateMissed == Spec => []NoUpdateMissed
<1>1. IInv => NoUpdateMissed
  BY DEF IInv, Fresh, NoneLost, AddressesOf, NoUpdateMissed
<1>2. QED
  BY <1>1, ZookeeperInvariant, PTL

-----------------------------------------------------------------------------
(* The number of keys is that of a finite set of addresses.                 *)
LEMMA KeysFacts ==
  ASSUME TypeOK
  PROVE  /\ IsFiniteSet(ipMap) /\ Cardinality(ipMap) \in Nat
         /\ Cardinality(Addresses) \in Nat
         /\ \A a \in Addresses :
               /\ a \in ipMap => ipMap \cup {a} = ipMap
               /\ a \notin ipMap => /\ Cardinality(ipMap \cup {a}) = Cardinality(ipMap) + 1
                                   /\ Cardinality(ipMap) < Cardinality(Addresses)
<1>1. ipMap \subseteq Addresses /\ IsFiniteSet(Addresses)
  BY ZookeeperAssumption DEF TypeOK
<1>2. IsFiniteSet(ipMap) /\ Cardinality(ipMap) \in Nat /\ Cardinality(Addresses) \in Nat
  BY <1>1, FS_Subset, FS_CardinalityType
<1>3. ASSUME NEW a \in Addresses, a \notin ipMap
      PROVE  /\ Cardinality(ipMap \cup {a}) = Cardinality(ipMap) + 1
             /\ Cardinality(ipMap) < Cardinality(Addresses)
  <2>1. Cardinality(ipMap \cup {a}) = Cardinality(ipMap) + 1
    BY <1>2, <1>3, FS_AddElement
  <2>2. Cardinality(ipMap \cup {a}) <= Cardinality(Addresses)
    BY <1>1, FS_Subset
  <2>3. QED
    BY <1>2, <2>1, <2>2
<1>4. QED
  BY <1>2, <1>3

(* A step of the service refreshes the map or leaves it alone.              *)
LEMMA MapStep ==
  ASSUME IInv, [Next]_vars
  PROVE  Map!Refresh \/ UNCHANGED <<Cardinality(ipMap), monitor # None>>
<1> USE CallersAreThreads DEF service
<1>1. ASSUME UNCHANGED <<ipMap, monitor>> PROVE UNCHANGED <<Cardinality(ipMap), monitor # None>>
  BY <1>1
<1>2. ASSUME NEW t \in Threads, Clear(t) PROVE Map!Begin
  BY <1>2, FS_EmptySet DEF Clear, Map!Begin
<1>3. ASSUME NEW t \in Threads, NEW n \in Nodes, Put(t, n)
      PROVE  Map!Add \/ UNCHANGED <<Cardinality(ipMap), monitor # None>>
  <2>1. /\ n[2] \in Addresses /\ ipMap' = ipMap \cup {n[2]} /\ monitor = t /\ monitor' = monitor
    BY <1>3 DEF Put, Nodes, IInv, Locked
  <2>2. CASE n[2] \in ipMap
    <3>1. ipMap' = ipMap
      BY <2>1, <2>2
    <3>2. QED
      BY <2>1, <3>1
  <2>3. CASE n[2] \notin ipMap
    <3>1. Cardinality(ipMap') = Cardinality(ipMap) + 1 /\ Cardinality(ipMap) < Cardinality(Addresses)
      BY <2>1, <2>3, KeysFacts DEF IInv
    <3>2. monitor # None /\ monitor' = monitor
      BY <2>1
    <3>3. QED
      BY <3>1, <3>2 DEF Map!Add
  <2>4. QED
    BY <2>2, <2>3
<1>4. ASSUME NEW t \in Threads, Filled(t) PROVE Map!End
  BY <1>4 DEF Filled, Map!End, IInv, Locked
<1>5. QED
  BY <1>1, <1>2, <1>3, <1>4
  DEF Next, SetIpMap, Map!Refresh, Register, NodeExpires, GetIp, ReadChildren, ReadFails, Process, SetInit, vars

(* What the load balancers see of ipMap is one refresh after the other, as  *)
(* synchronized (ipMap) in setIpMap has it.                                 *)
THEOREM ZookeeperServesAddressMap == Spec => ServesAddressMap
<1>1. Init => Map!EmptyMap
  BY FS_EmptySet DEF Init, Map!EmptyMap
<1>2. QED
  BY <1>1, MapStep, ZookeeperInvariant, PTL DEF Spec, ServesAddressMap, Map!MapSpec
=============================================================================
