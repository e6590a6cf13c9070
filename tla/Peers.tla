------------------------------- MODULE Peers -------------------------------
(***************************************************************************)
(* The address manager, Peers (network/src/peers.cpp): the known addresses,*)
(* the tables of new and tried ones with one address for each network      *)
(* group, the random order, and peers.dat, which a stop writes and a start *)
(* reads (PeersDb, called by P2P::Stop and P2P::Init).                     *)
(*                                                                         *)
(* Addresses are stored under hashes salted with key_, which each process  *)
(* draws anew: a hash is the pair of the run that computed it and what was *)
(* hashed.  Of a stored peer the model keeps its address and how           *)
(* IsTerriblePeer judges it: "spared" (tried within the last minute),      *)
(* "good" or "terrible".  Every method holds cs_peers_.                    *)
(*                                                                         *)
(* An operator named X_Y is the definition X with the programming mistake  *)
(* Y; no definition uses it.                                               *)
(***************************************************************************)
EXTENDS Naturals

CONSTANTS Addrs,    \* addresses with their port
          Ips, Groups,
          IpOf,     \* the address without its port
          GroupOf,  \* the network group of an ip
          MaxRun,   \* bound on the number of restarts
          None

Keys      == (0..MaxRun) \X Ips
GroupKeys == (0..MaxRun) \X Groups

ASSUME PeersAssumption ==
  /\ MaxRun \in Nat
  /\ IpOf \in [Addrs -> Ips] /\ GroupOf \in [Ips -> Groups]
  /\ None \notin Keys
  /\ None \notin [addr : Addrs, quality : {"spared", "good", "terrible"}]

VARIABLES
  run,       \* how often the process was restarted: stands for key_
  running,   \* the process is up
  mapPeers,  \* proto_peers_.map_peers
  newTbl,    \* proto_peers_.new_tbl
  triedTbl,  \* proto_peers_.tried_tbl
  randOrder, \* how often each key is in rand_order_keys_
  file,      \* what peers.dat holds
  readable,  \* ParseFromIstream accepts peers.dat
  restored   \* history: a run began with addresses read from peers.dat

tables == <<mapPeers, newTbl, triedTbl>>
disk   == <<file, readable>>
vars   == <<run, running, tables, randOrder, disk, restored>>

-----------------------------------------------------------------------------

\* MakeMapKey(addr) and MakeMapKey(addr, true).
MapKey(a)   == <<run, IpOf[a]>>
GroupKey(a) == <<run, GroupOf[IpOf[a]]>>

\* Find, and the comparison with the stored address that follows it.
Known(a)   == mapPeers[MapKey(a)] # None
IsNew(a)   == newTbl[GroupKey(a)] = MapKey(a)
IsTried_Unset(a) == FALSE
IsTried(a) == triedTbl[GroupKey(a)] = MapKey(a)
SameAddr(a) == Known(a) /\ mapPeers[MapKey(a)].addr = a

IsTerriblePeer(k) == mapPeers[k].quality = "terrible"

\* FindSameGroup looks in the new table first.
GroupMember(g) == IF newTbl[g] # None THEN newTbl[g] ELSE triedTbl[g]

\* erase and insert of a protobuf map; insert leaves an entry that is there.
Erase(table, g, present) == [table EXCEPT ![g] = IF present THEN None ELSE @]
Insert(table, g, k) == [table EXCEPT ![g] = IF @ = None THEN k ELSE @]

\* EraseRand, for every key of a set.
EraseRand_Forgotten(gone) == randOrder
EraseRand(gone) ==
  [k \in Keys |-> IF k \in gone /\ randOrder[k] > 0 THEN randOrder[k] - 1 ELSE randOrder[k]]

\* A method that changes neither the random order nor what is on disk.
Steady == UNCHANGED <<run, running, randOrder, disk, restored>>

Judge(k, quality) == mapPeers' = [mapPeers EXCEPT ![k].quality = quality]

-----------------------------------------------------------------------------
(* Add. *)

\* A known address, now terrible, is forgotten and not added.
AddForgets(a) ==
  LET g == GroupKey(a) IN
  /\ running /\ Known(a)
  /\ IsTerriblePeer(MapKey(a))
  /\ newTbl' = Erase(newTbl, g, IsNew(a))
  /\ triedTbl' = Erase(triedTbl, g, ~IsNew(a) /\ IsTried(a))
  /\ mapPeers' = [mapPeers EXCEPT ![MapKey(a)] = None]
  /\ randOrder' = EraseRand({MapKey(a)})
  /\ UNCHANGED <<run, running, disk, restored>>

\* A known one may get a later time stamp, even one too far in the future.
AddUpdates(a) ==
  /\ running /\ Known(a)
  /\ ~IsTerriblePeer(MapKey(a))
  /\ \/ UNCHANGED mapPeers
     \/ mapPeers[MapKey(a)].quality = "good" /\ Judge(MapKey(a), "terrible")
  /\ Steady /\ UNCHANGED <<newTbl, triedTbl>>

\* An unknown one takes its group's place in the new table when that is free, or
\* when the group's member is terrible, which is then forgotten.
Evicted_Always(a) == {GroupMember(GroupKey(a))} \ {None}
Evicted(a) ==
  LET member == GroupMember(GroupKey(a))
  IN IF member # None /\ IsTerriblePeer(member) THEN {member} ELSE {}

GroupIsFree(a) == GroupMember(GroupKey(a)) = None \/ Evicted(a) # {}

TableEntry(a) == MapKey(a)

AddNew(a, quality) ==
  LET g == GroupKey(a)
      cleared == Erase(newTbl, g, newTbl[g] \in Evicted(a))
  IN
  /\ running /\ ~Known(a)
  /\ newTbl' = IF GroupIsFree(a) THEN Insert(cleared, g, TableEntry(a)) ELSE newTbl
  /\ triedTbl' = Erase(triedTbl, g, newTbl[g] = None /\ triedTbl[g] \in Evicted(a))
  /\ mapPeers' = [k \in Keys |->
                    IF k = MapKey(a) THEN [addr |-> a, quality |-> quality]
                    ELSE IF k \in Evicted(a) THEN None ELSE mapPeers[k]]
  /\ randOrder' = [EraseRand(Evicted(a)) EXCEPT ![MapKey(a)] = @ + 1]
  /\ UNCHANGED <<run, running, disk, restored>>

-----------------------------------------------------------------------------
(* The calls of the connector and of the handlers. *)

\* MakeTried, after a connection succeeded: last_try is now.
ReleaseNew_Forgotten(g) == newTbl
ReleaseNew(g) == [newTbl EXCEPT ![g] = None]

MakeTried(a) ==
  /\ running /\ SameAddr(a)
  /\ Judge(MapKey(a), "spared")
  /\ IF IsTried(a)
     THEN UNCHANGED <<newTbl, triedTbl>>
     ELSE /\ triedTbl' = Insert(triedTbl, GroupKey(a), TableEntry(a))
          /\ newTbl' = ReleaseNew(GroupKey(a))
  /\ Steady

\* Attempt sets last_try.
Attempt(a) ==
  /\ running /\ SameAddr(a)
  /\ Judge(MapKey(a), "spared")
  /\ Steady /\ UNCHANGED <<newTbl, triedTbl>>

\* UpdateTime may replace a time stamp long past.
UpdateTime(a) ==
  /\ running /\ SameAddr(a)
  /\ \/ UNCHANGED mapPeers
     \/ IsTerriblePeer(MapKey(a)) /\ Judge(MapKey(a), "good")
  /\ Steady /\ UNCHANGED <<newTbl, triedTbl>>

\* The minute after an attempt passes, time stamps grow old, and those in the
\* future are reached.
TimePasses(k) ==
  /\ running /\ mapPeers[k] # None
  /\ \/ mapPeers[k].quality = "spared" /\ Judge(k, "good")
     \/ mapPeers[k].quality # "terrible" /\ Judge(k, "terrible")
     \/ mapPeers[k].quality = "terrible" /\ Judge(k, "good")
  /\ Steady /\ UNCHANGED <<newTbl, triedTbl>>

-----------------------------------------------------------------------------
(* Stop, crash and start. *)

Snapshot == [mapPeers |-> mapPeers, newTbl |-> newTbl, triedTbl |-> triedTbl]
Empty == [mapPeers |-> [k \in Keys |-> None], newTbl |-> [g \in GroupKeys |-> None],
          triedTbl |-> [g \in GroupKeys |-> None]]

\* DumpPeers to the end.
Stop ==
  /\ running
  /\ running' = FALSE
  /\ file' = Snapshot /\ readable' = TRUE
  /\ UNCHANGED <<run, tables, randOrder, restored>>

\* A crash outside DumpPeers leaves the file of the last one.
Crash ==
  /\ running
  /\ running' = FALSE
  /\ UNCHANGED <<run, tables, randOrder, disk, restored>>

\* A crash in the middle of DumpPeers truncates the file.  Cut at the end of a
\* field it can still be parsed: the peers come first, then the new table, then
\* the tried one.
Restrict(f, kept) == [x \in DOMAIN f |-> IF x \in kept THEN f[x] ELSE None]

Truncated ==
  {[Empty EXCEPT !.mapPeers = Restrict(mapPeers, kept)] : kept \in SUBSET Keys}
  \cup {[Empty EXCEPT !.mapPeers = mapPeers, !.newTbl = Restrict(newTbl, kept)] :
           kept \in SUBSET GroupKeys}
  \cup {[Snapshot EXCEPT !.triedTbl = Restrict(triedTbl, kept)] : kept \in SUBSET GroupKeys}

CrashInDump ==
  /\ running
  /\ running' = FALSE
  /\ \/ file' \in Truncated /\ readable' = TRUE
     \/ readable' = FALSE /\ UNCHANGED file
  /\ UNCHANGED <<run, tables, randOrder, restored>>

\* P2P::Init with a new key_: LoadPeers, or else an empty manager that is dumped.
Start ==
  /\ ~running /\ run < MaxRun
  /\ running' = TRUE
  /\ run' = run + 1
  /\ LET loaded == IF readable THEN file ELSE Empty IN
       /\ mapPeers' = loaded.mapPeers
       /\ newTbl' = loaded.newTbl
       /\ triedTbl' = loaded.triedTbl
       /\ file' = loaded
       /\ restored' = (restored \/ loaded # Empty)
  /\ readable' = TRUE
  /\ randOrder' = [k \in Keys |-> 0]

\* FullNode::Init fails before LoadPeers, the listening port being taken for
\* instance: main goes on to P2P::Stop, which dumps the empty manager.
StartFails ==
  /\ ~running
  /\ file' = Empty /\ readable' = TRUE
  /\ UNCHANGED <<run, running, tables, randOrder, restored>>

-----------------------------------------------------------------------------

Init ==
  /\ run = 0 /\ running = TRUE
  /\ mapPeers = Empty.mapPeers /\ newTbl = Empty.newTbl /\ triedTbl = Empty.triedTbl
  /\ randOrder = [k \in Keys |-> 0]
  /\ file = Empty /\ readable = TRUE
  /\ restored = FALSE

Add(a) == AddForgets(a) \/ AddUpdates(a) \/ \E q \in {"good", "terrible"} : AddNew(a, q)

Next ==
  \/ \E a \in Addrs : Add(a) \/ MakeTried(a) \/ Attempt(a) \/ UpdateTime(a)
  \/ \E k \in Keys : TimePasses(k)
  \/ Stop \/ Crash \/ CrashInDump \/ Start \/ StartFails

Spec == Init /\ [][Next]_vars

-----------------------------------------------------------------------------
(* Properties. *)

Peer == [addr : Addrs, quality : {"spared", "good", "terrible"}]

MapOK(map)  == map \in [Keys -> Peer \cup {None}]
TableOK(table) == table \in [GroupKeys -> Keys \cup {None}]

TypeOK ==
  /\ run \in 0..MaxRun
  /\ running \in BOOLEAN /\ readable \in BOOLEAN /\ restored \in BOOLEAN
  /\ MapOK(mapPeers) /\ TableOK(newTbl) /\ TableOK(triedTbl)
  /\ file \in [mapPeers : [Keys -> Peer \cup {None}],
               newTbl : [GroupKeys -> Keys \cup {None}],
               triedTbl : [GroupKeys -> Keys \cup {None}]]
  /\ randOrder \in [Keys -> Nat]

\* Every key in a table is the key of a known address of that group: Select and
\* FindSameGroup dereference map_peers().find(key) without a test.
Grouped(g) == {k \in Keys : g = <<k[1], GroupOf[k[2]]>>}

Refers(table, map) ==
  \A g \in GroupKeys : table[g] # None => table[g] \in Grouped(g) /\ map[table[g]] # None

TablesInMap == Refers(newTbl, mapPeers) /\ Refers(triedTbl, mapPeers)

\* A group has a place in one of the tables only: an address moved to the tried
\* table is in the new one no more, nor is another of its group.
Apart(new, tried) == \A g \in GroupKeys : new[g] = None \/ tried[g] = None

OneTable == Apart(newTbl, triedTbl)

\* While the process runs, only terrible addresses are forgotten, never one
\* tried within the last minute.
OnlyTerribleForgotten ==
  [][running /\ running' =>
       \A k \in Keys : mapPeers[k] # None /\ mapPeers'[k] = None => IsTerriblePeer(k)]_vars

\* rand_order_keys_ is a "randomly-ordered vector of all map_keys" (peers.h:89):
\* GetAddrs indexes it up to a share of the number of addresses.
RandOrderOfAllKeys ==
  \A k \in Keys : randOrder[k] = IF mapPeers[k] # None THEN 1 ELSE 0

\* That holds until the first restart with addresses on disk.
RandOrderUntilRestored == ~restored => RandOrderOfAllKeys

\* key_ is a "clone of the peers_.key for writing hash stream" (peers.h:92), so
\* that the addresses loaded from disk are found again.
KnownAreFound == running => \A k \in Keys : mapPeers[k] # None => k[1] = run

\* The inductive invariant: the tables are sound, in memory and on disk.
Sound(map, new, tried) == Refers(new, map) /\ Refers(tried, map) /\ Apart(new, tried)

IInv ==
  /\ TypeOK
  /\ Sound(mapPeers, newTbl, triedTbl)
  /\ Sound(file.mapPeers, file.newTbl, file.triedTbl)
=============================================================================
