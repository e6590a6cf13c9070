---------------------------- MODULE Peers_proofs ----------------------------
(***************************************************************************)
(* The tables of the address manager are sound in every reachable state,   *)
(* in memory and on disk, for every set of addresses and every number of   *)
(* restarts.                                                               *)
(***************************************************************************)
EXTENDS Peers, TLAPS

-----------------------------------------------------------------------------
(* Keys. *)

\* The two hashes of an address are keys, and its key belongs to its group only.
LEMMA KeyFacts ==
  ASSUME TypeOK, NEW a \in Addrs
  PROVE  /\ MapKey(a) \in Keys /\ GroupKey(a) \in GroupKeys
         /\ MapKey(a) \in Grouped(GroupKey(a))
         /\ \A g \in GroupKeys : MapKey(a) \in Grouped(g) => g = GroupKey(a)
  BY PeersAssumption DEF TypeOK, MapKey, GroupKey, Keys, GroupKeys, Grouped

\* A stored peer is a record, so none is None.
LEMMA PeerFacts == None \notin Peer /\ None \notin Keys
  BY PeersAssumption DEF Peer

LEMMA EmptySound == Sound(Empty.mapPeers, Empty.newTbl, Empty.triedTbl)
  BY DEF Empty, Sound, Refers, Apart

-----------------------------------------------------------------------------
(* Types. *)

Snapshots == [mapPeers : [Keys -> Peer \cup {None}],
              newTbl : [GroupKeys -> Keys \cup {None}],
              triedTbl : [GroupKeys -> Keys \cup {None}]]

LEMMA EmptyType == Empty \in Snapshots
  BY DEF Empty, Snapshots

LEMMA SnapshotType == TypeOK => Snapshot \in Snapshots
  BY DEF TypeOK, MapOK, TableOK, Snapshot, Snapshots

\* Judging a known address again changes its quality and nothing else.
LEMMA JudgeType ==
  ASSUME TypeOK, NEW k \in Keys, mapPeers[k] # None,
         NEW q \in {"spared", "good", "terrible"}, Judge(k, q)
  PROVE  MapOK(mapPeers)'
<1>1. mapPeers[k] \in Peer
  BY DEF TypeOK, MapOK
<1>2. [mapPeers[k] EXCEPT !.quality = q] \in Peer
  BY <1>1 DEF Peer
<1>3. mapPeers' = [mapPeers EXCEPT ![k] = [mapPeers[k] EXCEPT !.quality = q]]
  BY DEF Judge
<1>4. QED  BY <1>2, <1>3 DEF TypeOK, MapOK

LEMMA EraseType ==
  ASSUME NEW table, TableOK(table), NEW g \in GroupKeys, NEW present
  PROVE  TableOK(Erase(table, g, present))
  BY DEF TableOK, Erase

LEMMA InsertType ==
  ASSUME NEW table, TableOK(table), NEW g \in GroupKeys, NEW k \in Keys
  PROVE  TableOK(Insert(table, g, k))
  BY DEF TableOK, Insert

LEMMA EraseRandType ==
  ASSUME TypeOK, NEW gone
  PROVE  EraseRand(gone) \in [Keys -> Nat]
  BY DEF TypeOK, EraseRand

\* The truncated files are well-formed.
LEMMA RestrictMapType ==
  ASSUME NEW map, MapOK(map), NEW kept
  PROVE  MapOK(Restrict(map, kept))
  BY DEF MapOK, Restrict

LEMMA RestrictTableType ==
  ASSUME NEW table, TableOK(table), NEW kept
  PROVE  TableOK(Restrict(table, kept))
  BY DEF TableOK, Restrict

LEMMA TruncatedShape ==
  ASSUME TypeOK, NEW f \in Truncated
  PROVE  \/ \E kept : /\ f.mapPeers = Restrict(mapPeers, kept)
                      /\ f.newTbl = Empty.newTbl /\ f.triedTbl = Empty.triedTbl
                      /\ f \in Snapshots
         \/ \E kept : /\ f.mapPeers = mapPeers
                      /\ f.newTbl = Restrict(newTbl, kept)
                      /\ f.triedTbl = Empty.triedTbl
                      /\ f \in Snapshots
         \/ \E kept : /\ f.mapPeers = mapPeers /\ f.newTbl = newTbl
                      /\ f.triedTbl = Restrict(triedTbl, kept)
                      /\ f \in Snapshots
<1>1. Empty \in Snapshots /\ Snapshot \in Snapshots
  BY EmptyType, SnapshotType
<1>2. MapOK(mapPeers) /\ TableOK(newTbl) /\ TableOK(triedTbl)
  BY DEF TypeOK
<1>3. CASE \E kept \in SUBSET Keys : f = [Empty EXCEPT !.mapPeers = Restrict(mapPeers, kept)]
  <2>1. PICK kept \in SUBSET Keys : f = [Empty EXCEPT !.mapPeers = Restrict(mapPeers, kept)]
    BY <1>3
  <2>2. Restrict(mapPeers, kept) \in [Keys -> Peer \cup {None}]
    BY <1>2, RestrictMapType DEF MapOK
  <2>3. QED  BY <1>1, <2>1, <2>2 DEF Snapshots
<1>4. CASE \E kept \in SUBSET GroupKeys :
             f = [Empty EXCEPT !.mapPeers = mapPeers, !.newTbl = Restrict(newTbl, kept)]
  <2>1. PICK kept \in SUBSET GroupKeys :
          f = [Empty EXCEPT !.mapPeers = mapPeers, !.newTbl = Restrict(newTbl, kept)]
    BY <1>4
  <2>2. Restrict(newTbl, kept) \in [GroupKeys -> Keys \cup {None}]
    BY <1>2, RestrictTableType DEF TableOK
  <2>3. mapPeers \in [Keys -> Peer \cup {None}]
    BY <1>2 DEF MapOK
  <2>4. QED  BY <1>1, <2>1, <2>2, <2>3 DEF Snapshots
<1>5. CASE \E kept \in SUBSET GroupKeys : f = [Snapshot EXCEPT !.triedTbl = Restrict(triedTbl, kept)]
  <2>1. PICK kept \in SUBSET GroupKeys : f = [Snapshot EXCEPT !.triedTbl = Restrict(triedTbl, kept)]
    BY <1>5
  <2>2. Restrict(triedTbl, kept) \in [GroupKeys -> Keys \cup {None}]
    BY <1>2, RestrictTableType DEF TableOK
  <2>3. Snapshot.mapPeers = mapPeers /\ Snapshot.newTbl = newTbl
    BY DEF Snapshot
  <2>4. QED  BY <1>1, <2>1, <2>2, <2>3 DEF Snapshots
<1>6. QED  BY <1>3, <1>4, <1>5 DEF Truncated

-----------------------------------------------------------------------------
(* What keeps the tables sound. *)

\* A key belongs to one group.
LEMMA OneGroup ==
  ASSUME NEW g \in GroupKeys, NEW h \in GroupKeys, NEW k \in Grouped(g), k \in Grouped(h)
  PROVE  k \in Keys /\ g = h
  BY DEF Grouped

\* Judging an address again makes none unknown.
LEMMA JudgeKeeps ==
  ASSUME TypeOK, NEW k \in Keys, mapPeers[k] # None,
         NEW q \in {"spared", "good", "terrible"}, Judge(k, q)
  PROVE  \A x \in Keys : mapPeers[x] # None => mapPeers'[x] # None
<1>1. MapOK(mapPeers)'
  BY JudgeType
<1>2. [mapPeers[k] EXCEPT !.quality = q] \in Peer
  BY DEF TypeOK, MapOK, Peer
<1>3. mapPeers'[k] # None
  BY <1>2, PeerFacts DEF Judge, TypeOK, MapOK
<1>4. \A x \in Keys : x # k => mapPeers'[x] = mapPeers[x]
  BY DEF Judge, TypeOK, MapOK
<1>5. QED  BY <1>3, <1>4

\* The tables in memory are sound after a step that leaves them alone and makes
\* no address unknown.
LEMMA SteadySound ==
  ASSUME Sound(mapPeers, newTbl, triedTbl), UNCHANGED <<newTbl, triedTbl>>,
         \A x \in Keys : mapPeers[x] # None => mapPeers'[x] # None
  PROVE  Sound(mapPeers, newTbl, triedTbl)'
<1>1. \A g \in GroupKeys : newTbl[g] # None => newTbl[g] \in Keys
  BY DEF Sound, Refers, Grouped
<1>2. \A g \in GroupKeys : triedTbl[g] # None => triedTbl[g] \in Keys
  BY DEF Sound, Refers, Grouped
<1>3. Refers(newTbl, mapPeers') /\ Refers(triedTbl, mapPeers')
  BY <1>1, <1>2 DEF Sound, Refers
<1>4. QED  BY <1>3 DEF Sound

-----------------------------------------------------------------------------
(* The tables in memory, one lemma for each action that changes them. *)

\* The member of a group that Add looks at is a known address of that group.
LEMMA MemberFacts ==
  ASSUME TypeOK, Sound(mapPeers, newTbl, triedTbl),
         NEW g \in GroupKeys, GroupMember(g) # None
  PROVE  GroupMember(g) \in Grouped(g) /\ mapPeers[GroupMember(g)] # None
  BY DEF GroupMember, Sound, Refers

LEMMA AddForgetsSound ==
  ASSUME TypeOK, Sound(mapPeers, newTbl, triedTbl), NEW a \in Addrs, AddForgets(a)
  PROVE  Sound(mapPeers, newTbl, triedTbl)'
<1> DEFINE g == GroupKey(a)
<1>1. /\ MapKey(a) \in Keys /\ g \in GroupKeys
      /\ \A h \in GroupKeys : MapKey(a) \in Grouped(h) => h = g
  BY KeyFacts
<1>2. \A h \in GroupKeys : newTbl'[h] # None => newTbl'[h] = newTbl[h] /\ newTbl[h] # MapKey(a)
  <2>1. \A h \in GroupKeys : newTbl[h] = MapKey(a) => h = g
    BY <1>1, PeerFacts DEF Sound, Refers
  <2>2. newTbl' = [newTbl EXCEPT ![g] = IF newTbl[g] = MapKey(a) THEN None ELSE newTbl[g]]
    BY DEF AddForgets, Erase, IsNew
  <2>3. QED  BY <1>1, <2>1, <2>2 DEF TypeOK, TableOK
<1>3. \A h \in GroupKeys :
        triedTbl'[h] # None => triedTbl'[h] = triedTbl[h] /\ triedTbl[h] # MapKey(a)
  <2>1. \A h \in GroupKeys : triedTbl[h] = MapKey(a) => h = g
    BY <1>1, PeerFacts DEF Sound, Refers
  <2>2. triedTbl[g] = MapKey(a) => newTbl[g] # MapKey(a)
    BY <1>1, PeerFacts DEF Sound, Apart
  <2>3. triedTbl' = [triedTbl EXCEPT ![g] = IF newTbl[g] # MapKey(a) /\ triedTbl[g] = MapKey(a)
                                            THEN None ELSE triedTbl[g]]
    BY DEF AddForgets, Erase, IsNew, IsTried
  <2>4. QED  BY <1>1, <2>1, <2>2, <2>3 DEF TypeOK, TableOK
<1>4. \A k \in Keys : k # MapKey(a) => mapPeers'[k] = mapPeers[k]
  BY DEF AddForgets, TypeOK, MapOK
<1>5. Refers(newTbl, mapPeers)' /\ Refers(triedTbl, mapPeers)'
  BY <1>2, <1>3, <1>4 DEF Sound, Refers, Grouped
<1>6. Apart(newTbl, triedTbl)'
  BY <1>2, <1>3 DEF Sound, Apart
<1>7. QED  BY <1>5, <1>6 DEF Sound

LEMMA AddNewSound ==
  ASSUME TypeOK, Sound(mapPeers, newTbl, triedTbl), NEW a \in Addrs,
         NEW quality \in {"good", "terrible"}, AddNew(a, quality)
  PROVE  Sound(mapPeers, newTbl, triedTbl)'
<1> DEFINE g == GroupKey(a)
           mk == MapKey(a)
           gone == Evicted(a)
<1>1. mk \in Keys /\ g \in GroupKeys /\ mk \in Grouped(g)
  BY KeyFacts
<1>2. mk # None /\ mapPeers[mk] = None
  BY <1>1, PeerFacts DEF AddNew, Known
<1>3. \A k \in gone : k \in Grouped(g) /\ k = GroupMember(g) /\ k # mk /\ k # None
  BY <1>1, <1>2, MemberFacts DEF Evicted
<1>4. mapPeers'[mk] # None /\ \A k \in Keys : k # mk /\ k \notin gone => mapPeers'[k] = mapPeers[k]
  <2>1. [addr |-> a, quality |-> quality] \in Peer
    BY DEF Peer
  <2>2. QED  BY <1>1, <2>1, PeerFacts DEF AddNew
<1>5. \A h \in GroupKeys : h # g => newTbl'[h] = newTbl[h] /\ triedTbl'[h] = triedTbl[h]
  BY <1>1 DEF AddNew, Erase, Insert, TypeOK, TableOK
<1>6. \A h \in GroupKeys : h # g => newTbl[h] \notin gone /\ triedTbl[h] \notin gone
  <2>1. \A h \in GroupKeys : newTbl[h] \in gone => h = g
    BY <1>1, <1>3, OneGroup DEF Sound, Refers
  <2>2. \A h \in GroupKeys : triedTbl[h] \in gone => h = g
    BY <1>1, <1>3, OneGroup DEF Sound, Refers
  <2>3. QED  BY <2>1, <2>2
<1>7. \/ newTbl'[g] = newTbl[g] /\ triedTbl'[g] = triedTbl[g] /\ gone = {}
      \/ newTbl'[g] = mk /\ triedTbl'[g] = None
  <2>1. CASE ~GroupIsFree(a)
    <3>1. gone = {}
      BY <2>1 DEF GroupIsFree
    <3>2. QED  BY <1>1, <2>1, <3>1 DEF AddNew, Erase, TypeOK, TableOK
  <2>2. CASE GroupMember(g) = None
    <3>1. newTbl[g] = None /\ triedTbl[g] = None
      BY <2>2 DEF GroupMember
    <3>2. newTbl' = [newTbl EXCEPT ![g] = mk]
      BY <1>1, <2>2, <3>1 DEF AddNew, GroupIsFree, Erase, Insert, TableEntry, TypeOK, TableOK
    <3>3. triedTbl'[g] = None
      BY <1>1, <3>1 DEF AddNew, Erase, TypeOK, TableOK
    <3>4. QED  BY <1>1, <3>2, <3>3 DEF TypeOK, TableOK
  <2>3. CASE GroupMember(g) # None /\ gone # {}
    <3>1. gone = {GroupMember(g)}
      BY <2>3 DEF Evicted
    <3>2. CASE newTbl[g] # None
      <4>1. newTbl[g] \in gone /\ triedTbl[g] = None
        BY <1>1, <3>1, <3>2 DEF GroupMember, Sound, Apart
      <4>2. newTbl'[g] = mk
        BY <1>1, <2>3, <4>1 DEF AddNew, GroupIsFree, Erase, Insert, TableEntry, TypeOK, TableOK
      <4>3. triedTbl'[g] = None
        BY <1>1, <4>1 DEF AddNew, Erase, TypeOK, TableOK
      <4>4. QED  BY <4>2, <4>3
    <3>3. CASE newTbl[g] = None
      <4>1. triedTbl[g] \in gone
        BY <3>1, <3>3 DEF GroupMember
      <4>2. newTbl'[g] = mk
        BY <1>1, <2>3, <3>3 DEF AddNew, GroupIsFree, Erase, Insert, TableEntry, TypeOK, TableOK
      <4>3. triedTbl'[g] = None
        BY <1>1, <3>3, <4>1 DEF AddNew, Erase, TypeOK, TableOK
      <4>4. QED  BY <4>2, <4>3
    <3>4. QED  BY <3>2, <3>3
  <2>4. QED  BY <2>1, <2>2, <2>3 DEF GroupIsFree
<1>8. \A k \in Keys : mapPeers[k] # None /\ k \notin gone => mapPeers'[k] # None
  BY <1>2, <1>4
<1>9. Refers(newTbl, mapPeers)'
  <2>1. ASSUME NEW h \in GroupKeys, newTbl'[h] # None
        PROVE  newTbl'[h] \in Grouped(h) /\ mapPeers'[newTbl'[h]] # None
    <3>1. CASE newTbl'[h] = newTbl[h] /\ newTbl[h] \notin gone
      BY <2>1, <3>1, <1>8, OneGroup DEF Sound, Refers, Grouped
    <3>2. CASE h = g /\ newTbl'[h] = mk
      BY <3>2, <1>1, <1>4
    <3>3. QED  BY <3>1, <3>2, <1>5, <1>6, <1>7
  <2>2. QED  BY <2>1 DEF Refers, Grouped
<1>10. Refers(triedTbl, mapPeers)'
  <2>1. ASSUME NEW h \in GroupKeys, triedTbl'[h] # None
        PROVE  triedTbl'[h] \in Grouped(h) /\ mapPeers'[triedTbl'[h]] # None
    <3>1. triedTbl'[h] = triedTbl[h] /\ triedTbl[h] \notin gone
      BY <2>1, <1>5, <1>6, <1>7
    <3>2. QED  BY <2>1, <3>1, <1>8 DEF Sound, Refers, Grouped
  <2>2. QED  BY <2>1 DEF Refers, Grouped
<1>11. Apart(newTbl, triedTbl)'
  BY <1>5, <1>7 DEF Sound, Apart
<1>12. QED  BY <1>9, <1>10, <1>11 DEF Sound

LEMMA MakeTriedSound ==
  ASSUME TypeOK, Sound(mapPeers, newTbl, triedTbl), NEW a \in Addrs, MakeTried(a)
  PROVE  Sound(mapPeers, newTbl, triedTbl)'
<1> DEFINE g == GroupKey(a)
           mk == MapKey(a)
<1>1. mk \in Keys /\ g \in GroupKeys /\ mk \in Grouped(g)
  BY KeyFacts
<1>2. mapPeers[mk] # None /\ Judge(mk, "spared")
  BY DEF MakeTried, SameAddr, Known
<1>3. \A k \in Keys : mapPeers[k] # None => mapPeers'[k] # None
  BY <1>1, <1>2, JudgeKeeps
<1>4. CASE IsTried(a)
  BY <1>3, <1>4, SteadySound DEF MakeTried
<1>5. CASE ~IsTried(a)
  <2>1. /\ newTbl' = [newTbl EXCEPT ![g] = None]
        /\ triedTbl' = [triedTbl EXCEPT ![g] = IF triedTbl[g] = None THEN mk ELSE triedTbl[g]]
    BY <1>5 DEF MakeTried, Insert, ReleaseNew, TableEntry
  <2>2. /\ newTbl'[g] = None
        /\ \A h \in GroupKeys : h # g => newTbl'[h] = newTbl[h] /\ triedTbl'[h] = triedTbl[h]
        /\ triedTbl'[g] = mk \/ triedTbl'[g] = triedTbl[g]
    BY <1>1, <2>1 DEF TypeOK, TableOK
  <2>3. Refers(newTbl, mapPeers)'
    BY <1>3, <2>2 DEF Sound, Refers, Grouped
  <2>4. Refers(triedTbl, mapPeers)'
    <3>1. ASSUME NEW h \in GroupKeys, triedTbl'[h] # None
          PROVE  triedTbl'[h] \in Grouped(h) /\ mapPeers'[triedTbl'[h]] # None
      <4>1. CASE triedTbl'[h] = triedTbl[h]
        BY <3>1, <4>1, <1>3 DEF Sound, Refers, Grouped
      <4>2. CASE h = g /\ triedTbl'[h] = mk
        BY <4>2, <1>1, <1>2, <1>3
      <4>3. QED  BY <2>2, <4>1, <4>2
    <3>2. QED  BY <3>1 DEF Refers, Grouped
  <2>5. Apart(newTbl, triedTbl)'
    BY <2>2 DEF Sound, Apart
  <2>6. QED  BY <2>3, <2>4, <2>5 DEF Sound
<1>6. QED  BY <1>4, <1>5

-----------------------------------------------------------------------------
(* Every step keeps the types. *)

\* The steps that leave the process, the random order and the disk alone.
LEMMA SteadyType ==
  ASSUME TypeOK, Steady, MapOK(mapPeers)', TableOK(newTbl)', TableOK(triedTbl)'
  PROVE  TypeOK'
  BY DEF TypeOK, Steady, disk

LEMMA AddForgetsType ==
  ASSUME TypeOK, NEW a \in Addrs, AddForgets(a)
  PROVE  TypeOK'
<1>1. MapKey(a) \in Keys /\ GroupKey(a) \in GroupKeys
  BY KeyFacts
<1>2. TableOK(newTbl)' /\ TableOK(triedTbl)'
  BY <1>1, EraseType DEF AddForgets, TypeOK
<1>3. MapOK(mapPeers)'
  BY <1>1 DEF AddForgets, TypeOK, MapOK
<1>4. randOrder' \in [Keys -> Nat]
  BY EraseRandType DEF AddForgets
<1>5. QED  BY <1>2, <1>3, <1>4 DEF AddForgets, TypeOK, disk

LEMMA AddNewType ==
  ASSUME TypeOK, NEW a \in Addrs, NEW quality \in {"good", "terrible"}, AddNew(a, quality)
  PROVE  TypeOK'
<1> DEFINE cleared == Erase(newTbl, GroupKey(a), newTbl[GroupKey(a)] \in Evicted(a))
<1>1. MapKey(a) \in Keys /\ GroupKey(a) \in GroupKeys
  BY KeyFacts
<1>2. TableOK(cleared)
  BY <1>1, EraseType DEF TypeOK
<1>3. TableOK(Insert(cleared, GroupKey(a), MapKey(a)))
  BY <1>1, <1>2, InsertType
<1>4. newTbl' = Insert(cleared, GroupKey(a), MapKey(a)) \/ newTbl' = newTbl
  BY DEF AddNew, TableEntry
<1>5. TableOK(newTbl)'
  BY <1>3, <1>4 DEF TypeOK, TableOK
<1>6. TableOK(triedTbl)'
  BY <1>1, EraseType DEF AddNew, TypeOK
<1>7. MapOK(mapPeers)'
  <2>1. [addr |-> a, quality |-> quality] \in Peer
    BY DEF Peer
  <2>2. QED  BY <2>1 DEF AddNew, TypeOK, MapOK
<1>8. randOrder' \in [Keys -> Nat]
  <2>1. EraseRand(Evicted(a)) \in [Keys -> Nat]
    BY EraseRandType
  <2>2. QED  BY <1>1, <2>1 DEF AddNew
<1>9. QED  BY <1>5, <1>6, <1>7, <1>8 DEF AddNew, TypeOK, disk

LEMMA MakeTriedType ==
  ASSUME TypeOK, NEW a \in Addrs, MakeTried(a)
  PROVE  TypeOK'
<1>1. MapKey(a) \in Keys /\ GroupKey(a) \in GroupKeys
  BY KeyFacts
<1>2. MapOK(mapPeers)'
  BY <1>1, JudgeType DEF MakeTried, SameAddr, Known
<1>3. TableOK(newTbl)'
  BY DEF MakeTried, ReleaseNew, TypeOK, TableOK
<1>4. TableOK(triedTbl)'
  <2>1. TableOK(Insert(triedTbl, GroupKey(a), MapKey(a)))
    BY <1>1, InsertType DEF TypeOK
  <2>2. QED  BY <2>1 DEF MakeTried, TableEntry, TypeOK, TableOK
<1>5. QED  BY <1>2, <1>3, <1>4, SteadyType DEF MakeTried

\* AddUpdates, Attempt, UpdateTime and TimePasses at most judge a known address.
Rejudged ==
  /\ \/ UNCHANGED mapPeers
     \/ \E k \in Keys, q \in {"spared", "good", "terrible"} :
          mapPeers[k] # None /\ Judge(k, q)
  /\ Steady /\ UNCHANGED <<newTbl, triedTbl>>

LEMMA RejudgedSteps ==
  ASSUME TypeOK
  PROVE  /\ \A a \in Addrs : AddUpdates(a) \/ Attempt(a) \/ UpdateTime(a) => Rejudged
         /\ \A k \in Keys : TimePasses(k) => Rejudged
<1>1. \A a \in Addrs : MapKey(a) \in Keys
  BY KeyFacts
<1>2. ASSUME NEW a \in Addrs, AddUpdates(a)
      PROVE  Rejudged
  BY <1>1, <1>2 DEF AddUpdates, Known, Rejudged
<1>3. ASSUME NEW a \in Addrs, Attempt(a)
      PROVE  Rejudged
  BY <1>1, <1>3 DEF Attempt, SameAddr, Known, Rejudged
<1>4. ASSUME NEW a \in Addrs, UpdateTime(a)
      PROVE  Rejudged
  BY <1>1, <1>4 DEF UpdateTime, SameAddr, Known, Rejudged
<1>5. ASSUME NEW k \in Keys, TimePasses(k)
      PROVE  Rejudged
  BY <1>5 DEF TimePasses, Rejudged
<1>6. QED  BY <1>2, <1>3, <1>4, <1>5

LEMMA RejudgedType ==
  ASSUME TypeOK, Rejudged
  PROVE  TypeOK'
<1>1. MapOK(mapPeers)'
  BY JudgeType DEF Rejudged, TypeOK, MapOK
<1>2. TableOK(newTbl)' /\ TableOK(triedTbl)'
  BY DEF Rejudged, TypeOK, TableOK
<1>3. QED  BY <1>1, <1>2, SteadyType DEF Rejudged

LEMMA RejudgedSound ==
  ASSUME TypeOK, Sound(mapPeers, newTbl, triedTbl), Rejudged
  PROVE  Sound(mapPeers, newTbl, triedTbl)'
<1>1. \A x \in Keys : mapPeers[x] # None => mapPeers'[x] # None
  BY JudgeKeeps DEF Rejudged
<1>2. QED  BY <1>1, SteadySound DEF Rejudged

-----------------------------------------------------------------------------
(* The disk. *)

\* A sound and well-formed file.
FileOK(f) == f \in Snapshots /\ Sound(f.mapPeers, f.newTbl, f.triedTbl)

LEMMA EmptyFile == FileOK(Empty)
  BY EmptyType, EmptySound DEF FileOK

\* What DumpPeers writes, to the end or up to any field, is sound when the tables
\* in memory are: no table comes before the addresses it refers to.
LEMMA DumpedFiles ==
  ASSUME TypeOK, Sound(mapPeers, newTbl, triedTbl)
  PROVE  FileOK(Snapshot) /\ \A f \in Truncated : FileOK(f)
<1>1. FileOK(Snapshot)
  BY SnapshotType DEF FileOK, Snapshot
<1>2. ASSUME NEW f \in Truncated
      PROVE  FileOK(f)
  <2>1. \A g \in GroupKeys : Empty.newTbl[g] = None /\ Empty.triedTbl[g] = None
    BY DEF Empty
  <2>2. CASE \E kept : /\ f.mapPeers = Restrict(mapPeers, kept)
                       /\ f.newTbl = Empty.newTbl /\ f.triedTbl = Empty.triedTbl
                       /\ f \in Snapshots
    BY <2>1, <2>2 DEF FileOK, Sound, Refers, Apart
  <2>3. CASE \E kept : /\ f.mapPeers = mapPeers
                       /\ f.newTbl = Restrict(newTbl, kept)
                       /\ f.triedTbl = Empty.triedTbl
                       /\ f \in Snapshots
    <3>1. PICK kept : /\ f.mapPeers = mapPeers
                      /\ f.newTbl = Restrict(newTbl, kept)
                      /\ f.triedTbl = Empty.triedTbl
                      /\ f \in Snapshots
      BY <2>3
    <3>2. \A g \in GroupKeys : f.newTbl[g] # None => f.newTbl[g] = newTbl[g]
      BY <3>1 DEF Restrict, TypeOK, TableOK
    <3>3. QED  BY <2>1, <3>1, <3>2 DEF FileOK, Sound, Refers, Apart
  <2>4. CASE \E kept : /\ f.mapPeers = mapPeers /\ f.newTbl = newTbl
                       /\ f.triedTbl = Restrict(triedTbl, kept)
                       /\ f \in Snapshots
    <3>1. PICK kept : /\ f.mapPeers = mapPeers /\ f.newTbl = newTbl
                      /\ f.triedTbl = Restrict(triedTbl, kept)
                      /\ f \in Snapshots
      BY <2>4
    <3>2. \A g \in GroupKeys : f.triedTbl[g] # None => f.triedTbl[g] = triedTbl[g]
      BY <3>1 DEF Restrict, TypeOK, TableOK
    <3>3. QED  BY <3>1, <3>2 DEF FileOK, Sound, Refers, Apart
  <2>5. QED  BY <2>2, <2>3, <2>4, TruncatedShape
<1>3. QED  BY <1>1, <1>2

LEMMA FileInvariant == IInv <=> TypeOK /\ Sound(mapPeers, newTbl, triedTbl) /\ FileOK(file)
  BY DEF IInv, FileOK, TypeOK, Snapshots

\* A process that goes down leaves a file, and its memory as it was.
LEMMA DownIInv ==
  ASSUME IInv, FileOK(file)', readable' \in BOOLEAN, running' = FALSE \/ running' = running,
         UNCHANGED <<run, tables, randOrder, restored>>
  PROVE  IInv'
<1>1. TypeOK'
  <2>1. running' \in BOOLEAN /\ restored' \in BOOLEAN /\ readable' \in BOOLEAN
    BY DEF IInv, TypeOK
  <2>2. run' \in 0..MaxRun /\ randOrder' \in [Keys -> Nat]
    BY DEF IInv, TypeOK
  <2>3. MapOK(mapPeers') /\ TableOK(newTbl') /\ TableOK(triedTbl')
    BY DEF IInv, TypeOK, tables
  <2>4. QED  BY <2>1, <2>2, <2>3 DEF TypeOK, FileOK, Snapshots
<1>2. Sound(mapPeers, newTbl, triedTbl)'
  BY DEF IInv, tables
<1>3. QED  BY <1>1, <1>2 DEF IInv, FileOK

LEMMA StartIInv ==
  ASSUME IInv, Start
  PROVE  IInv'
<1>1. FileOK(file')
  BY EmptyFile, FileInvariant DEF Start
<1>2. mapPeers' = file'.mapPeers /\ newTbl' = file'.newTbl /\ triedTbl' = file'.triedTbl
  BY DEF Start
<1>3. Sound(mapPeers', newTbl', triedTbl')
  BY <1>1, <1>2 DEF FileOK
<1>4. MapOK(mapPeers') /\ TableOK(newTbl') /\ TableOK(triedTbl')
  BY <1>1, <1>2 DEF FileOK, Snapshots, MapOK, TableOK
<1>5. run' \in 0..MaxRun
  BY PeersAssumption DEF Start, IInv, TypeOK
<1>6. randOrder' \in [Keys -> Nat]
  BY DEF Start
<1>7. running' \in BOOLEAN /\ readable' \in BOOLEAN
  BY DEF Start
<1>8. restored' \in BOOLEAN
  BY DEF Start, IInv, TypeOK
<1>9. QED  BY <1>1, <1>3, <1>4, <1>5, <1>6, <1>7, <1>8 DEF IInv, TypeOK, FileOK, Snapshots

-----------------------------------------------------------------------------
(* The theorems. *)

LEMMA InitIInv == Init => IInv
<1> SUFFICES ASSUME Init PROVE IInv
  OBVIOUS
<1>1. TypeOK
  <2>1. MapOK(mapPeers) /\ TableOK(newTbl) /\ TableOK(triedTbl)
    BY EmptyType DEF Init, MapOK, TableOK, Snapshots
  <2>2. run \in 0..MaxRun /\ randOrder \in [Keys -> Nat]
    BY PeersAssumption DEF Init
  <2>3. running \in BOOLEAN /\ readable \in BOOLEAN /\ restored \in BOOLEAN
    BY DEF Init
  <2>4. file \in Snapshots
    BY EmptyType DEF Init
  <2>5. QED  BY <2>1, <2>2, <2>3, <2>4 DEF TypeOK, Snapshots
<1>2. Sound(mapPeers, newTbl, triedTbl) /\ FileOK(file)
  BY EmptyFile DEF Init, FileOK
<1>3. QED  BY <1>1, <1>2, FileInvariant

LEMMA NextIInv == IInv /\ [Next]_vars => IInv'
<1> SUFFICES ASSUME IInv, [Next]_vars PROVE IInv'
  OBVIOUS
<1>1. TypeOK /\ Sound(mapPeers, newTbl, triedTbl) /\ FileOK(file)
  BY FileInvariant
<1>2. ASSUME TypeOK', Sound(mapPeers, newTbl, triedTbl)', UNCHANGED disk
      PROVE  IInv'
  BY <1>2 DEF IInv, disk
<1>3. ASSUME NEW a \in Addrs, AddForgets(a)
      PROVE  IInv'
  BY <1>1, <1>2, <1>3, AddForgetsType, AddForgetsSound DEF AddForgets
<1>4. ASSUME NEW a \in Addrs, NEW q \in {"good", "terrible"}, AddNew(a, q)
      PROVE  IInv'
  BY <1>1, <1>2, <1>4, AddNewType, AddNewSound DEF AddNew
<1>5. ASSUME NEW a \in Addrs, MakeTried(a)
      PROVE  IInv'
  BY <1>1, <1>2, <1>5, MakeTriedType, MakeTriedSound DEF MakeTried, Steady
<1>6. ASSUME Rejudged
      PROVE  IInv'
  BY <1>1, <1>2, <1>6, RejudgedType, RejudgedSound DEF Rejudged, Steady
<1>7. CASE Stop
  <2>1. FileOK(file)'
    BY <1>1, <1>7, DumpedFiles DEF Stop
  <2>2. QED  BY <1>7, <2>1, DownIInv DEF Stop
<1>8. CASE Crash
  <2>1. FileOK(file)'
    BY <1>1, <1>8 DEF Crash, disk
  <2>2. readable' \in BOOLEAN
    BY <1>1, <1>8 DEF Crash, disk, TypeOK
  <2>3. QED  BY <1>8, <2>1, <2>2, DownIInv DEF Crash
<1>9. CASE CrashInDump
  <2>1. FileOK(file)'
    BY <1>1, <1>9, DumpedFiles DEF CrashInDump
  <2>2. QED  BY <1>9, <2>1, DownIInv DEF CrashInDump
<1>10. CASE Start
  BY <1>10, StartIInv
<1>11. CASE StartFails
  <2>1. FileOK(file)'
    BY <1>11, EmptyFile DEF StartFails
  <2>2. QED  BY <1>11, <2>1, DownIInv DEF StartFails
<1>12. CASE UNCHANGED vars
  BY <1>12 DEF vars, tables, disk, IInv, TypeOK
<1>13. QED
  BY <1>1, <1>3, <1>4, <1>5, <1>6, <1>7, <1>8, <1>9, <1>10, <1>11, <1>12, RejudgedSteps
     DEF Next, Add

\* In every reachable state the tables of the address manager are sound, and so
\* is what DumpPeers has left on disk, wherever it was interrupted.
THEOREM Invariance == Spec => []IInv
<1>1. Init => IInv
  BY InitIInv
<1>2. IInv /\ [Next]_vars => IInv'
  BY NextIInv
<1>3. QED  BY <1>1, <1>2, PTL DEF Spec

\* The variables of the address manager keep their types, in every run of it.
THEOREM TypeCorrect == Spec => []TypeOK
<1>1. IInv => TypeOK
  BY DEF IInv
<1>2. QED  BY <1>1, Invariance, PTL

\* Every key in the new and the tried table is that of a known address of the
\* group it stands for: Select and FindSameGroup never dereference end().
THEOREM TablesSound == Spec => []TablesInMap
<1>1. IInv => TablesInMap
  BY DEF IInv, Sound, TablesInMap
<1>2. QED  BY <1>1, Invariance, PTL

\* No group has a place in both tables, MakeTried and the eviction of Add
\* included, and no restart from a truncated peers.dat brings it one.
THEOREM GroupsApart == Spec => []OneTable
<1>1. IInv => OneTable
  BY DEF IInv, Sound, OneTable
<1>2. QED  BY <1>1, Invariance, PTL

-----------------------------------------------------------------------------
(* What is forgotten, and the random order. *)

\* The known addresses: those the map has a peer for.
Stored(k) == mapPeers[k] # None

\* AddForgets gives up one address, which is terrible.
LEMMA ForgottenByAdd ==
  ASSUME TypeOK, NEW a \in Addrs, AddForgets(a)
  PROVE  /\ MapKey(a) \in Keys /\ Stored(MapKey(a)) /\ IsTerriblePeer(MapKey(a))
         /\ \A k \in Keys : Stored(k)' <=> Stored(k) /\ k # MapKey(a)
         /\ \A k \in Keys : randOrder'[k] = IF k = MapKey(a) /\ randOrder[k] > 0
                                            THEN randOrder[k] - 1 ELSE randOrder[k]
<1>1. MapKey(a) \in Keys
  BY KeyFacts
<1>2. Stored(MapKey(a)) /\ IsTerriblePeer(MapKey(a))
  BY DEF AddForgets, Known, Stored
<1>3. \A k \in Keys : mapPeers'[k] = IF k = MapKey(a) THEN None ELSE mapPeers[k]
  BY DEF AddForgets, TypeOK, MapOK
<1>4. \A k \in Keys : randOrder'[k] = IF k = MapKey(a) /\ randOrder[k] > 0
                                     THEN randOrder[k] - 1 ELSE randOrder[k]
  BY DEF AddForgets, EraseRand
<1>5. QED  BY <1>1, <1>2, <1>3, <1>4 DEF Stored

\* AddNew stores one address, and gives up at most the member it evicts.
LEMMA ForgottenByEviction ==
  ASSUME TypeOK, Sound(mapPeers, newTbl, triedTbl), NEW a \in Addrs,
         NEW quality \in {"good", "terrible"}, AddNew(a, quality)
  PROVE  /\ MapKey(a) \in Keys /\ ~Stored(MapKey(a)) /\ MapKey(a) \notin Evicted(a)
         /\ \A k \in Evicted(a) : Stored(k) /\ IsTerriblePeer(k)
         /\ \A k \in Keys :
              Stored(k)' <=> k = MapKey(a) \/ (Stored(k) /\ k \notin Evicted(a))
         /\ \A k \in Keys :
              randOrder'[k] = IF k = MapKey(a) THEN randOrder[k] + 1
                              ELSE IF k \in Evicted(a) /\ randOrder[k] > 0
                                   THEN randOrder[k] - 1 ELSE randOrder[k]
<1> DEFINE g == GroupKey(a)
           mk == MapKey(a)
           gone == Evicted(a)
<1>1. mk \in Keys /\ g \in GroupKeys /\ mapPeers[mk] = None
  BY KeyFacts DEF AddNew, Known
<1>2. \A k \in gone : mapPeers[k] # None /\ IsTerriblePeer(k)
  BY <1>1, MemberFacts DEF Evicted
<1>3. mk \notin gone
  BY <1>1, <1>2
<1>4. [addr |-> a, quality |-> quality] # None
  BY PeerFacts DEF Peer
<1>5. \A k \in Keys : mapPeers'[k] = IF k = mk THEN [addr |-> a, quality |-> quality]
                                    ELSE IF k \in gone THEN None ELSE mapPeers[k]
  BY DEF AddNew
<1>6. \A k \in Keys : Stored(k)' <=> k = mk \/ (Stored(k) /\ k \notin gone)
  BY <1>4, <1>5 DEF Stored
<1>7. \A k \in Keys :
        randOrder'[k] = IF k = mk THEN EraseRand(gone)[k] + 1 ELSE EraseRand(gone)[k]
  BY EraseRandType DEF AddNew
<1>8. \A k \in Keys : EraseRand(gone)[k] = IF k \in gone /\ randOrder[k] > 0
                                          THEN randOrder[k] - 1 ELSE randOrder[k]
  BY DEF EraseRand
<1>9. \A k \in Keys :
        randOrder'[k] = IF k = mk THEN randOrder[k] + 1
                        ELSE IF k \in gone /\ randOrder[k] > 0
                             THEN randOrder[k] - 1 ELSE randOrder[k]
  BY <1>3, <1>7, <1>8
<1>10. QED  BY <1>1, <1>2, <1>3, <1>6, <1>9 DEF Stored

\* The other steps of a running process store and forget no address.
LEMMA OthersForgetNothing ==
  ASSUME TypeOK, Rejudged \/ (\E a \in Addrs : MakeTried(a))
  PROVE  UNCHANGED randOrder /\ UNCHANGED restored
         /\ \A k \in Keys : Stored(k)' <=> Stored(k)
<1>1. /\ \/ UNCHANGED mapPeers
         \/ \E k \in Keys, q \in {"spared", "good", "terrible"} :
              mapPeers[k] # None /\ Judge(k, q)
      /\ UNCHANGED randOrder /\ UNCHANGED restored
  <2>1. \A a \in Addrs : MapKey(a) \in Keys
    BY KeyFacts
  <2>2. QED  BY <2>1 DEF Rejudged, MakeTried, SameAddr, Known, Steady
<1>2. CASE UNCHANGED mapPeers
  BY <1>1, <1>2 DEF Stored
<1>3. ASSUME NEW k \in Keys, NEW q \in {"spared", "good", "terrible"},
             mapPeers[k] # None, Judge(k, q)
      PROVE  \A x \in Keys : Stored(x)' <=> Stored(x)
  <2>1. \A x \in Keys : x # k => mapPeers'[x] = mapPeers[x]
    BY <1>3 DEF Judge, TypeOK, MapOK
  <2>2. mapPeers'[k] # None
    BY <1>3, JudgeKeeps
  <2>3. QED  BY <1>3, <2>1, <2>2 DEF Stored
<1>4. QED  BY <1>1, <1>2, <1>3

\* While the process runs, Add forgets only addresses IsTerriblePeer gives up
\* (peers.cpp:68-76, 106-114), and nothing else forgets any.
THEOREM OnlyTheTerribleAreForgotten == Spec => OnlyTerribleForgotten
<1> DEFINE Kept == running /\ running' =>
                     \A k \in Keys : mapPeers[k] # None /\ mapPeers'[k] = None
                                       => IsTerriblePeer(k)
<1>1. ASSUME IInv, Next  PROVE Kept
  <2>0. TypeOK /\ Sound(mapPeers, newTbl, triedTbl)
    BY <1>1 DEF IInv
  <2>1. ASSUME NEW a \in Addrs, AddForgets(a)  PROVE Kept
    BY <2>0, <2>1, ForgottenByAdd DEF Stored
  <2>2. ASSUME NEW a \in Addrs, NEW q \in {"good", "terrible"}, AddNew(a, q)
        PROVE  Kept
    BY <2>0, <2>2, ForgottenByEviction DEF Stored
  <2>3. CASE Rejudged \/ \E a \in Addrs : MakeTried(a)
    BY <2>0, <2>3, OthersForgetNothing DEF Stored
  <2>4. CASE Stop \/ Crash \/ CrashInDump \/ Start \/ StartFails
    BY <2>4 DEF Stop, Crash, CrashInDump, Start, StartFails
  <2> HIDE DEF Kept
  <2>5. QED
    BY <1>1, <2>0, <2>1, <2>2, <2>3, <2>4, RejudgedSteps DEF Next, Add
<1>2. IInv /\ [Next]_vars => [Kept]_vars
  BY <1>1
<1>3. QED  BY Invariance, <1>2, PTL DEF Spec, OnlyTerribleForgotten

\* The random order lists every known address once, as long as no run began with
\* addresses on disk (rand_order_keys_ is not rebuilt by LoadPeers).
THEOREM RandOrderListsAll == Spec => []RandOrderUntilRestored
<1>1. Init => RandOrderUntilRestored
  BY DEF Init, Empty, RandOrderUntilRestored, RandOrderOfAllKeys
<1>2. ASSUME IInv, RandOrderUntilRestored, Next  PROVE RandOrderUntilRestored'
  <2>0. TypeOK /\ Sound(mapPeers, newTbl, triedTbl)
    BY <1>2 DEF IInv
  <2>1. ASSUME NEW a \in Addrs, AddForgets(a)  PROVE RandOrderUntilRestored'
    <3>1. restored' = restored
      BY <2>1 DEF AddForgets
    <3>2. QED
      BY <1>2, <2>0, <2>1, <3>1, ForgottenByAdd
         DEF Stored, RandOrderUntilRestored, RandOrderOfAllKeys
  <2>2. ASSUME NEW a \in Addrs, NEW q \in {"good", "terrible"}, AddNew(a, q)
        PROVE  RandOrderUntilRestored'
    <3>1. restored' = restored
      BY <2>2 DEF AddNew
    <3>2. QED
      BY <1>2, <2>0, <2>2, <3>1, ForgottenByEviction
         DEF Stored, RandOrderUntilRestored, RandOrderOfAllKeys
  <2>3. CASE Rejudged \/ \E a \in Addrs : MakeTried(a)
    BY <1>2, <2>0, <2>3, OthersForgetNothing
       DEF Stored, RandOrderUntilRestored, RandOrderOfAllKeys
  <2>4. CASE Stop \/ Crash \/ CrashInDump \/ StartFails
    BY <1>2, <2>4 DEF Stop, Crash, CrashInDump, StartFails, tables,
                      RandOrderUntilRestored, RandOrderOfAllKeys
  <2>5. CASE Start
    <3>1. PICK loaded : /\ mapPeers' = loaded.mapPeers
                        /\ restored' = (restored \/ loaded # Empty)
                        /\ randOrder' = [k \in Keys |-> 0]
      BY <2>5 DEF Start
    <3>2. SUFFICES ASSUME ~restored'  PROVE RandOrderOfAllKeys'
      BY DEF RandOrderUntilRestored
    <3>3. mapPeers' = [k \in Keys |-> None]
      <4>1. loaded = Empty
        BY <3>1, <3>2, Zenon
      <4>2. QED  BY <3>1, <4>1 DEF Empty
    <3>4. QED  BY <3>1, <3>3 DEF RandOrderOfAllKeys
  <2>6. QED
    BY <1>2, <2>0, <2>1, <2>2, <2>3, <2>4, <2>5, RejudgedSteps DEF Next, Add
<1>3. RandOrderUntilRestored /\ UNCHANGED vars => RandOrderUntilRestored'
  BY DEF vars, tables, RandOrderUntilRestored, RandOrderOfAllKeys
<1>4. QED  BY Invariance, <1>1, <1>2, <1>3, PTL DEF Spec
=============================================================================
