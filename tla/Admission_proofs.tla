-------------------------- MODULE Admission_proofs --------------------------
(***************************************************************************)
(* However disconnections, bans, the clock, crashes and restarts come      *)
(* between the test of an attempt and the listing of its node, the limits, *)
(* the uniqueness of outbound nodes and the bans hold; for every set of    *)
(* addresses and every limit.                                              *)
(***************************************************************************)
EXTENDS Admission, FiniteSetTheorems, TLAPS

-----------------------------------------------------------------------------
(* What a thread may rely on from its test to its listing.                 *)

\* A history is only kept while its ban is in force.
BarredIsBanned(task) == task.barred => task.addr \in Addrs /\ IsBanned(task.addr)

\* The outbound timer's thread is the only one that lists outbound nodes: what
\* it has tested of their list stays true.
ConnectingOK ==
  /\ connecting.at = "idle" => connecting = Idle
  /\ connecting.at \in {"test", "list"} =>
       connecting.addr \in Addrs /\ HasRoom(Outs, MaxOutbound)
  /\ connecting.at = "list" => ~connecting.barred /\ ~AlreadyConnected(connecting.addr)
  /\ connecting.at = "register" =>
       ~connecting.barred /\ connecting.node \in Listed(Outs) \ registered
  /\ BarredIsBanned(connecting)

\* The acceptor's thread is the only one that lists inbound nodes.
AcceptingOK ==
  /\ accepting.at \in {"idle", "list"}
  /\ accepting.at = "idle" => accepting = Idle
  /\ accepting.at = "list" =>
       accepting.addr \in Addrs /\ ~accepting.barred /\ HasRoom(Ins, MaxInbound)
  /\ BarredIsBanned(accepting)

\* Nobody is banned by a process that does not run.
StoppedOK == ~running => bans = [a \in Addrs |-> 0]

\* A ban that banlist.dat has is also in the list of the process that loaded it.
DiskOK == running => \A a \in Addrs : file[a] > now => bans[a] >= file[a]

IInv ==
  /\ TypeOK /\ WithinLimits /\ OneOutboundEach /\ ConnectingOK /\ AcceptingOK
  /\ StoppedOK /\ DiskOK

-----------------------------------------------------------------------------
(* Counting nodes. *)

LEMMA Counted ==
  ASSUME NEW names, names \in {Outs, Ins}
  PROVE  /\ IsFiniteSet(names)
         /\ IsFiniteSet(Listed(names)) /\ Cardinality(Listed(names)) \in Nat
         /\ \A S \in SUBSET Listed(names) : Cardinality(S) \in Nat
                                            /\ Cardinality(S) <= Cardinality(Listed(names))
<1>1. IsFiniteSet(names)
  BY AdmissionAssumption
<1>2. Listed(names) \in SUBSET names
  BY DEF Listed
<1>3. IsFiniteSet(Listed(names))
  BY <1>1, <1>2, FS_Subset
<1>4. \A S \in SUBSET Listed(names) :
        IsFiniteSet(S) /\ Cardinality(S) <= Cardinality(Listed(names))
  BY <1>3, FS_Subset
<1>5. QED  BY <1>1, <1>3, <1>4, FS_CardinalityType

LEMMA LimitsType == MaxOutbound \in Nat /\ MaxInbound \in Nat
                    /\ MaxOutbound <= Cardinality(Outs) /\ MaxInbound <= Cardinality(Ins)
<1>1. Cardinality(Outs) \in Nat /\ Cardinality(Ins) \in Nat
  BY AdmissionAssumption, FS_CardinalityType
<1>2. QED  BY <1>1, AdmissionAssumption

\* While there is room there is a free name: the limit is no higher than the
\* number of names.
LEMMA FreeNameExists ==
  ASSUME NEW names, NEW limit,
         \/ names = Outs /\ limit = MaxOutbound
         \/ names = Ins /\ limit = MaxInbound,
         HasRoom(names, limit)
  PROVE  FreeName(names) \in names /\ addr[FreeName(names)] = None
<1>1. \E n \in names : addr[n] = None
  <2>1. SUFFICES ASSUME \A n \in names : addr[n] # None  PROVE FALSE
    OBVIOUS
  <2>2. Listed(names) = names
    BY <2>1 DEF Listed
  <2>3. Cardinality(names) \in Nat /\ limit \in Nat /\ limit <= Cardinality(names)
    BY LimitsType, AdmissionAssumption, FS_CardinalityType
  <2>4. QED  BY <2>2, <2>3 DEF HasRoom
<1>2. QED  BY <1>1 DEF FreeName

\* A node that is listed takes the room that was tested.
LEMMA OneMore ==
  ASSUME NEW names \in {Outs, Ins}, NEW limit \in Nat, HasRoom(names, limit), NEW n \in names
  PROVE  Cardinality(Listed(names) \cup {n}) <= limit
<1>1. IsFiniteSet(Listed(names)) /\ Cardinality(Listed(names)) \in Nat
  BY Counted
<1>2. \/ Cardinality(Listed(names) \cup {n}) = Cardinality(Listed(names))
      \/ Cardinality(Listed(names) \cup {n}) = Cardinality(Listed(names)) + 1
  BY <1>1, FS_AddElement
<1>3. QED  BY <1>1, <1>2 DEF HasRoom

-----------------------------------------------------------------------------
(* Types. *)

LEMMA IdleType == Idle \in Task
  BY DEF Idle, Task

LEMMA SweptType ==
  ASSUME NEW b \in [Addrs -> Nat], NEW s \in Swept(b)
  PROVE  s \in [Addrs -> Nat]
  BY DEF Swept

LEMMA GoneType ==
  ASSUME TypeOK, Gone, file' \in [Addrs -> Nat]
  PROVE  TypeOK'
<1>1. connecting' \in Task /\ accepting' \in Task
  BY IdleType DEF Gone
<1>2. banning' \in Addrs \cup {None} /\ running' \in BOOLEAN /\ now' \in Nat
      /\ bans' \in [Addrs -> Nat]
  BY DEF TypeOK, Gone
<1>3. addr' \in [Nodes -> Addrs \cup {None}] /\ nonce' \in [Ins -> Outs \cup {None}]
  BY DEF Gone
<1>4. leaving' = {} /\ up' = {} /\ registered' = {} /\ accepted' = {}
  BY DEF Gone
<1>5. QED  BY <1>1, <1>2, <1>3, <1>4 DEF TypeOK

LEMMA DisconnectedType ==
  ASSUME TypeOK, NEW n \in Nodes, Disconnected(n), UNCHANGED <<addr, registered>>
  PROVE  /\ leaving' \subseteq registered' \ up'
         /\ up' \cup registered' \subseteq Listed(Nodes)'
  BY DEF TypeOK, Disconnected, Listed

\* A node is listed under a name that nothing refers to.
LEMMA InitializeType ==
  ASSUME TypeOK, NEW n \in Nodes, addr[n] = None, NEW task \in Task, task.addr \in Addrs,
         InitializeNode(n, task), registered' \in {registered, registered \cup {n}}
  PROVE  /\ addr' \in [Nodes -> Addrs \cup {None}]
         /\ nonce' \in [Ins -> Outs \cup {None}]
         /\ leaving' \subseteq registered' \ up'
         /\ up' \cup registered' \subseteq Listed(Nodes)'
         /\ accepted' \subseteq Ins \cap registered'
<1>1. addr' = [addr EXCEPT ![n] = task.addr] /\ up' = up \cup {n}
      /\ leaving' = leaving /\ accepted' = accepted
  BY DEF InitializeNode
<1>2. task.from \in Outs \cup {None}
  BY DEF Task
<1>3. nonce' \in [Ins -> Outs \cup {None}]
  BY <1>2 DEF InitializeNode, TypeOK
<1>4. n \notin registered
  BY DEF TypeOK, Listed
<1>5. addr' \in [Nodes -> Addrs \cup {None}]
  BY <1>1 DEF TypeOK
<1>6. task.addr # None
  BY AdmissionAssumption
<1>7. Listed(Nodes) \cup {n} \subseteq Listed(Nodes)'
  BY <1>1, <1>6 DEF TypeOK, Listed
<1>8. QED  BY <1>1, <1>3, <1>4, <1>5, <1>7 DEF TypeOK

LEMMA TypeInit == Init => TypeOK
<1> SUFFICES ASSUME Init  PROVE TypeOK
  OBVIOUS
<1>1. file \in [Addrs -> Nat] /\ bans \in [Addrs -> Nat]
  <2>1. {0, BanTime} \subseteq Nat
    BY AdmissionAssumption
  <2>2. QED  BY <2>1 DEF Init
<1>2. addr \in [Nodes -> Addrs \cup {None}] /\ nonce \in [Ins -> Outs \cup {None}]
  BY DEF Init
<1>3. connecting \in Task /\ accepting \in Task
  BY IdleType DEF Init
<1>4. running \in BOOLEAN /\ now \in Nat /\ banning \in Addrs \cup {None}
      /\ leaving = {} /\ up = {} /\ registered = {} /\ accepted = {}
  BY DEF Init
<1>5. QED  BY <1>1, <1>2, <1>3, <1>4 DEF TypeOK

LEMMA ConnectListsType == IInv /\ ConnectLists => TypeOK'
<1> SUFFICES ASSUME IInv, ConnectLists  PROVE TypeOK'
  OBVIOUS
<1> DEFINE n == FreeName(Outs)
<1>1. HasRoom(Outs, MaxOutbound) /\ connecting.addr \in Addrs
  BY DEF IInv, ConnectingOK, ConnectLists
<1>2. n \in Nodes /\ addr[n] = None
  BY <1>1, FreeNameExists DEF Nodes
<1>3. InitializeNode(n, connecting) /\ connecting \in Task
  BY DEF ConnectLists, IInv, TypeOK
<1>4. registered' = registered
  BY DEF ConnectLists
<1>5. connecting' \in Task
  BY <1>2, <1>3 DEF ConnectLists, Task
<1>6. /\ addr' \in [Nodes -> Addrs \cup {None}] /\ nonce' \in [Ins -> Outs \cup {None}]
      /\ leaving' \subseteq registered' \ up' /\ up' \cup registered' \subseteq Listed(Nodes)'
      /\ accepted' \subseteq Ins \cap registered'
  BY <1>1, <1>2, <1>3, <1>4, InitializeType DEF IInv
<1>7. QED  BY <1>5, <1>6 DEF IInv, TypeOK, ConnectLists, banVars

LEMMA AcceptListsType == IInv /\ AcceptLists => TypeOK'
<1> SUFFICES ASSUME IInv, AcceptLists  PROVE TypeOK'
  OBVIOUS
<1> DEFINE n == FreeName(Ins)
<1>1. HasRoom(Ins, MaxInbound) /\ accepting.addr \in Addrs
  BY DEF IInv, AcceptingOK, AcceptLists
<1>2. n \in Nodes /\ addr[n] = None
  BY <1>1, FreeNameExists DEF Nodes
<1>3. InitializeNode(n, accepting) /\ accepting \in Task
  BY DEF AcceptLists, IInv, TypeOK
<1>4. registered' = registered \cup {n}
  BY DEF AcceptLists
<1>5. accepting' \in Task
  BY IdleType DEF AcceptLists
<1>6. /\ addr' \in [Nodes -> Addrs \cup {None}] /\ nonce' \in [Ins -> Outs \cup {None}]
      /\ leaving' \subseteq registered' \ up' /\ up' \cup registered' \subseteq Listed(Nodes)'
      /\ accepted' \subseteq Ins \cap registered'
  BY <1>1, <1>2, <1>3, <1>4, InitializeType DEF IInv
<1>7. QED  BY <1>5, <1>6 DEF IInv, TypeOK, AcceptLists, banVars

\* The tests and the start of an attempt only change what a thread knows.
LEMMA TaskType ==
  ASSUME IInv, NEW a \in Addrs,
         \/ OutboundTimeOutCb(a)
         \/ ConnectTests \/ ConnectFails
         \/ \E from \in Callers(a) : AcceptConnCb(a, from)
  PROVE  TypeOK'
<1>1. connecting \in Task /\ accepting \in Task
  BY DEF IInv, TypeOK
<1>2. \A t \in BOOLEAN : [Idle EXCEPT !.at = "test", !.addr = a, !.barred = t] \in Task
  BY DEF Idle, Task
<1>3. Callers(a) \subseteq Outs \cup {None}
  BY DEF Callers
<1>4. \A from \in Callers(a), t \in BOOLEAN :
        [Idle EXCEPT !.at = "list", !.addr = a, !.from = from, !.barred = t] \in Task
  BY <1>3 DEF Idle, Task
<1>5. IsBanned(a) \in BOOLEAN
  BY DEF IsBanned
<1>6. CASE OutboundTimeOutCb(a)
  <2>1. connecting' \in Task
    BY <1>2, <1>5, <1>6 DEF OutboundTimeOutCb
  <2>2. QED  BY <1>6, <2>1 DEF IInv, TypeOK, OutboundTimeOutCb, banVars, nodeVars, Listed
<1>7. CASE ConnectTests
  <2>1. [connecting EXCEPT !.at = "list"] \in Task
    BY <1>1 DEF Task
  <2>2. connecting' \in Task
    BY <1>7, <2>1, IdleType DEF ConnectTests
  <2>3. QED  BY <1>7, <2>2 DEF IInv, TypeOK, ConnectTests, banVars, nodeVars, Listed
<1>8. CASE ConnectFails
  BY <1>8, IdleType DEF IInv, TypeOK, ConnectFails, banVars, nodeVars, Listed
<1>9. CASE \E from \in Callers(a) : AcceptConnCb(a, from)
  <2>1. PICK from \in Callers(a) : AcceptConnCb(a, from)
    BY <1>9
  <2>2. accepting' \in Task
    BY <1>4, <1>5, <2>1 DEF AcceptConnCb
  <2>3. QED  BY <2>1, <2>2 DEF IInv, TypeOK, AcceptConnCb, banVars, nodeVars, Listed
<1>10. QED  BY <1>6, <1>7, <1>8, <1>9

LEMMA NodeType ==
  ASSUME IInv, NEW n \in Nodes, Disconnect(n) \/ CheckBanned(n) \/ EraseNode(n)
  PROVE  TypeOK'
<1>1. CASE Disconnect(n)
  <2>1. /\ leaving' \subseteq registered' \ up' /\ up' \cup registered' \subseteq Listed(Nodes)'
    BY <1>1, DisconnectedType DEF IInv, Disconnect
  <2>2. QED  BY <1>1, <2>1 DEF IInv, TypeOK, Disconnect, banVars
<1>2. CASE CheckBanned(n)
  <2>1. /\ leaving' \subseteq registered' \ up' /\ up' \cup registered' \subseteq Listed(Nodes)'
    BY <1>2, DisconnectedType DEF IInv, CheckBanned
  <2>2. QED  BY <1>2, <2>1 DEF IInv, TypeOK, CheckBanned
<1>3. CASE EraseNode(n)
  <2>1. addr' = [addr EXCEPT ![n] = None] /\ registered' = registered \ {n} /\ up' = up
        /\ n \notin up
    BY <1>3 DEF IInv, TypeOK, EraseNode
  <2>2. Listed(Nodes) \ {n} \subseteq Listed(Nodes)'
    BY <2>1 DEF IInv, TypeOK, Listed
  <2>3. leaving' \subseteq registered' \ up' /\ up' \cup registered' \subseteq Listed(Nodes)'
        /\ accepted' \subseteq Ins \cap registered'
    BY <1>3, <2>1, <2>2 DEF IInv, TypeOK, EraseNode
  <2>4. nonce' \in [Ins -> Outs \cup {None}] /\ addr' \in [Nodes -> Addrs \cup {None}]
    BY <1>3, <2>1 DEF IInv, TypeOK, EraseNode
  <2>5. QED  BY <1>3, <2>3, <2>4 DEF IInv, TypeOK, EraseNode, banVars
<1>4. QED  BY <1>1, <1>2, <1>3

LEMMA ClockType == IInv /\ Tick => TypeOK'
<1> SUFFICES ASSUME IInv, Tick  PROVE TypeOK'
  OBVIOUS
<1>1. \A task \in Task, t \in BOOLEAN : [task EXCEPT !.barred = @ /\ t] \in Task
  BY DEF Task
<1>2. connecting' \in Task /\ accepting' \in Task
  <2>1. \A task \in Task : (now' < bans[task.addr]) \in BOOLEAN
    OBVIOUS
  <2>2. connecting \in Task /\ accepting \in Task
    BY DEF IInv, TypeOK
  <2>3. QED  BY <1>1, <2>1, <2>2 DEF Tick
<1>3. now' \in Nat
  BY DEF IInv, TypeOK, Tick
<1>4. QED  BY <1>2, <1>3 DEF IInv, TypeOK, Tick, banVars, nodeVars, Listed

LEMMA AddBanType == IInv /\ AddBan => TypeOK'
<1> SUFFICES ASSUME IInv, AddBan  PROVE TypeOK'
  OBVIOUS
<1>1. banning \in Addrs /\ bans \in [Addrs -> Nat] /\ now + BanTime \in Nat
  BY AdmissionAssumption DEF IInv, TypeOK, AddBan
<1>2. \A old \in Nat : LaterEnd(old, now + BanTime) \in Nat
  BY <1>1 DEF LaterEnd
<1>3. bans' \in [Addrs -> Nat]
  BY <1>1, <1>2 DEF AddBan
<1>4. QED  BY <1>3 DEF IInv, TypeOK, AddBan, nodeVars, Listed

LEMMA ProcessType == IInv /\ (Stop \/ Crash \/ CrashInDump \/ Start \/ StartFails) => TypeOK'
<1> SUFFICES ASSUME IInv, Stop \/ Crash \/ CrashInDump \/ Start \/ StartFails
             PROVE  TypeOK'
  OBVIOUS
<1>1. TypeOK /\ bans \in [Addrs -> Nat] /\ file \in [Addrs -> Nat]
  BY DEF IInv, TypeOK
<1>2. CASE Stop
  BY <1>1, <1>2, SweptType, GoneType DEF Stop
<1>3. CASE Crash
  BY <1>1, <1>3, GoneType DEF Crash
<1>4. CASE CrashInDump
  <2>1. file' \in [Addrs -> Nat]
    BY <1>1, <1>4 DEF CrashInDump
  <2>2. QED  BY <1>1, <1>4, <2>1, GoneType DEF CrashInDump
<1>5. CASE Start
  <2>1. bans' \in [Addrs -> Nat]
    BY <1>1, <1>5, SweptType DEF Start
  <2>2. QED  BY <1>1, <1>5, <2>1 DEF TypeOK, Start, nodeVars, Listed
<1>6. CASE StartFails
  BY <1>1, <1>6 DEF TypeOK, StartFails, nodeVars, Listed
<1>7. QED  BY <1>2, <1>3, <1>4, <1>5, <1>6

LEMMA RecvVersionType == ASSUME IInv, NEW n \in Ins, RecvVersion(n)  PROVE TypeOK'
<1>1. CASE Disconnected(n) /\ UNCHANGED accepted
  <2>1. leaving' \subseteq registered' \ up' /\ up' \cup registered' \subseteq Listed(Nodes)'
    BY <1>1, DisconnectedType DEF IInv, RecvVersion, Nodes
  <2>2. QED  BY <1>1, <2>1 DEF IInv, TypeOK, RecvVersion, banVars
<1>2. CASE accepted' = accepted \cup {n} /\ UNCHANGED <<up, leaving>>
  BY <1>2 DEF IInv, TypeOK, RecvVersion, banVars, Listed
<1>3. QED  BY <1>1, <1>2 DEF RecvVersion

LEMMA TypeStep == IInv /\ [Next]_vars => TypeOK'
<1> SUFFICES ASSUME IInv, [Next]_vars  PROVE TypeOK'
  OBVIOUS
<1>1. ASSUME NEW a \in Addrs, OutboundTimeOutCb(a)  PROVE TypeOK'
  BY <1>1, TaskType
<1>2. CASE ConnectNode
  <2>1. CASE ConnectTests \/ ConnectFails
    <3>1. CASE Addrs = {}
      BY <2>1, <3>1 DEF ConnectTests, ConnectFails, IInv, ConnectingOK
    <3>2. QED  BY <2>1, <3>1, TaskType
  <2>2. CASE ConnectLists
    BY <2>2, ConnectListsType
  <2>3. CASE ConnectRegisters
    BY <2>3, IdleType DEF IInv, TypeOK, ConnectingOK, ConnectRegisters, banVars, Listed, Nodes
  <2>4. QED  BY <1>2, <2>1, <2>2, <2>3 DEF ConnectNode
<1>3. ASSUME NEW a \in Addrs, NEW from \in Callers(a), AcceptConnCb(a, from)  PROVE TypeOK'
  BY <1>3, TaskType
<1>4. CASE AcceptLists
  BY <1>4, AcceptListsType
<1>5. ASSUME NEW n \in Ins, RecvVersion(n)  PROVE TypeOK'
  BY <1>5, RecvVersionType
<1>6. ASSUME NEW n \in Nodes, Disconnect(n) \/ CheckBanned(n) \/ EraseNode(n)  PROVE TypeOK'
  BY <1>6, NodeType
<1>7. CASE AddBan
  BY <1>7, AddBanType
<1>8. CASE Tick
  BY <1>8, ClockType
<1>9. CASE Stop \/ Crash \/ CrashInDump \/ Start \/ StartFails
  BY <1>9, ProcessType
<1>10. CASE UNCHANGED vars
  BY <1>10 DEF IInv, TypeOK, vars, banVars, nodeVars, Listed
<1>11. QED
  BY <1>1, <1>2, <1>3, <1>4, <1>5, <1>6, <1>7, <1>8, <1>9, <1>10 DEF Next

-----------------------------------------------------------------------------
(* The lists of nodes: what a thread has tested stays true until it lists. *)

Lists == WithinLimits /\ OneOutboundEach

\* Addresses only disappear.
Fewer == \A n \in Nodes : addr'[n] \in {addr[n], None}

LEMMA FewerListed ==
  ASSUME Fewer
  PROVE  Listed(Outs)' \subseteq Listed(Outs) /\ Listed(Ins)' \subseteq Listed(Ins)
  BY DEF Fewer, Listed, Nodes

\* With fewer nodes listed, the lists and the room in them are as good as before.
LEMMA FewerKeeps ==
  ASSUME Fewer
  PROVE  /\ Lists => Lists'
         /\ HasRoom(Outs, MaxOutbound) => HasRoom(Outs, MaxOutbound)'
         /\ HasRoom(Ins, MaxInbound) => HasRoom(Ins, MaxInbound)'
         /\ \A a \in Addrs : ~AlreadyConnected(a) => ~AlreadyConnected(a)'
<1>1. /\ Cardinality(Listed(Outs)') \in Nat /\ Cardinality(Listed(Outs)) \in Nat
      /\ Cardinality(Listed(Outs)') <= Cardinality(Listed(Outs))
      /\ Cardinality(Listed(Ins)') \in Nat /\ Cardinality(Listed(Ins)) \in Nat
      /\ Cardinality(Listed(Ins)') <= Cardinality(Listed(Ins))
  BY FewerListed, Counted
<1>2. WithinLimits => WithinLimits'
  BY <1>1, LimitsType DEF WithinLimits
<1>3. HasRoom(Outs, MaxOutbound) => HasRoom(Outs, MaxOutbound)'
  BY <1>1, LimitsType DEF HasRoom
<1>4. HasRoom(Ins, MaxInbound) => HasRoom(Ins, MaxInbound)'
  BY <1>1, LimitsType DEF HasRoom
<1>5. OneOutboundEach => OneOutboundEach'
  BY DEF OneOutboundEach, Fewer, Listed, Nodes
<1>6. \A a \in Addrs : ~AlreadyConnected(a) => ~AlreadyConnected(a)'
  BY AdmissionAssumption DEF AlreadyConnected, Fewer, Nodes
<1>7. QED  BY <1>2, <1>3, <1>4, <1>5, <1>6 DEF Lists

LEMMA ConnectListsLists == IInv /\ ConnectLists => Lists' /\ Listed(Ins)' = Listed(Ins)
<1> SUFFICES ASSUME IInv, ConnectLists  PROVE Lists' /\ Listed(Ins)' = Listed(Ins)
  OBVIOUS
<1> DEFINE n == FreeName(Outs)
           a == connecting.addr
<1>1. HasRoom(Outs, MaxOutbound) /\ a \in Addrs /\ ~AlreadyConnected(a)
  BY DEF IInv, ConnectingOK, ConnectLists
<1>2. n \in Outs /\ addr[n] = None /\ n \notin Ins
  BY <1>1, FreeNameExists, AdmissionAssumption
<1>3. addr' = [addr EXCEPT ![n] = a] /\ addr \in [Nodes -> Addrs \cup {None}]
  BY DEF ConnectLists, InitializeNode, IInv, TypeOK
<1> HIDE DEF n, a
<1>4. Listed(Outs)' = Listed(Outs) \cup {n} /\ Listed(Ins)' = Listed(Ins)
  BY <1>1, <1>2, <1>3, AdmissionAssumption DEF Listed, Nodes
<1>5. Cardinality(Listed(Outs)') <= MaxOutbound
  BY <1>1, <1>2, <1>4, OneMore, LimitsType
<1>6. WithinLimits'
  BY <1>4, <1>5 DEF WithinLimits, IInv
<1>7. OneOutboundEach'
  BY <1>1, <1>2, <1>3, <1>4 DEF OneOutboundEach, AlreadyConnected, IInv, Listed, Nodes
<1>8. QED  BY <1>4, <1>6, <1>7 DEF Lists

LEMMA AcceptListsLists == IInv /\ AcceptLists => Lists' /\ \A n \in Outs : addr'[n] = addr[n]
<1> SUFFICES ASSUME IInv, AcceptLists  PROVE Lists' /\ \A n \in Outs : addr'[n] = addr[n]
  OBVIOUS
<1> DEFINE m == FreeName(Ins)
           a == accepting.addr
<1>1. HasRoom(Ins, MaxInbound) /\ a \in Addrs
  BY DEF IInv, AcceptingOK, AcceptLists
<1>2. m \in Ins /\ addr[m] = None /\ m \notin Outs
  BY <1>1, FreeNameExists, AdmissionAssumption
<1>3. addr' = [addr EXCEPT ![m] = a] /\ addr \in [Nodes -> Addrs \cup {None}]
  BY DEF AcceptLists, InitializeNode, IInv, TypeOK
<1> HIDE DEF m, a
<1>4. \A n \in Outs : addr'[n] = addr[n]
  BY <1>2, <1>3 DEF Nodes
<1>5. Listed(Ins)' = Listed(Ins) \cup {m} /\ Listed(Outs)' = Listed(Outs)
  BY <1>1, <1>2, <1>3, <1>4, AdmissionAssumption DEF Listed, Nodes
<1>6. Cardinality(Listed(Ins)') <= MaxInbound
  BY <1>1, <1>2, <1>5, OneMore, LimitsType
<1>7. WithinLimits'
  BY <1>5, <1>6 DEF WithinLimits, IInv
<1>8. OneOutboundEach'
  BY <1>4, <1>5 DEF OneOutboundEach, IInv, Listed
<1>9. QED  BY <1>4, <1>7, <1>8 DEF Lists

\* Of the other steps none lists a node.
LEMMA OthersFewer ==
  ASSUME IInv, [Next]_vars, ~ConnectLists, ~AcceptLists
  PROVE  Fewer
<1>1. CASE UNCHANGED addr
  BY <1>1 DEF Fewer
<1>2. ASSUME NEW n \in Nodes, EraseNode(n)  PROVE Fewer
  BY <1>2 DEF Fewer, EraseNode, IInv, TypeOK
<1>3. CASE Gone
  BY <1>3 DEF Fewer, Gone
<1>4. QED
  BY <1>1, <1>2, <1>3 DEF Next, ConnectNode, OutboundTimeOutCb, ConnectTests, ConnectFails,
     ConnectRegisters, AcceptConnCb, RecvVersion, Disconnect, CheckBanned, AddBan, Tick, Stop,
     Crash, CrashInDump, Start, StartFails, vars, nodeVars

LEMMA ListsStep == IInv /\ [Next]_vars => Lists'
<1> SUFFICES ASSUME IInv, [Next]_vars  PROVE Lists'
  OBVIOUS
<1>1. CASE ConnectLists
  BY <1>1, ConnectListsLists
<1>2. CASE AcceptLists
  BY <1>2, AcceptListsLists
<1>3. CASE ~ConnectLists /\ ~AcceptLists
  BY <1>3, OthersFewer, FewerKeeps DEF IInv, Lists
<1>4. QED  BY <1>1, <1>2, <1>3

-----------------------------------------------------------------------------
(* Bans in force, during an attempt and across the steps.                  *)

\* Only the clock ends a ban, and with it the history of the threads; or the end of
\* the process, which takes the threads along.
LEMMA BanStays ==
  ASSUME IInv, [Next]_vars, ~Tick, ~Gone, NEW a \in Addrs, IsBanned(a)
  PROVE  IsBanned(a)'
<1>1. now' = now
  BY DEF Next, ConnectNode, OutboundTimeOutCb, ConnectTests, ConnectFails, ConnectLists,
     ConnectRegisters, AcceptConnCb, AcceptLists, RecvVersion, Disconnect, CheckBanned,
     EraseNode, AddBan, Stop, Crash, CrashInDump, Start, StartFails, vars
<1>2. CASE UNCHANGED bans
  BY <1>1, <1>2 DEF IsBanned
<1>3. CASE AddBan
  <2>1. bans \in [Addrs -> Nat] /\ now \in Nat /\ now + BanTime \in Nat
    BY AdmissionAssumption DEF IInv, TypeOK
  <2>2. bans'[a] \in {bans[a], LaterEnd(bans[a], now + BanTime)}
    BY <1>3, <2>1 DEF AddBan
  <2>3. bans[a] \in Nat
    BY <2>1
  <2>4. bans[a] <= bans'[a]
    BY <2>1, <2>2, <2>3 DEF LaterEnd
  <2>5. bans'[a] \in Nat
    BY <2>1, <2>2, <2>3 DEF LaterEnd
  <2>6. QED  BY <1>1, <2>1, <2>3, <2>4, <2>5 DEF IsBanned
<1>4. CASE Start
  <2>1. bans[a] = 0 /\ now \in Nat
    BY <1>4 DEF Start, IInv, TypeOK, StoppedOK
  <2>2. QED  BY <2>1 DEF IsBanned
<1>5. QED
  BY <1>2, <1>3, <1>4 DEF Next, ConnectNode, OutboundTimeOutCb, ConnectTests, ConnectFails,
     ConnectLists, ConnectRegisters, AcceptConnCb, AcceptLists, RecvVersion, Disconnect,
     CheckBanned, EraseNode, Tick, Stop, Crash, CrashInDump, StartFails, vars, banVars

LEMMA BarredStep ==
  ASSUME IInv, [Next]_vars, ~Tick, ~Gone, NEW task \in Task, BarredIsBanned(task)
  PROVE  task.barred => task.addr \in Addrs /\ IsBanned(task.addr)'
BY BanStays DEF BarredIsBanned

\* The clock keeps the histories of the bans that go on.
LEMMA BarredTick ==
  ASSUME NEW task \in Task, BarredIsBanned(task),
         NEW next, next = [task EXCEPT !.barred = @ /\ now' < bans[task.addr]],
         bans' = bans
  PROVE  /\ next.at = task.at /\ next.addr = task.addr /\ next.node = task.node
         /\ next.barred => task.barred
         /\ next.barred => next.addr \in Addrs /\ IsBanned(next.addr)'
         /\ task = Idle => next = Idle
<1>1. task.barred \in BOOLEAN
  BY DEF Task
<1>2. /\ next.at = task.at /\ next.addr = task.addr /\ next.node = task.node
      /\ next.from = task.from
      /\ next.barred = (task.barred /\ now' < bans[task.addr])
  BY DEF Task
<1>3. next \in Task
  BY <1>1, <1>2 DEF Task
<1>4. task = Idle => next = Idle
  <2>1. SUFFICES ASSUME task = Idle  PROVE next = Idle
    OBVIOUS
  <2>2. next.at = "idle" /\ next.addr = None /\ next.node = None /\ next.from = None
        /\ next.barred = FALSE
    BY <1>2, <2>1 DEF Idle
  <2>3. next = [at |-> next.at, addr |-> next.addr, node |-> next.node, from |-> next.from,
                barred |-> next.barred]
    BY <1>3 DEF Task
  <2>4. QED  BY <2>2, <2>3 DEF Idle
<1>5. QED  BY <1>1, <1>2, <1>4 DEF BarredIsBanned, IsBanned

LEMMA StoppedStep == IInv /\ [Next]_vars => StoppedOK'
<1> SUFFICES ASSUME IInv, [Next]_vars  PROVE StoppedOK'
  OBVIOUS
<1>1. CASE UNCHANGED <<running, bans>>
  BY <1>1 DEF StoppedOK, IInv
<1>2. CASE Gone
  BY <1>2 DEF StoppedOK, Gone
<1>3. CASE AddBan \/ Start
  BY <1>3 DEF StoppedOK, AddBan, Start
<1>4. QED
  BY <1>1, <1>2, <1>3 DEF Next, ConnectNode, OutboundTimeOutCb, ConnectTests, ConnectFails,
     ConnectLists, ConnectRegisters, AcceptConnCb, AcceptLists, RecvVersion, Disconnect,
     CheckBanned, EraseNode, Tick, Stop, Crash, CrashInDump, StartFails, vars, banVars

-----------------------------------------------------------------------------
(* The two threads. *)

\* Between two steps of the thread: nodes only disappear, and not the one it is
\* registering, whose callback is not there to erase it.
LEMMA ConnectingKept ==
  ASSUME IInv, [Next]_vars, ~ConnectNode, ~Tick, ~Gone, UNCHANGED connecting
  PROVE  ConnectingOK'
<1>1. \A n \in Outs : addr'[n] \in {addr[n], None}
  <2>1. CASE AcceptLists
    BY <2>1, AcceptListsLists
  <2>2. CASE ~AcceptLists
    BY <2>2, OthersFewer DEF Fewer, Nodes, ConnectNode
  <2>3. QED  BY <2>1, <2>2
<1>2. HasRoom(Outs, MaxOutbound) => HasRoom(Outs, MaxOutbound)'
  <2>1. Listed(Outs)' \subseteq Listed(Outs)
    BY <1>1 DEF Listed
  <2>2. /\ Cardinality(Listed(Outs)') \in Nat /\ Cardinality(Listed(Outs)) \in Nat
        /\ Cardinality(Listed(Outs)') <= Cardinality(Listed(Outs))
    BY <2>1, Counted
  <2>3. QED  BY <2>2, LimitsType DEF HasRoom
<1>3. \A a \in Addrs : ~AlreadyConnected(a) => ~AlreadyConnected(a)'
  BY <1>1, AdmissionAssumption DEF AlreadyConnected
<1>4. \A n \in Listed(Outs) \ registered : n \in Listed(Outs)' \ registered'
  <2>1. SUFFICES ASSUME NEW n \in Listed(Outs) \ registered
                 PROVE  n \in Listed(Outs)' \ registered'
    OBVIOUS
  <2>2. n \in Outs /\ n \notin Ins /\ addr[n] # None
    BY AdmissionAssumption DEF Listed
  <2>3. CASE AcceptLists
    <3>1. HasRoom(Ins, MaxInbound)
      BY <2>3 DEF AcceptLists, IInv, AcceptingOK
    <3>2. FreeName(Ins) \in Ins
      BY <3>1, FreeNameExists
    <3>3. registered' = registered \cup {FreeName(Ins)}
      BY <2>3 DEF AcceptLists
    <3>4. addr'[n] = addr[n]
      BY <2>2, <2>3, AcceptListsLists
    <3>5. QED  BY <2>1, <2>2, <3>2, <3>3, <3>4 DEF Listed
  <2>4. CASE UNCHANGED <<addr, registered>>
    BY <2>1, <2>4 DEF Listed
  <2>5. ASSUME NEW m \in Nodes, EraseNode(m)  PROVE n \in Listed(Outs)' \ registered'
    BY <2>1, <2>2, <2>5 DEF EraseNode, Listed, IInv, TypeOK, Nodes
  <2>6. QED
    BY <2>3, <2>4, <2>5 DEF Next, OutboundTimeOutCb, AcceptConnCb, RecvVersion, Disconnect,
       CheckBanned, AddBan, Stop, Crash, CrashInDump, Start, StartFails, vars, nodeVars
<1>5. BarredIsBanned(connecting)'
  <2>1. connecting \in Task /\ BarredIsBanned(connecting)
    BY DEF IInv, TypeOK, ConnectingOK
  <2>2. QED  BY <2>1, BarredStep DEF BarredIsBanned
<1>6. QED  BY <1>2, <1>3, <1>4, <1>5 DEF ConnectingOK, IInv

\* A thread that does nothing relies on nothing.
LEMMA IdleKept ==
  /\ connecting' = Idle => ConnectingOK'
  /\ accepting' = Idle => AcceptingOK'
BY DEF ConnectingOK, AcceptingOK, BarredIsBanned, Idle

LEMMA ConnectingStep == IInv /\ [Next]_vars => ConnectingOK'
<1> SUFFICES ASSUME IInv, [Next]_vars  PROVE ConnectingOK'
  OBVIOUS
<1>1. connecting \in Task /\ ConnectingOK
  BY DEF IInv, TypeOK
<1>2. CASE Gone
  BY <1>2, IdleKept DEF Gone
<1>3. CASE Tick
  <2>1. /\ connecting'.at = connecting.at /\ connecting'.addr = connecting.addr
        /\ connecting'.node = connecting.node
        /\ connecting'.barred => connecting.barred
        /\ BarredIsBanned(connecting)'
        /\ connecting = Idle => connecting' = Idle
    <3>1. bans' = bans
          /\ connecting' = [connecting EXCEPT !.barred = @ /\ now' < bans[connecting.addr]]
      BY <1>3 DEF Tick, banVars
    <3>2. BarredIsBanned(connecting)
      BY <1>1 DEF ConnectingOK
    <3>3. QED  BY <1>1, <3>1, <3>2, BarredTick DEF BarredIsBanned
  <2>2. UNCHANGED <<addr, registered>>
    BY <1>3 DEF Tick, nodeVars
  <2>3. QED  BY <1>1, <2>1, <2>2 DEF ConnectingOK, HasRoom, AlreadyConnected, Listed
<1>4. ASSUME NEW a \in Addrs, OutboundTimeOutCb(a)  PROVE ConnectingOK'
  <2>1. connecting' = [Idle EXCEPT !.at = "test", !.addr = a, !.barred = IsBanned(a)]
        /\ HasRoom(Outs, MaxOutbound) /\ UNCHANGED <<addr, bans, now>>
    BY <1>4 DEF OutboundTimeOutCb, banVars, nodeVars
  <2>2. connecting'.at = "test" /\ connecting'.addr = a /\ connecting'.barred = IsBanned(a)
    BY <2>1 DEF Idle
  <2>3. QED
    BY <2>1, <2>2 DEF ConnectingOK, HasRoom, Listed, BarredIsBanned, IsBanned
<1>5. CASE ConnectTests
  <2>1. CASE connecting' = Idle
    BY <2>1, IdleKept
  <2>2. CASE connecting' # Idle
    <3>1. connecting' = [connecting EXCEPT !.at = "list"] /\ connecting.at = "test"
          /\ ~AlreadyConnected(connecting.addr) /\ ~IsBanned(connecting.addr)
          /\ UNCHANGED <<addr, bans, now>>
      BY <1>5, <2>2 DEF ConnectTests, banVars, nodeVars
    <3>2. connecting'.at = "list" /\ connecting'.addr = connecting.addr
          /\ connecting'.barred = connecting.barred
      BY <1>1, <3>1 DEF Task
    <3>3. ~connecting.barred
      BY <1>1, <3>1 DEF ConnectingOK, BarredIsBanned
    <3>4. QED
      BY <1>1, <3>1, <3>2, <3>3
      DEF ConnectingOK, HasRoom, Listed, AlreadyConnected, BarredIsBanned
  <2>3. QED  BY <2>1, <2>2
<1>6. CASE ConnectFails \/ ConnectRegisters
  BY <1>6, IdleKept DEF ConnectFails, ConnectRegisters
<1>7. CASE ConnectLists
  <2> DEFINE n == FreeName(Outs)
  <2>1. HasRoom(Outs, MaxOutbound) /\ connecting.addr \in Addrs /\ ~connecting.barred
    BY <1>1, <1>7 DEF ConnectingOK, ConnectLists
  <2>2. n \in Outs /\ addr[n] = None
    BY <2>1, FreeNameExists
  <2>3. addr' = [addr EXCEPT ![n] = connecting.addr] /\ registered' = registered
        /\ connecting' = [connecting EXCEPT !.at = "register", !.node = n]
    BY <1>7 DEF ConnectLists, InitializeNode
  <2> HIDE DEF n
  <2>4. connecting'.at = "register" /\ connecting'.node = n
        /\ connecting'.barred = connecting.barred
    BY <1>1, <2>3 DEF Task
  <2>5. n \notin registered
    BY <2>2 DEF IInv, TypeOK, Listed
  <2>6. n \in Listed(Outs)'
    BY <2>1, <2>2, <2>3, AdmissionAssumption DEF IInv, TypeOK, Listed, Nodes
  <2>7. QED  BY <2>1, <2>3, <2>4, <2>5, <2>6 DEF ConnectingOK, BarredIsBanned
<1>8. CASE ~ConnectNode /\ ~Tick /\ ~Gone /\ UNCHANGED connecting
  BY <1>8, ConnectingKept
<1>9. QED
  BY <1>2, <1>3, <1>4, <1>5, <1>6, <1>7, <1>8 DEF Next, ConnectNode, AcceptConnCb, AcceptLists,
     RecvVersion, Disconnect, CheckBanned, EraseNode, AddBan, Stop, Crash, CrashInDump, Start, StartFails,
     vars

LEMMA AcceptingStep == IInv /\ [Next]_vars => AcceptingOK'
<1> SUFFICES ASSUME IInv, [Next]_vars  PROVE AcceptingOK'
  OBVIOUS
<1>1. accepting \in Task /\ AcceptingOK
  BY DEF IInv, TypeOK
<1>2. CASE Gone
  BY <1>2, IdleKept DEF Gone
<1>3. CASE Tick
  <2>1. /\ accepting'.at = accepting.at /\ accepting'.addr = accepting.addr
        /\ accepting'.barred => accepting.barred
        /\ BarredIsBanned(accepting)'
        /\ accepting = Idle => accepting' = Idle
    <3>1. bans' = bans
          /\ accepting' = [accepting EXCEPT !.barred = @ /\ now' < bans[accepting.addr]]
      BY <1>3 DEF Tick, banVars
    <3>2. BarredIsBanned(accepting)
      BY <1>1 DEF AcceptingOK
    <3>3. QED  BY <1>1, <3>1, <3>2, BarredTick DEF BarredIsBanned
  <2>2. UNCHANGED addr
    BY <1>3 DEF Tick, nodeVars
  <2>3. QED  BY <1>1, <2>1, <2>2 DEF AcceptingOK, HasRoom, Listed
<1>4. ASSUME NEW a \in Addrs, NEW from \in Callers(a), AcceptConnCb(a, from)
      PROVE  AcceptingOK'
  <2>1. accepting' = [Idle EXCEPT !.at = "list", !.addr = a, !.from = from,
                                  !.barred = IsBanned(a)]
        /\ ~IsBanned(a) /\ HasRoom(Ins, MaxInbound) /\ UNCHANGED addr
    BY <1>4 DEF AcceptConnCb, nodeVars
  <2>2. accepting'.at = "list" /\ accepting'.addr = a /\ accepting'.barred = IsBanned(a)
    BY <2>1 DEF Idle
  <2>3. QED  BY <2>1, <2>2 DEF AcceptingOK, HasRoom, Listed, BarredIsBanned
<1>5. CASE AcceptLists
  BY <1>5, IdleKept DEF AcceptLists
<1>6. CASE ~AcceptLists /\ ~Tick /\ ~Gone /\ UNCHANGED accepting
  <2>1. Listed(Ins)' \subseteq Listed(Ins)
    <3>1. CASE ConnectLists
      BY <3>1, ConnectListsLists
    <3>2. CASE ~ConnectLists
      BY <1>6, <3>2, OthersFewer, FewerListed
    <3>3. QED  BY <3>1, <3>2
  <2>2. HasRoom(Ins, MaxInbound) => HasRoom(Ins, MaxInbound)'
    <3>1. /\ Cardinality(Listed(Ins)') \in Nat /\ Cardinality(Listed(Ins)) \in Nat
          /\ Cardinality(Listed(Ins)') <= Cardinality(Listed(Ins))
      BY <2>1, Counted
    <3>2. QED  BY <3>1, LimitsType DEF HasRoom
  <2>3. BarredIsBanned(accepting)'
    BY <1>1, <1>6, BarredStep DEF AcceptingOK, BarredIsBanned
  <2>4. QED  BY <1>1, <1>6, <2>2, <2>3 DEF AcceptingOK
<1>7. QED
  BY <1>2, <1>3, <1>4, <1>5, <1>6 DEF Next, ConnectNode, OutboundTimeOutCb, ConnectTests,
     ConnectFails, ConnectLists, ConnectRegisters, RecvVersion, Disconnect, CheckBanned,
     EraseNode, AddBan, Stop, Crash, CrashInDump, Start, StartFails, vars

-----------------------------------------------------------------------------
(* Bans. *)

\* Sweeping removes no ban that is in force.
LEMMA SweptKeeps ==
  ASSUME NEW b \in [Addrs -> Nat], now \in Nat, NEW s \in Swept(b), NEW a \in Addrs,
         b[a] > now
  PROVE  s[a] = b[a]
<1>1. PICK S \in SUBSET Expired(b) : s = [c \in Addrs |-> IF c \in S THEN 0 ELSE b[c]]
  BY DEF Swept
<1>2. a \notin S
  BY DEF Expired
<1>3. QED  BY <1>1, <1>2

LEMMA DiskStep == IInv /\ [Next]_vars => DiskOK'
<1> SUFFICES ASSUME IInv, [Next]_vars, running', NEW a \in Addrs, file'[a] > now'
             PROVE  bans'[a] >= file'[a]
  BY DEF DiskOK
<1>1. bans \in [Addrs -> Nat] /\ file \in [Addrs -> Nat] /\ now \in Nat
      /\ bans[a] \in Nat /\ file[a] \in Nat /\ (running /\ file[a] > now => bans[a] >= file[a])
  BY DEF IInv, TypeOK, DiskOK
<1>2. CASE UNCHANGED <<running, now, bans, file>>
  BY <1>1, <1>2
<1>3. CASE AddBan
  <2>1. now + BanTime \in Nat /\ bans'[a] \in {bans[a], LaterEnd(bans[a], now + BanTime)}
        /\ UNCHANGED <<now, file>> /\ running
    BY <1>1, <1>3, AdmissionAssumption DEF AddBan
  <2>2. bans'[a] >= bans[a] /\ bans'[a] \in Nat
    BY <1>1, <2>1 DEF LaterEnd
  <2>3. QED  BY <1>1, <2>1, <2>2
<1>4. CASE Tick
  BY <1>1, <1>4 DEF Tick, banVars
<1>5. CASE Gone \/ StartFails
  BY <1>5 DEF Gone, StartFails
<1>6. CASE Start
  <2>1. bans' \in Swept(file) /\ file' \in {file, bans'} /\ now' = now
    BY <1>6 DEF Start
  <2>2. bans'[a] \in Nat
    BY <1>1, <2>1, SweptType
  <2>3. CASE file' = file
    BY <1>1, <2>1, <2>3, SweptKeeps
  <2>4. QED  BY <2>1, <2>2, <2>3
<1>7. QED
  BY <1>2, <1>3, <1>4, <1>5, <1>6 DEF Next, ConnectNode, OutboundTimeOutCb, ConnectTests,
     ConnectFails, ConnectLists, ConnectRegisters, AcceptConnCb, AcceptLists, RecvVersion,
     Disconnect, CheckBanned, EraseNode, Stop, Crash, CrashInDump, vars, banVars

-----------------------------------------------------------------------------
(* The invariant. *)

LEMMA InvInit == Init => IInv
<1> SUFFICES ASSUME Init  PROVE IInv
  OBVIOUS
<1>1. TypeOK
  BY TypeInit
<1>2. Listed(Outs) = {} /\ Listed(Ins) = {}
  BY DEF Init, Listed, Nodes
<1>3. WithinLimits /\ OneOutboundEach
  BY <1>2, LimitsType, FS_EmptySet DEF WithinLimits, OneOutboundEach
<1>4. ConnectingOK /\ AcceptingOK
  BY DEF Init, ConnectingOK, AcceptingOK, BarredIsBanned, Idle
<1>5. StoppedOK
  BY DEF Init, StoppedOK
<1>6. DiskOK
  BY DEF Init, DiskOK
<1>7. QED  BY <1>1, <1>3, <1>4, <1>5, <1>6 DEF IInv

LEMMA InvStep == IInv /\ [Next]_vars => IInv'
BY TypeStep, ListsStep, ConnectingStep, AcceptingStep, StoppedStep, DiskStep DEF IInv, Lists

\* What the threads rely on holds in every reachable state: each thread is the only
\* one that lists nodes of its direction (node.cpp, connector.cpp, acceptor.cpp).
THEOREM Invariance == Spec => []IInv
<1>1. Init => IInv
  BY InvInit
<1>2. IInv /\ [Next]_vars => IInv'
  BY InvStep
<1>3. QED  BY <1>1, <1>2, PTL DEF Spec

\* The state has its types: only listed nodes are up or registered, and only
\* registered and disconnected nodes are being erased.
THEOREM TypeCorrect == Spec => []TypeOK
BY Invariance, PTL DEF IInv

\* Neither the outbound nor the inbound list ever exceeds its limit, although the
\* test and Nodes::AddNode are not under one lock (OutboundTimeOutCb, AcceptConnCb).
THEOREM LimitsHold == Spec => []WithinLimits
BY Invariance, PTL DEF IInv

\* ConnectNode never lists a second outbound node of one address.
THEOREM OneNodePerAddress == Spec => []OneOutboundEach
BY Invariance, PTL DEF IInv

\* An address banned when an attempt began, and ever since, gets no node, whichever
\* side connects (ConnectNode, AcceptConnCb).
THEOREM BannedNeverAdmitted == Spec => []BannedKeptOut
<1>1. IInv => BannedKeptOut
  BY DEF IInv, ConnectingOK, AcceptingOK, BannedKeptOut
<1>2. QED  BY <1>1, Invariance, PTL

-----------------------------------------------------------------------------

LEMMA InForceStep ==
  IInv /\ [Next]_vars => [~(Crash \/ CrashInDump \/ StartFails) => Kept(InForce, InForce')]_vars
<1> SUFFICES ASSUME IInv, [Next]_vars, ~Crash, ~CrashInDump, ~StartFails,
                    NEW a \in Addrs, InForce[a] > now'
             PROVE  InForce'[a] >= InForce[a]
  BY DEF Kept
<1>1. bans \in [Addrs -> Nat] /\ file \in [Addrs -> Nat] /\ now \in Nat /\ running \in BOOLEAN
      /\ bans[a] \in Nat /\ file[a] \in Nat
  BY DEF IInv, TypeOK
<1>2. CASE UNCHANGED <<running, bans, file>>
  BY <1>1, <1>2 DEF InForce
<1>3. CASE AddBan
  <2>1. now + BanTime \in Nat /\ bans'[a] \in {bans[a], LaterEnd(bans[a], now + BanTime)}
        /\ UNCHANGED running /\ running
    BY <1>1, <1>3, AdmissionAssumption DEF AddBan
  <2>2. bans'[a] >= bans[a]
    BY <1>1, <2>1 DEF LaterEnd
  <2>3. QED  BY <2>1, <2>2 DEF InForce
<1>4. CASE Stop
  <2>1. running /\ ~running' /\ file' \in Swept(bans) /\ now' = now
    BY <1>4 DEF Stop, Gone
  <2>2. bans[a] > now
    BY <2>1 DEF InForce
  <2>3. file'[a] = bans[a]
    BY <1>1, <2>1, <2>2, SweptKeeps
  <2>4. QED  BY <1>1, <2>1, <2>3 DEF InForce
<1>5. CASE Start
  <2>1. ~running /\ running' /\ bans' \in Swept(file) /\ now' = now
    BY <1>5 DEF Start
  <2>2. file[a] > now
    BY <2>1 DEF InForce
  <2>3. bans'[a] = file[a]
    BY <1>1, <2>1, <2>2, SweptKeeps
  <2>4. QED  BY <1>1, <2>1, <2>3 DEF InForce
<1>6. QED
  BY <1>2, <1>3, <1>4, <1>5 DEF Next, ConnectNode, OutboundTimeOutCb, ConnectTests,
     ConnectFails, ConnectLists, ConnectRegisters, AcceptConnCb, AcceptLists, RecvVersion,
     Disconnect, CheckBanned, EraseNode, Tick, vars, banVars

LEMMA DiskKept ==
  IInv /\ [Next]_vars => [~(CrashInDump \/ StartFails) => Kept(file, file')]_vars
<1> SUFFICES ASSUME IInv, [Next]_vars, ~CrashInDump, ~StartFails,
                    NEW a \in Addrs, file[a] > now'
             PROVE  file'[a] >= file[a]
  BY DEF Kept
<1>1. bans \in [Addrs -> Nat] /\ file \in [Addrs -> Nat] /\ now \in Nat
      /\ bans[a] \in Nat /\ file[a] \in Nat /\ (running /\ file[a] > now => bans[a] >= file[a])
  BY DEF IInv, TypeOK, DiskOK
<1>2. CASE UNCHANGED file
  BY <1>1, <1>2
<1>3. CASE Stop
  <2>1. running /\ file' \in Swept(bans) /\ now' = now
    BY <1>3 DEF Stop, Gone
  <2>2. bans[a] >= file[a] /\ bans[a] > now
    BY <1>1, <2>1
  <2>3. file'[a] = bans[a]
    BY <1>1, <2>1, <2>2, SweptKeeps
  <2>4. QED  BY <2>2, <2>3
<1>4. CASE Start
  <2>1. bans' \in Swept(file) /\ file' \in {file, bans'} /\ now' = now
    BY <1>4 DEF Start
  <2>2. bans'[a] = file[a]
    BY <1>1, <2>1, SweptKeeps
  <2>3. QED  BY <1>1, <2>1, <2>2
<1>5. QED
  BY <1>2, <1>3, <1>4 DEF Next, ConnectNode, OutboundTimeOutCb, ConnectTests,
     ConnectFails, ConnectLists, ConnectRegisters, AcceptConnCb, AcceptLists, RecvVersion,
     Disconnect, CheckBanned, EraseNode, AddBan, Tick, Crash, vars, banVars

\* Neither SweepBanned, nor a second Add, nor a stop and a start ends or shortens a ban
\* before its end (banlist.cpp), and one that banlist.dat has also survives a crash
\* outside the dump.  What does end bans is a crash and a start that fails before
\* LoadBanList, after which P2P::Stop dumps an empty list (p2p.cpp:121).
THEOREM BansKept == Spec => BansLast
<1>1. IInv /\ [Next]_vars =>
        [/\ ~(Crash \/ CrashInDump \/ StartFails) => Kept(InForce, InForce')
         /\ ~(CrashInDump \/ StartFails) => Kept(file, file')]_vars
  BY InForceStep, DiskKept
<1>2. QED  BY <1>1, Invariance, PTL DEF Spec, BansLast
=============================================================================
