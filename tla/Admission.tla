------------------------------ MODULE Admission ------------------------------
(***************************************************************************)
(* Who gets connected: the outbound timer's thread in Connector            *)
(* (connector.cpp), the acceptor's event loop (acceptor.cpp), the two      *)
(* lists of nodes with their limits (node.cpp), and the ban list           *)
(* (banlist.cpp) with the clock, the stops, crashes and restarts that it   *)
(* outlives in banlist.dat.                                                *)
(*                                                                         *)
(* Each thread tests first and lists the node later; disconnections, bans  *)
(* and the clock come in between.  What a node does while it is connected  *)
(* is in Connection.                                                       *)
(***************************************************************************)
EXTENDS Naturals, FiniteSets

CONSTANTS
  Addrs,        \* the addresses peers have: valid, and not known as local
  Self,         \* those of Addrs at which, unknown to us, we are reached
  Outs, Ins,    \* names for outbound and inbound nodes, used again when free
  MaxOutbound,  \* kMaxOutboundConnections
  MaxInbound,   \* kMaxInboundConnections
  BanTime,      \* kDefaultMisbehavingBantime
  MaxTime,      \* bound of the clock
  None

Nodes == Outs \cup Ins

ASSUME AdmissionAssumption ==
  /\ Self \subseteq Addrs
  /\ IsFiniteSet(Outs) /\ IsFiniteSet(Ins) /\ Outs \cap Ins = {}
  /\ MaxOutbound \in 0..Cardinality(Outs) /\ MaxInbound \in 0..Cardinality(Ins)
  /\ BanTime \in Nat \ {0} /\ MaxTime \in Nat
  /\ None \notin Addrs \cup Nodes

VARIABLES
  running,     \* the process runs
  now,         \* GetTimeSeconds
  bans,        \* the ban list: ban_until of each address, 0 without an entry
  file,        \* what can be read of banlist.dat
  banning,     \* an address that CheckBanned is about to add to the ban list
  addr,        \* the address of each listed node, None when not listed
  up,          \* the nodes that are not disconnected
  registered,  \* the nodes with DisconnectNodeCb registered
  leaving,     \* the nodes whose DisconnectNodeCb is running
  nonce,       \* the outbound node whose nonce an inbound node's version carries
  accepted,    \* the inbound nodes whose version was accepted
  connecting,  \* where the outbound timer's thread is in ConnectNode
  accepting    \* where the acceptor's thread is in AcceptConnCb

banVars  == <<bans, file, banning>>
nodeVars == <<addr, up, registered, leaving, nonce, accepted>>
vars == <<running, now, banVars, nodeVars, connecting, accepting>>

\* What a thread knows of its attempt; barred (history): the address was banned
\* when it began and has been ever since.
Idle == [at |-> "idle", addr |-> None, node |-> None, from |-> None, barred |-> FALSE]

Listed(names) == {n \in names : addr[n] # None}

-----------------------------------------------------------------------------
(* The ban list. *)

IsBanned(a) == now < bans[a]

\* Add_ keeps the later end.
LaterEnd(old, new) == IF old < new THEN new ELSE old

Expired_Inverted(b) == {a \in Addrs : b[a] > now}
Expired(b) == {a \in Addrs : b[a] # 0 /\ now > b[a]}

\* SweepBanned advances an iterator whose element it has just erased: it removes
\* all that has expired, or stops early.
Swept(b) == {[a \in Addrs |-> IF a \in S THEN 0 ELSE b[a]] : S \in SUBSET Expired(b)}

AddBan ==
  /\ running
  /\ banning # None
  /\ bans' = [bans EXCEPT ![banning] = LaterEnd(@, now + BanTime)]
  /\ banning' = None
  /\ UNCHANGED <<running, now, file, nodeVars, connecting, accepting>>

Tick ==
  /\ now < MaxTime
  /\ now' = now + 1
  /\ LET StillBarred(task) == [task EXCEPT !.barred = @ /\ now' < bans[task.addr]]
     IN /\ connecting' = StillBarred(connecting)
        /\ accepting' = StillBarred(accepting)
  /\ UNCHANGED <<running, banVars, nodeVars>>

-----------------------------------------------------------------------------
(* The lists of nodes. *)

\* Disconnect on a node whose callback is registered, or is not yet.
Disconnected(n) ==
  /\ up' = up \ {n}
  /\ leaving' = leaving \cup ({n} \cap registered)

\* EOF, error, timeout, a message: whatever disconnects a node that is up.
Disconnect(n) ==
  /\ n \in up
  /\ Disconnected(n)
  /\ UNCHANGED <<running, now, banVars, addr, registered, nonce, accepted, connecting,
                 accepting>>

\* DisconnectNodeCb ends with Nodes::EraseNode.
EraseNode(n) ==
  /\ n \in leaving
  /\ leaving' = leaving \ {n}
  /\ registered' = registered \ {n}
  /\ accepted' = accepted \ {n}
  /\ addr' = [addr EXCEPT ![n] = None]
  /\ nonce' = [m \in Ins |-> IF m = n \/ nonce[m] = n THEN None ELSE nonce[m]]
  /\ UNCHANGED <<running, now, banVars, up, connecting, accepting>>

\* Node::CheckBanned of a node that reached the threshold: it is disconnected, and
\* then its address is banned (AddBan).
CheckBanned(n) ==
  /\ n \in registered
  /\ banning = None  \* bound: one at a time
  /\ banning' = addr[n]
  /\ Disconnected(n)
  /\ UNCHANGED <<running, now, bans, file, addr, registered, nonce, accepted, connecting,
                 accepting>>

\* InitializeNode: AddNode lists the node before anything is registered.
InitializeNode(n, task) ==
  /\ addr' = [addr EXCEPT ![n] = task.addr]
  /\ nonce' = IF n \in Ins THEN [nonce EXCEPT ![n] = task.from] ELSE nonce
  /\ up' = up \cup {n}
  /\ UNCHANGED <<leaving, accepted>>

FreeName(names) == CHOOSE n \in names : addr[n] = None

-----------------------------------------------------------------------------
(* The outbound timer's thread: one call at a time (TimerMng!NoOverlap). *)

HasRoom_OffByOne(names, limit) == Cardinality(Listed(names)) <= limit
HasRoom_TooFew(names, limit) == Cardinality(Listed(names)) + 1 < limit
HasRoom(names, limit) == Cardinality(Listed(names)) < limit

\* GetNode(addr) finds disconnected nodes too, as long as they are listed.
AlreadyConnected_UpOnly(a) == \E n \in Outs \cap up : addr[n] = a
AlreadyConnected(a) == \E n \in Outs : addr[n] = a

\* OutboundTimeOutCb: Select may return any address.
OutboundTimeOutCb(a) ==
  /\ running
  /\ connecting = Idle
  /\ HasRoom(Outs, MaxOutbound)
  /\ connecting' = [Idle EXCEPT !.at = "test", !.addr = a, !.barred = IsBanned(a)]
  /\ UNCHANGED <<running, now, banVars, nodeVars, accepting>>

ConnectTests ==
  /\ connecting.at = "test"
  /\ connecting' = IF AlreadyConnected(connecting.addr) \/ IsBanned(connecting.addr)
                   THEN Idle
                   ELSE [connecting EXCEPT !.at = "list"]
  /\ UNCHANGED <<running, now, banVars, nodeVars, accepting>>

\* bufferevent_socket_new or bufferevent_socket_connect fails.
ConnectFails ==
  /\ connecting.at = "list"
  /\ connecting' = Idle
  /\ UNCHANGED <<running, now, banVars, nodeVars, accepting>>

ConnectLists ==
  /\ connecting.at = "list"
  /\ LET n == FreeName(Outs)
     IN InitializeNode(n, connecting) /\ connecting' = [connecting EXCEPT !.at = "register",
                                                                          !.node = n]
  /\ UNCHANGED <<running, now, banVars, registered, accepting>>

ConnectRegisters ==
  /\ connecting.at = "register"
  /\ registered' = registered \cup {connecting.node}
  /\ connecting' = Idle
  /\ UNCHANGED <<running, now, banVars, addr, up, leaving, nonce, accepted, accepting>>

-----------------------------------------------------------------------------
(* The acceptor's thread. *)

\* Our own outbound nodes, once they have sent their version, are the peers that
\* connect from an address of Self.
Callers(a) == IF a \in Self THEN {n \in Outs \cap up \cap registered : addr[n] = a}
                            ELSE {None}

AcceptConnCb_BanForgotten(a, from) ==
  /\ running
  /\ accepting = Idle
  /\ HasRoom(Ins, MaxInbound)
  /\ accepting' = [Idle EXCEPT !.at = "list", !.addr = a, !.from = from,
                               !.barred = IsBanned(a)]
  /\ UNCHANGED <<running, now, banVars, nodeVars, connecting>>

\* The tests of AcceptConnCb; a connection that fails one is closed at once.
AcceptConnCb(a, from) ==
  /\ running
  /\ accepting = Idle
  /\ ~IsBanned(a)
  /\ HasRoom(Ins, MaxInbound)
  /\ accepting' = [Idle EXCEPT !.at = "list", !.addr = a, !.from = from,
                               !.barred = IsBanned(a)]
  /\ UNCHANGED <<running, now, banVars, nodeVars, connecting>>

\* Until the callbacks of the bufferevent are set, after RegisterSetStateCb,
\* nothing disconnects the node: listing and registering it are one step.
AcceptLists ==
  /\ accepting.at = "list"
  /\ LET n == FreeName(Ins)
     IN InitializeNode(n, accepting) /\ registered' = registered \cup {n}
  /\ accepting' = Idle
  /\ UNCHANGED <<running, now, banVars, connecting>>

\* Nothing ever adds a node to the list of SingletonNodes.
SingletonNodes == {}

\* Nodes::CheckIncomingNonce: false for the nonce of an outbound node listed there
\* that has not completed its handshake.  Its peer, the node that asks, has not
\* answered it yet.
CheckIncomingNonce(m) == ~ \E n \in SingletonNodes : n \in Outs /\ n = m

\* Version::RecvHandler of an inbound node, its nonce part.
RecvVersion(n) ==
  /\ n \in Ins \cap up \cap registered
  /\ n \notin accepted
  /\ IF CheckIncomingNonce(nonce[n])
     THEN accepted' = accepted \cup {n} /\ UNCHANGED <<up, leaving>>
     ELSE Disconnected(n) /\ UNCHANGED accepted
  /\ UNCHANGED <<running, now, banVars, addr, registered, nonce, connecting, accepting>>

-----------------------------------------------------------------------------
(* Stop, crash, start. *)

\* The process is gone, with all that was in its memory.
Gone ==
  /\ running'    = FALSE
  /\ bans'       = [a \in Addrs |-> 0]
  /\ banning'    = None
  /\ addr'       = [n \in Nodes |-> None]
  /\ up'         = {}
  /\ registered' = {}
  /\ leaving'    = {}
  /\ nonce'      = [n \in Ins |-> None]
  /\ accepted'   = {}
  /\ connecting' = Idle
  /\ accepting'  = Idle
  /\ UNCHANGED now

\* P2P::Stop joins the event loops and calls DumpBanList, which sweeps first.
Stop ==
  /\ running
  /\ Gone
  /\ file' \in Swept(bans)

Crash ==
  /\ running
  /\ Gone
  /\ UNCHANGED file

\* A crash in the dump leaves a prefix of the file.
CrashInDump ==
  /\ running
  /\ Gone
  /\ \E lost \in SUBSET Addrs : file' = [a \in Addrs |-> IF a \in lost THEN 0 ELSE bans[a]]

\* P2P::Init: LoadBanList and SweepBanned; a file that does not parse to its end, or
\* is missing, is written anew with what was read of it.
Start ==
  /\ ~running
  /\ running' = TRUE
  /\ bans' \in Swept(file)
  /\ file' \in {file, bans'}
  /\ UNCHANGED <<now, banning, nodeVars, connecting, accepting>>

\* P2P::Init fails before LoadBanList, the listening port being taken for instance:
\* main goes on to P2P::Stop, which dumps the empty list.
StartFails ==
  /\ ~running
  /\ file' = [a \in Addrs |-> 0]
  /\ UNCHANGED <<running, now, bans, banning, nodeVars, connecting, accepting>>

-----------------------------------------------------------------------------

Init ==
  /\ running = FALSE
  /\ now = 0
  /\ file \in [Addrs -> {0, BanTime}]
  /\ bans = [a \in Addrs |-> 0]
  /\ banning = None
  /\ addr = [n \in Nodes |-> None]
  /\ up = {} /\ registered = {} /\ leaving = {} /\ accepted = {}
  /\ nonce = [n \in Ins |-> None]
  /\ connecting = Idle
  /\ accepting = Idle

ConnectNode == ConnectTests \/ ConnectFails \/ ConnectLists \/ ConnectRegisters

Next ==
  \/ \E a \in Addrs : OutboundTimeOutCb(a)
  \/ ConnectNode
  \/ \E a \in Addrs : \E from \in Callers(a) : AcceptConnCb(a, from)
  \/ AcceptLists
  \/ \E n \in Ins : RecvVersion(n)
  \/ \E n \in Nodes : Disconnect(n) \/ CheckBanned(n) \/ EraseNode(n)
  \/ AddBan
  \/ Tick
  \/ Stop \/ Crash \/ CrashInDump \/ Start \/ StartFails

Spec == Init /\ [][Next]_vars

\* The timer is called again and again, and Select chooses at random: an address
\* that can be chosen over and over is chosen.  Callbacks in progress end.
FairSpec ==
  /\ Spec
  /\ WF_vars(ConnectNode)
  /\ \A a \in Addrs : SF_vars(OutboundTimeOutCb(a))
  /\ \A n \in Nodes : WF_vars(EraseNode(n))

-----------------------------------------------------------------------------
(* Properties. *)

Task == [at : {"idle", "test", "list", "register"}, addr : Addrs \cup {None},
         node : Nodes \cup {None}, from : Outs \cup {None}, barred : BOOLEAN]

TypeOK ==
  /\ running \in BOOLEAN
  /\ now \in Nat
  /\ bans \in [Addrs -> Nat] /\ file \in [Addrs -> Nat]
  /\ banning \in Addrs \cup {None}
  /\ addr \in [Nodes -> Addrs \cup {None}]
  /\ leaving \subseteq registered \ up
  /\ up \cup registered \subseteq Listed(Nodes) /\ accepted \subseteq Ins \cap registered
  /\ nonce \in [Ins -> Outs \cup {None}]
  /\ connecting \in Task /\ accepting \in Task

\* "Maximum number of automatic outgoing nodes" (constants.h:50), and as many
\* inbound ones as kMaxPeerConnections leaves: the test and the listing are apart,
\* with disconnections between them.
WithinLimits ==
  /\ Cardinality(Listed(Outs)) <= MaxOutbound
  /\ Cardinality(Listed(Ins)) <= MaxInbound

\* ConnectNode "look[s] for an existing connection" (connector.cpp:285): no two
\* outbound nodes have one address, the disconnected and not yet erased included.
OneOutboundEach ==
  \A n, m \in Listed(Outs) : addr[n] = addr[m] => n = m

\* An address banned before an attempt began, and ever since, gets no node: not by
\* our connecting to it, nor by its connecting to us.
BannedKeptOut ==
  \A task \in {connecting, accepting} : task.at \in {"list", "register"} => ~task.barred

\* What is banned: in memory, or on disk between two runs.
InForce == IF running THEN bans ELSE file

Kept(b, new) == \A a \in Addrs : b[a] > now' => new[a] >= b[a]

\* A ban lasts until its end: neither a sweep, nor a second ban, nor a stop and a
\* start ends or shortens one.  A crash may, but not one that is on disk, unless it
\* is in the dump; a start that fails before LoadBanList ends them all.
BansLast ==
  [][/\ ~(Crash \/ CrashInDump \/ StartFails) => Kept(InForce, InForce')
     /\ ~(CrashInDump \/ StartFails) => Kept(file, file')]_vars

\* Unless disconnections, failures and restarts go on for ever, the outbound list
\* fills up, or holds a node for every address that is not banned.
OutboundsFill ==
  LET Disturbance == ConnectFails \/ Stop \/ Crash \/ CrashInDump \/ Start
                     \/ \E n \in Nodes : Disconnect(n) \/ CheckBanned(n)
  IN <>[][~Disturbance]_vars /\ <>[]running
       => <>[](\/ Cardinality(Listed(Outs)) = MaxOutbound
               \/ \A a \in Addrs : AlreadyConnected(a) \/ IsBanned(a))

\* "Disconnecting peer ... for connecting to self" (version.cpp:89): a version that
\* carries the nonce of one of our outbound nodes is not accepted.
SelfIsRefused == \A n \in accepted : nonce[n] = None
=============================================================================
