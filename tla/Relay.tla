---------------------------------- MODULE Relay ----------------------------------
(***************************************************************************)
(* What a node is told of addresses (network/src/net.cpp LocalService and  *)
(* RelayFloodingAddrsTimeoutCb, FloodingAddrs of node.cpp and node.h): its *)
(* own local addresses are pushed to a queue of bounded length, and the    *)
(* relay timer sends what is in the queue and not among the addresses the  *)
(* node is known to have.                                                  *)
(*                                                                         *)
(* One node, one relay timer.  Only the relay callback calls AddKnownAddr, *)
(* so its test and its insertion are one step.                             *)
(***************************************************************************)
EXTENDS Naturals, Sequences, FiniteSets

CONSTANTS Addrs,
          RoutableAddrs,  \* IsRoutable
          ValidAddrs,     \* IsValid
          Interfaces,     \* the addresses of the host's interfaces
          Reachability,   \* GetReachability from the node to each of them
          PeerRoutable,   \* the node's own address is routable
          Advertisers,    \* the threads that may advertise to the node
          MaxAddrToSend,  \* kMaxAddrToSend
          KnownSize,      \* the capacity of known_addrs_
          MaxAddrsInMsg,  \* 1000: "receiver rejects addr messages larger"
          MaxSent,        \* bound on the addresses sent
          NoAddr

ASSUME RelayAssumption ==
  /\ Interfaces \subseteq Addrs
  /\ RoutableAddrs \subseteq ValidAddrs /\ ValidAddrs \subseteq Addrs
  /\ NoAddr \notin Addrs
  /\ PeerRoutable \in BOOLEAN
  /\ MaxAddrToSend \in Nat \ {0} /\ KnownSize \in Nat \ {0}
  /\ MaxAddrsInMsg \in Nat \ {0} /\ MaxSent \in Nat
  /\ Reachability \in [Addrs -> Nat]

VARIABLES
  locals,    \* local_addrs_
  started,   \* DiscoverLocalAddrs has returned
  told,      \* local_addr_: what the node says our address is
  adv,       \* the address each advertiser is about to push
  toSend,    \* addrs_to_send_
  known,     \* known_addrs_
  pass,      \* where the relay callback is
  copy,      \* its copy of addrs_to_send_, from the address it looks at
  msg,       \* addr_msg
  left,      \* the node has been disconnected
  sent,      \* history: the addresses sent, in their order
  lengths,   \* history: the lengths of the messages they were sent in
  accepted,  \* history: addresses PushAddrToSend took
  replaced,  \* history: those overwritten in a full queue
  late,      \* history: those taken while a relay pass was on
  overrun,   \* history: those written past the end of addrs_to_send_
  aborted    \* such a write ended the process

relayState == <<locals, started, told, adv, toSend, known, pass, copy, msg, left,
                sent, lengths, accepted, replaced, late, overrun, aborted>>
queueVars == <<toSend, accepted, replaced, late, overrun, aborted>>
passVars  == <<known, pass, copy, msg, sent, lengths>>

InSeq(a, s) == \E i \in DOMAIN s : s[i] = a

-----------------------------------------------------------------------------
(* The local addresses. *)

\* One interface of DiscoverLocalAddrs: AddLocalAddr.  Only this thread adds.
AddLocalAddr(a) ==
  /\ ~started
  /\ a \in RoutableAddrs
  /\ ~InSeq(a, locals)
  /\ locals' = Append(locals, a)
  /\ UNCHANGED <<started, told, adv, queueVars, passVars, left>>

EndDiscovery ==
  /\ ~started
  /\ started' = TRUE
  /\ UNCHANGED <<locals, told, adv, queueVars, passVars, left>>

\* set_local_addr, by the version handler: the first valid address stays.
SetLocalAddr(a) ==
  /\ started
  /\ told \notin ValidAddrs
  /\ told' = a
  /\ UNCHANGED <<locals, started, adv, queueVars, passVars, left>>

\* GetLocalAddr: the first of those best reachable from the node.
GetLocalAddr(a) ==
  \E i \in DOMAIN locals :
    /\ a = locals[i]
    /\ \A j \in DOMAIN locals :
         IF j < i THEN Reachability[locals[j]] < Reachability[a]
                  ELSE Reachability[locals[j]] <= Reachability[a]

IsLocalAddrGood == PeerRoutable /\ told \in RoutableAddrs

\* What AdvertiseLocalAddr pushes.
Discovered == {a \in RoutableAddrs : GetLocalAddr(a)}
Advertised(discoveredFirst) ==
  IF discoveredFirst /\ Discovered # {} THEN Discovered
  ELSE IF IsLocalAddrGood THEN {told}
  ELSE {}

AdvertiseLocalAddr(x, discoveredFirst) ==
  /\ started
  /\ ~left
  /\ adv[x] = NoAddr
  /\ \E a \in Advertised(discoveredFirst) : adv' = [adv EXCEPT ![x] = a]
  /\ UNCHANGED <<locals, started, told, queueVars, passVars, left>>

-----------------------------------------------------------------------------
(* FloodingAddrs, each operation under cs_. *)

\* In a full queue the address takes the place of any other ...
Overwrite(i, a) ==
  /\ toSend' = [toSend EXCEPT ![i] = a]
  /\ replaced' = replaced \cup {toSend[i]}
  /\ UNCHANGED <<overrun, aborted>>

\* ... or that of none: RandUint64(size()) may be size() itself (random.cpp:17).  The
\* address is then assigned to an object that was never made, in the spare memory of the
\* vector, and is lost if that does not end the process.
WritePastEnd(a) ==
  /\ overrun' = overrun \cup {a}
  /\ aborted' \in BOOLEAN
  /\ UNCHANGED <<toSend, replaced>>

Queue(a) ==
  \/ Len(toSend) < MaxAddrToSend
     /\ toSend' = Append(toSend, a) /\ UNCHANGED <<replaced, overrun, aborted>>
  \/ Len(toSend) >= MaxAddrToSend
     /\ (WritePastEnd(a) \/ \E i \in DOMAIN toSend : Overwrite(i, a))

PushAddrToSend(x) ==
  /\ adv[x] # NoAddr
  /\ adv' = [adv EXCEPT ![x] = NoAddr]
  /\ IF adv[x] \notin ValidAddrs \/ InSeq(adv[x], known)
     THEN UNCHANGED queueVars
     ELSE /\ Queue(adv[x])
          /\ accepted' = accepted \cup {adv[x]}
          /\ late' = IF pass = "idle" THEN late ELSE late \cup {adv[x]}
  /\ UNCHANGED <<locals, started, told, passVars, left>>

\* boost::circular_buffer::push_back: when it is full the oldest goes.
WithKnown(a) ==
  IF Len(known) = KnownSize THEN Append(Tail(known), a) ELSE Append(known, a)

-----------------------------------------------------------------------------
(* RelayFloodingAddrsTimeoutCb. *)

\* addrs_to_send() returns a copy.
BeginPass ==
  /\ started
  /\ pass = "idle"
  /\ ~left
  /\ Len(sent) + MaxAddrToSend <= MaxSent
  /\ pass' = "loop"
  /\ copy' = toSend
  /\ msg' = <<>>
  /\ UNCHANGED <<locals, started, told, adv, queueVars, known, left, sent, lengths>>

Send(m) == sent' = sent \o m /\ lengths' = lengths \cup {Len(m)}

FullMsg_OneMore(m) == Len(m) > MaxAddrsInMsg
FullMsg(m) == Len(m) >= MaxAddrsInMsg

RelayAddr_FullDropped ==
  /\ pass = "loop"
  /\ copy # <<>>
  /\ copy' = Tail(copy)
  /\ IF InSeq(Head(copy), known) THEN UNCHANGED <<known, msg>>
     ELSE /\ known' = WithKnown(Head(copy))
          /\ msg' = IF FullMsg(Append(msg, Head(copy))) THEN <<>> ELSE Append(msg, Head(copy))
  /\ UNCHANGED <<locals, started, told, adv, queueVars, pass, left, sent, lengths>>

RelayAddr ==
  /\ pass = "loop"
  /\ copy # <<>>
  /\ copy' = Tail(copy)
  /\ IF InSeq(Head(copy), known) THEN UNCHANGED <<known, msg, sent, lengths>>
     ELSE LET more == Append(msg, Head(copy))
          IN /\ known' = WithKnown(Head(copy))
             /\ IF FullMsg(more) THEN Send(more) /\ msg' = <<>>
                                 ELSE msg' = more /\ UNCHANGED <<sent, lengths>>
  /\ UNCHANGED <<locals, started, told, adv, queueVars, pass, left>>

SendRest ==
  /\ pass = "loop"
  /\ copy = <<>>
  /\ IF msg = <<>> THEN UNCHANGED <<sent, lengths>> ELSE Send(msg)
  /\ msg' = <<>>
  /\ pass' = "sent"
  /\ UNCHANGED <<locals, started, told, adv, queueVars, known, copy, left>>

\* ClearSentAddr, whatever was pushed meanwhile.
ClearSentAddr ==
  /\ pass = "sent"
  /\ pass' = "idle"
  /\ toSend' = <<>>
  /\ UNCHANGED <<locals, started, told, adv, accepted, replaced, late, overrun, aborted,
                 known, copy, msg, left, sent, lengths>>

Leave ==
  /\ started /\ ~left
  /\ left' = TRUE
  /\ UNCHANGED <<locals, started, told, adv, queueVars, passVars>>

-----------------------------------------------------------------------------

RelayInit ==
  /\ locals = <<>> /\ started = FALSE /\ told = NoAddr
  /\ adv = [x \in Advertisers |-> NoAddr]
  /\ toSend = <<>> /\ known = <<>>
  /\ pass = "idle" /\ copy = <<>> /\ msg = <<>>
  /\ left = FALSE
  /\ sent = <<>> /\ lengths = {} /\ accepted = {} /\ replaced = {} /\ late = {}
  /\ overrun = {} /\ aborted = FALSE

PassStep == RelayAddr \/ SendRest \/ ClearSentAddr

RelayNext ==
  /\ ~aborted
  /\ \/ \E a \in Interfaces : AddLocalAddr(a)
     \/ EndDiscovery
     \/ \E a \in Addrs : SetLocalAddr(a)
     \/ \E x \in Advertisers, first \in BOOLEAN : AdvertiseLocalAddr(x, first)
     \/ \E x \in Advertisers : PushAddrToSend(x)
     \/ BeginPass
     \/ PassStep
     \/ Leave

RelaySpec == RelayInit /\ [][RelayNext]_relayState

-----------------------------------------------------------------------------
(* Properties. *)

RelayTypeOK ==
  /\ locals \in Seq(RoutableAddrs)
  /\ told \in Addrs \cup {NoAddr}
  /\ adv \in [Advertisers -> Addrs \cup {NoAddr}]
  /\ toSend \in Seq(Addrs) /\ known \in Seq(Addrs)
  /\ Len(known) <= KnownSize
  /\ pass \in {"idle", "loop", "sent"}
  /\ copy \in Seq(Addrs) /\ msg \in Seq(Addrs)
  /\ sent \in Seq(Addrs) /\ lengths \subseteq Nat
  /\ accepted \subseteq Addrs /\ replaced \subseteq Addrs /\ late \subseteq Addrs
  /\ overrun \subseteq Addrs /\ aborted \in BOOLEAN
  /\ started \in BOOLEAN /\ left \in BOOLEAN

\* The queue keeps its limit (node.cpp:27), and no message is one its receiver
\* rejects (net.cpp:215).
WithinLimits ==
  /\ Len(toSend) <= MaxAddrToSend
  /\ lengths \subseteq 1..MaxAddrsInMsg

\* An address is sent again only when known_addrs_ has forgotten it: after as many
\* others as it holds (net.cpp:212, node.cpp:46-56).
NoEarlyRepeat ==
  \A i, j \in DOMAIN sent : i < j /\ sent[i] = sent[j] => j - i > KnownSize

\* What PushAddrToSend took is on its way or was sent, unless it was overwritten in a
\* full queue, was itself written past the end of one (node.cpp:28), or came between the
\* copy of the queue and ClearSentAddr (net.cpp:208-224).
AcceptedIsAccountedFor ==
  \A a \in accepted :
    \/ InSeq(a, sent) \/ InSeq(a, msg) \/ InSeq(a, toSend)
    \/ a \in replaced \cup late \cup overrun

\* What we advertise is routable, and one of our own addresses or the first the node
\* told us (net.cpp:104-127, node.h set_local_addr).
AdvertisesOwn ==
  \A a \in accepted : a \in RoutableAddrs /\ (InSeq(a, locals) \/ a = told)

\* A queued address is sent, unless the node leaves, the address is overwritten, it came
\* during a pass, or a write past the end of the queue ended the process.
QueuedIsSent ==
  \A a \in RoutableAddrs :
    InSeq(a, toSend) ~> \/ InSeq(a, sent) \/ a \in replaced \cup late
                        \/ left \/ aborted \/ Len(sent) + MaxAddrToSend > MaxSent

\* The relay of addresses to a node, as long as it lasts.
RelaySafe == RelayTypeOK /\ WithinLimits /\ NoEarlyRepeat /\ AcceptedIsAccountedFor /\ AdvertisesOwn
=============================================================================
