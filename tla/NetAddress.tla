----------------------------- MODULE NetAddress -----------------------------
(***************************************************************************)
(* NetAddr and SubNet (network_address.cpp) with the lookups of numeric    *)
(* names (net_base.cpp): the kinds of addresses, the group and the         *)
(* reachability of an address, and the network that stands for it in the   *)
(* ban list, its key there and that key read back.                         *)
(*                                                                         *)
(* An IP is its 16 bytes, at positions 0 .. 15.  Text is abstracted to     *)
(* what it shows: its form and the bytes or the number in it.  A hash is a *)
(* sequence of bytes.                                                      *)
(***************************************************************************)
EXTENDS Integers, Sequences

CONSTANTS
  Ipv4s,    \* IPv4 addresses given, 4 bytes each
  Ips,      \* IPs given, 16 bytes each
  Hashes,   \* SHA-256 of names, of which the first 10 bytes count
  Ports, Scopes,
  PrefixLengths, \* lengths of network prefixes given
  Masks,    \* netmasks given, IPs
  NoNet     \* no network made yet

ASSUME AddressAssumption ==
  /\ Ipv4s \subseteq [1..4 -> 0..255]
  /\ Ips \subseteq [0..15 -> 0..255] /\ Masks \subseteq [0..15 -> 0..255]
  /\ Hashes \subseteq [1..32 -> 0..255]
  /\ PrefixLengths \subseteq Int

VARIABLES
  addr, \* a NetAddr
  net,  \* the SubNet made of it
  key,  \* that SubNet as text
  back  \* the SubNet read from this text

addressState == <<addr, net, key, back>>

-----------------------------------------------------------------------------
(* Bytes, bit by bit. *)

\* x & y, from the lowest bit up.
BitAnd[p \in Nat \X Nat] ==
  IF p[1] = 0 \/ p[2] = 0 THEN 0
  ELSE (IF p[1] % 2 = 1 /\ p[2] % 2 = 1 THEN 1 ELSE 0) + 2 * BitAnd[<<p[1] \div 2, p[2] \div 2>>]

\* The bytes of which the k highest bits are set, for k in 1 .. 7.
HighBits == <<128, 192, 224, 240, 248, 252, 254>>

-----------------------------------------------------------------------------
(* Kinds of addresses; an address is [ip, port, scope]. *)

BytePositions == 0..15
Make(bytes) == [n \in BytePositions |-> bytes[n + 1]]
Nil == [n \in BytePositions |-> 0]

\* std::memcmp with bytes from position 0.
StartsWith(ip, bytes) == \A n \in 1..Len(bytes) : ip[n - 1] = bytes[n]
Overwrite(ip, first, bytes) ==
  [n \in BytePositions |->
     IF n \in first..first + Len(bytes) - 1 THEN bytes[n - first + 1] ELSE ip[n]]

PchIpv4 == <<0, 0, 0, 0, 0, 0, 0, 0, 0, 0, 255, 255>>
PchOnionCat == <<253, 135, 216, 126, 235, 67>>
BtcIpPrefix == <<253, 107, 136, 192, 135, 36>>

IsIpv4(ip) == StartsWith(ip, PchIpv4)
IsTor(ip) == StartsWith(ip, PchOnionCat)
IsInternal(ip) == StartsWith(ip, BtcIpPrefix)
IsIpv6(ip) == ~IsIpv4(ip) /\ ~IsTor(ip) /\ ~IsInternal(ip)

\* The IPv4 address at position n, and tests of its bytes.
Ipv4At(ip, n) == <<ip[n], ip[n + 1], ip[n + 2], ip[n + 3]>>

IsRFC1918(ip) ==
  /\ IsIpv4(ip)
  /\ \/ ip[12] = 10
     \/ ip[12] = 192 /\ ip[13] = 168
     \/ ip[12] = 172 /\ ip[13] \in 16..31
IsRFC2544(ip) == IsIpv4(ip) /\ ip[12] = 198 /\ ip[13] \in {18, 19}
IsRFC6598(ip) == IsIpv4(ip) /\ ip[12] = 100 /\ ip[13] \in 64..127
IsRFC5737(ip) ==
  IsIpv4(ip) /\ <<ip[12], ip[13], ip[14]>> \in {<<192, 0, 2>>, <<198, 51, 100>>, <<203, 0, 113>>}
IsRFC3927(ip) == IsIpv4(ip) /\ ip[12] = 169 /\ ip[13] = 254

IsRFC3849(ip) == IsIpv6(ip) /\ StartsWith(ip, <<32, 1, 13, 184>>)
IsRFC3964(ip) == IsIpv6(ip) /\ StartsWith(ip, <<32, 2>>)
IsRFC4193(ip) == IsIpv6(ip) /\ ip[0] \in {252, 253}
IsRFC4380(ip) == IsIpv6(ip) /\ StartsWith(ip, <<32, 1, 0, 0>>)
IsRFC4843(ip) == IsIpv6(ip) /\ StartsWith(ip, <<32, 1, 0>>) /\ ip[3] \in 16..31
IsRFC4862(ip) == IsIpv6(ip) /\ StartsWith(ip, <<254, 128, 0, 0, 0, 0, 0, 0>>)
\* The first 8 bytes only, of the 12 of the prefix.
IsRFC6052(ip) == IsIpv6(ip) /\ StartsWith(ip, <<0, 100, 255, 155, 0, 0, 0, 0>>)
IsRFC6145(ip) == IsIpv6(ip) /\ StartsWith(ip, <<0, 0, 0, 0, 0, 0, 0, 0, 255, 255, 0, 0>>)

IsLocal(ip) ==
  \/ IsIpv4(ip) /\ ip[12] \in {0, 127}
  \/ IsIpv6(ip) /\ ip = [Nil EXCEPT ![15] = 1]

\* An IPv4 address read three bytes too late is recognised and refused.
IsValidIp(ip) ==
  /\ ~StartsWith(ip, SubSeq(PchIpv4, 4, 12))
  /\ ip # Nil
  /\ ~IsRFC3849(ip)
  /\ ~IsInternal(ip)
  /\ ~(IsIpv4(ip) /\ Ipv4At(ip, 12) \in {<<255, 255, 255, 255>>, <<0, 0, 0, 0>>})

IsRoutable(ip) ==
  /\ IsValidIp(ip)
  /\ ~(IsRFC1918(ip) \/ IsRFC2544(ip) \/ IsRFC3927(ip) \/ IsRFC4862(ip) \/ IsRFC6598(ip))
  /\ ~(IsRFC5737(ip) \/ IsRFC4193(ip) \/ IsRFC4843(ip) \/ IsLocal(ip))

-----------------------------------------------------------------------------
(* Groups and reachability. *)

Leading_Short(ip, start, bits) == [i \in 1..(bits + 7) \div 8 |-> ip[start + i - 1]]

\* bits of an IP from a position on; a last byte cut short has its other bits set.
Leading(ip, start, bits) ==
  LET high == HighBits[bits % 8]
  IN [i \in 1..(bits + 7) \div 8 |->
        IF 8 * i <= bits THEN ip[start + i - 1]
        ELSE BitAnd[<<ip[start + i - 1], high>>] + 255 - high]

\* NetAddr::GetGroup, a byte for the family and those after it.  The family 255 of
\* local addresses is overwritten.
Group(family, bytes) == [family |-> family, bytes |-> bytes]
GetGroup(ip) ==
  IF IsInternal(ip) THEN Group("internal", Leading(ip, 6, 80))
  ELSE IF ~IsRoutable(ip) THEN Group("unroutable", << >>)
  ELSE CASE IsIpv4(ip) \/ IsRFC6145(ip) \/ IsRFC6052(ip) -> Group("ipv4", Leading(ip, 12, 16))
         [] IsRFC3964(ip) -> Group("ipv4", Leading(ip, 2, 16))
         [] IsRFC4380(ip) -> Group("ipv4", <<255 - ip[12], 255 - ip[13]>>)
         [] IsTor(ip) -> Group("tor", Leading(ip, 6, 4))
         [] StartsWith(ip, <<32, 1, 4, 112>>) -> Group("ipv6", Leading(ip, 0, 36))
         [] OTHER -> Group("ipv6", Leading(ip, 0, 32))

GetFamily(ip) ==
  IF IsInternal(ip) THEN "internal"
  ELSE IF ~IsRoutable(ip) THEN "unroutable"
  ELSE CASE IsIpv4(ip) -> "ipv4" [] IsTor(ip) -> "tor" [] OTHER -> "ipv6"

GetExtFamily(ip) == IF IsRFC4380(ip) THEN "teredo" ELSE GetFamily(ip)

ReachUnreachable == 0
ReachDefault == 1
ReachTeredo == 2
ReachIpv6Weak == 3
ReachIpv4 == 4
ReachIpv6Strong == 5
ReachPrivate == 6

\* Rows are the family of the partner, entries our own.
ReachabilityOf(ours, theirs, tunnel) ==
  CASE ours = "ipv4" -> ReachIpv4
    [] ours = "tor" /\ theirs \notin {"ipv4", "ipv6", "teredo"} -> ReachPrivate
    [] ours = "teredo" /\ theirs \notin {"ipv4", "tor"} -> ReachTeredo
    [] ours = "ipv6" /\ theirs = "ipv6" -> IF tunnel THEN ReachIpv6Weak ELSE ReachIpv6Strong
    [] ours = "ipv6" /\ theirs \notin {"ipv4", "ipv6", "tor"} -> ReachIpv6Weak
    [] OTHER -> ReachDefault

\* NetAddr::GetReachability.
GetReachability(ip, partner) ==
  IF ~IsRoutable(ip) \/ IsInternal(ip) THEN ReachUnreachable
  ELSE ReachabilityOf(GetExtFamily(ip), GetExtFamily(partner),
                      IsRFC3964(ip) \/ IsRFC6052(ip) \/ IsRFC6145(ip))

-----------------------------------------------------------------------------
(* Addresses set and taken from sockets. *)

SetIpv4(ip, v4) == Overwrite(IF IsIpv4(ip) THEN ip ELSE Overwrite(ip, 0, PchIpv4), 12, v4)
SetInternal(ip, hash) == Overwrite(Overwrite(ip, 0, BtcIpPrefix), 6, SubSeq(hash, 1, 10))
NewAddr == [ip |-> Nil, port |-> 0, scope |-> 0]

\* NetAddr::ToSockAddr: nothing for Tor and internal addresses.
NoSockAddr == [family |-> "none"]
ToSockAddr(a) ==
  CASE IsIpv4(a.ip) -> [family |-> "inet", ip |-> Ipv4At(a.ip, 12), port |-> a.port]
    [] IsIpv6(a.ip) -> [family |-> "inet6", ip |-> a.ip, port |-> a.port, scope |-> a.scope]
    [] OTHER -> NoSockAddr

\* NetAddr::FromSockAddr and the constructors it calls.
FromSockAddr(sock) ==
  IF sock.family = "inet"
  THEN [NewAddr EXCEPT !.ip = SetIpv4(Nil, sock.ip), !.port = sock.port]
  ELSE [ip |-> sock.ip, port |-> sock.port, scope |-> sock.scope]

\* What an address without a name is told apart by: operator== and GetHash.
Identity(a) == <<a.ip, a.port>>

-----------------------------------------------------------------------------
(* SubNet, a network [ip, mask, valid]. *)

AllOnes == [n \in BytePositions |-> 255]
Masked(ip, mask) ==
  [n \in BytePositions |-> CASE mask[n] = 255 -> ip[n] [] mask[n] = 0 -> 0 [] OTHER -> BitAnd[<<ip[n], mask[n]>>]]

\* SubNet(const NetAddr&): the address alone.  No caller moves an address into one.
SubNetOf(ip) == [ip |-> ip, mask |-> AllOnes, valid |-> IsValidIp(ip)]

\* SubNet(addr, mask) with the length of a prefix, counted from the IPv4 part.
FirstPosition(ip) == IF IsIpv4(ip) THEN 12 ELSE 0
PrefixMask(length) ==
  [n \in BytePositions |->
     LET set == length - 8 * n
     IN CASE set >= 8 -> 255 [] set <= 0 -> 0 [] OTHER -> HighBits[set]]
InRange(ip, length) == length >= 0 /\ length <= 128 - 8 * FirstPosition(ip)
SubNetOfPrefix(ip, length) ==
  LET mask == IF InRange(ip, length) THEN PrefixMask(length + 8 * FirstPosition(ip)) ELSE AllOnes
  IN [ip |-> Masked(ip, mask), mask |-> mask, valid |-> InRange(ip, length)]

\* SubNet(addr, mask) with a netmask, of which only the IPv4 part counts for IPv4.
SubNetOfMask(ip, other) ==
  LET mask == [n \in BytePositions |-> IF n < FirstPosition(ip) THEN 255 ELSE other[n]]
  IN [ip |-> Masked(ip, mask), mask |-> mask, valid |-> TRUE]

Match(subnet, ip) ==
  subnet.valid /\ IsValidIp(ip) /\ Masked(ip, subnet.mask) = subnet.ip

AddrText(ip) ==
  CASE IsTor(ip) -> [form |-> "onion", bytes |-> [i \in 1..10 |-> ip[5 + i]]]
    [] IsInternal(ip) -> [form |-> "internal", bytes |-> [i \in 1..10 |-> ip[5 + i]]]
    [] IsIpv4(ip) -> [form |-> "dotted", bytes |-> Ipv4At(ip, 12)]
    [] OTHER -> [form |-> "colons", bytes |-> [i \in 1..16 |-> ip[i - 1]]]

\* SubNet::ToString: the length of the prefix, or the netmask if it is not one.
MaskText(subnet) ==
  LET first == FirstPosition(subnet.ip)
      Cidr == {n \in 0..128 - 8 * first :
                 \A p \in first..15 : subnet.mask[p] = PrefixMask(n + 8 * first)[p]}
  IN CASE Cidr # {} -> [form |-> "number", bytes |-> <<CHOOSE n \in Cidr : TRUE>>]
       [] Cidr = {} /\ first = 12 -> [form |-> "dotted", bytes |-> Ipv4At(subnet.mask, 12)]
       [] OTHER -> [form |-> "colons", bytes |-> [i \in 1..16 |-> subnet.mask[i - 1]]]
ToText(subnet) == [address |-> AddrText(subnet.ip), mask |-> MaskText(subnet)]

\* LookupHost of a number: at most one address, never an internal one.
Looked(text) ==
  CASE text.form = "dotted" -> {SetIpv4(Nil, text.bytes)}
    [] text.form = "colons" -> {ip \in {Make(text.bytes)} : ~IsInternal(ip)}
    [] OTHER -> {}

\* LookupSubNet: what *out becomes; nothing if it returns early.
LookupSubNet(text) ==
  {SubNetOfPrefix(ip, text.mask.bytes[1]) :
     ip \in {x \in Looked(text.address) : text.mask.form = "number"}}
  \cup {SubNetOfMask(x, y) : x \in Looked(text.address), y \in Looked(text.mask)}

-----------------------------------------------------------------------------
(* One address at a time, and the network made of it. *)

AddressInit == addr = NewAddr /\ net = NoNet /\ key = NoNet /\ back = NoNet

Assign(a) ==
  /\ net = NoNet
  /\ addr' = a
  /\ UNCHANGED <<net, key, back>>

\* The setters and NetAddr::Clear, which leaves the scope as it is.
SetterCalled ==
  \/ \E v4 \in Ipv4s : Assign([addr EXCEPT !.ip = SetIpv4(@, v4)])
  \/ \E ip \in Ips : Assign([addr EXCEPT !.ip = ip])
  \/ \E hash \in Hashes : Assign([addr EXCEPT !.ip = SetInternal(@, hash)])
  \/ \E p \in Ports : Assign([addr EXCEPT !.port = p])
  \/ \E s \in Scopes : Assign([addr EXCEPT !.scope = s])
  \/ Assign([addr EXCEPT !.ip = Nil, !.port = 0])

\* The address of a socket that has been given or taken.
ThroughSocket ==
  /\ ToSockAddr(addr) # NoSockAddr
  /\ Assign(FromSockAddr(ToSockAddr(addr)))

MakeNet(subnet) ==
  /\ net = NoNet
  /\ net' = subnet
  /\ UNCHANGED <<addr, key, back>>

MakeSubNet ==
  \/ MakeNet(SubNetOf(addr.ip))
  \/ \E length \in PrefixLengths : MakeNet(SubNetOfPrefix(addr.ip, length))
  \/ \E mask \in Masks : MakeNet(SubNetOfMask(addr.ip, mask))

\* SubNet::ToString, the key of the ban list.
WriteKey ==
  /\ net # NoNet /\ key = NoNet
  /\ key' = ToText(net)
  /\ UNCHANGED <<addr, net, back>>

ReadKey ==
  /\ key # NoNet /\ back = NoNet
  /\ back' \in LookupSubNet(key)
  /\ UNCHANGED <<addr, net, key>>

\* Another address is looked at; SubNet::Clear with it.
AnotherAddress ==
  /\ net # NoNet
  /\ net' = NoNet /\ key' = NoNet /\ back' = NoNet
  /\ UNCHANGED addr

AddressNext == SetterCalled \/ ThroughSocket \/ MakeSubNet \/ WriteKey \/ ReadKey \/ AnotherAddress

AddressSpec == AddressInit /\ [][AddressNext]_addressState

-----------------------------------------------------------------------------
(* Properties. *)

\* The addresses that probe what holds of any two: all that can be given.
Probes == Ips \cup {SetIpv4(Nil, v4) : v4 \in Ipv4s}

\* An address inside which an IPv4 address travels is of the group of that address,
\* so that it takes no more buckets of the address manager than that one does.
EmbeddedIpv4(ip) ==
  CASE IsIpv4(ip) \/ IsRFC6145(ip) \/ IsRFC6052(ip) -> Ipv4At(ip, 12)
    [] IsRFC3964(ip) -> Ipv4At(ip, 2)
    [] IsRFC4380(ip) -> [i \in 1..4 |-> 255 - ip[11 + i]]
    [] OTHER -> <<0, 0, 0, 0>>
TravelsAsIpv4(ip) ==
  LET v4 == SetIpv4(Nil, EmbeddedIpv4(ip))
  IN IsRoutable(ip) /\ IsRoutable(v4) => GetGroup(ip) = GetGroup(v4)

\* Native addresses, in which no IPv4 address travels, are of the same group exactly if they
\* are of one kind and the network of a /16 (IPv4), of a /36 (he.net) or of a /32 around
\* one matches the other; that of ::/32 matches all of IPv4 too.
IsNative(ip) ==
  IsRoutable(ip) /\ ~(IsTor(ip) \/ IsRFC3964(ip) \/ IsRFC4380(ip) \/ IsRFC6052(ip) \/ IsRFC6145(ip))
GroupsAreNetworks(ip) ==
  LET length == CASE IsIpv4(ip) -> 16 [] StartsWith(ip, <<32, 1, 4, 112>>) -> 36 [] OTHER -> 32
  IN IsNative(ip) => \A other \in Probes : IsNative(other) =>
       (GetGroup(other) = GetGroup(ip) <=>
          (IsIpv4(other) <=> IsIpv4(ip)) /\ Match(SubNetOfPrefix(ip, length), other))

\* An address of ours is worth telling a peer exactly if it is routable; the kind the
\* peer itself uses, untunnelled, is at least as good as any other.
ReachabilityRanks(ip) ==
  \A partner \in Probes :
    /\ (GetReachability(ip, partner) = ReachUnreachable) = ~IsRoutable(ip)
    /\ /\ IsRoutable(ip) /\ GetFamily(ip) = GetExtFamily(partner)
       /\ ~(IsRFC3964(ip) \/ IsRFC6052(ip) \/ IsRFC6145(ip) \/ IsRFC4380(ip))
       => \A other \in Probes :
            GetReachability(ip, partner) >= GetReachability(other, partner)

\* An address that comes back from a socket is the one that was given to it.
SocketKeepsAddress ==
  LET sock == ToSockAddr(addr)
  IN sock # NoSockAddr =>
       /\ Identity(FromSockAddr(sock)) = Identity(addr)
       /\ ToSockAddr(FromSockAddr(sock)) = sock

\* SubNet: the ban of an address is found under its key by no other address, and a
\* valid network read back from its key matches what the one written matched.  A Tor or an
\* internal address has no key that can be read, and a netmask that makes an IPv4
\* address of another one is read as one of IPv4.
BanKeyNamesNetwork ==
  key # NoNet =>
    /\ net = SubNetOf(addr.ip) =>
         \A other \in Probes : (ToText(SubNetOf(other)) = key) = (other = addr.ip)
    /\ net.valid /\ IsValidIp(Masked(addr.ip, net.mask)) => Match(net, Masked(addr.ip, net.mask))
    /\ back # NoNet /\ net.valid /\ (IsIpv4(net.ip) => IsIpv4(addr.ip)) =>
         \A other \in Probes : Match(back, other) = Match(net, other)
    /\ IsTor(net.ip) \/ IsInternal(net.ip) => back = NoNet

\* NetAddr: groups, reachability and sockets treat an address alike however it was
\* built and whatever it carries inside; SubNet: the key of a ban is that of its network.
AddressSafe ==
  /\ net = NoNet =>
       /\ TravelsAsIpv4(addr.ip)
       /\ GroupsAreNetworks(addr.ip)
       /\ ReachabilityRanks(addr.ip)
       /\ SocketKeepsAddress
  /\ BanKeyNamesNetwork
=============================================================================
