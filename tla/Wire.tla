-------------------------------- MODULE Wire --------------------------------
(***************************************************************************)
(* Messages and consensus objects on the wire: Serializer and Deserializer *)
(* of utility/include/serialize.h over the byte sink and source of blob.h, *)
(* what each class of network/protocol and consensus writes and reads, its *)
(* SerializedSize and IsValid, and the path of a message from SendMsg to   *)
(* HandleMsgData.                                                          *)
(*                                                                         *)
(* An object is the tuple of its fields; the action SetField stands for    *)
(* its constructors and setters.  A byte is a number below Base (256 in    *)
(* the program), with the three last values as marks of longer counts.     *)
(* The hash of a header's checksum is taken to tell any two payloads       *)
(* apart.  Reading past the end leaves data as it was in memory: junk.     *)
(***************************************************************************)
EXTENDS Naturals, SequencesExt

CONSTANTS
  Base,              \* bytes are 0 .. Base - 1
  HashSize, IpSize,  \* kHashSize, kIpByteSize
  CommandSize,       \* MessageHeader::kCommandSize
  MaxVardataSize,    \* kMaxVardataSize
  MaxBlockSize,      \* kMaxBlockSize
  MaxSubVersionSize, MaxRejectMessageLength,
  Bip31Version, RelayedTxsVersion,
  MsgBlock, MsgTx,   \* the commands "block" and "tx"
  RejectCodes,       \* the codes of CCode but kRejectUnknown
  Junks,             \* what uninitialised memory may hold, 8 bytes each
  Lost,              \* how many bytes a payload may be short of
  Objects,           \* the kinds of objects that are built
  FieldValues        \* FieldValues[k][i]: values set in field i of a k

ASSUME WireAssumption ==
  /\ Base \in Nat /\ Base >= 4
  /\ Junks \subseteq [1..8 -> 0..Base - 1]
  /\ RejectCodes \subseteq 1..Base - 1

VARIABLES
  object, \* its kind
  fields, \* the object of the sender
  step, \* "built", "sent", "refused", "read"
  bytes,  \* the payload
  sum,    \* the checksum of its header
  got     \* what the reader made of it

wireState == <<object, fields, step, bytes, sum, got>>

-----------------------------------------------------------------------------
(* Serializer. *)

Zeros(n) == [i \in 1..n |-> 0]

\* ToLittleEndian and FromLittleEndian.
ToLE(v, n) == [i \in 1..n |-> (v \div Base ^ (i - 1)) % Base]
FromLE(b) == FoldRight(LAMBDA x, acc : x + Base * acc, b, 0)

Varint16bits == Base - 3
Varint32bits == Base - 2
Varint64bits == Base - 1

VarIntSize(n) ==
  CASE n < Varint16bits -> 1
    [] n >= Varint16bits /\ n < Base ^ 2 -> 3
    [] n >= Base ^ 2 /\ n < Base ^ 4 -> 5
    [] OTHER -> 9

SerWriteVarInt_Off(n) ==
  IF n <= Varint16bits THEN ToLE(n, 1) ELSE <<Varint16bits>> \o ToLE(n, 2)

SerWriteVarInt(n) ==
  CASE VarIntSize(n) = 1 -> ToLE(n, 1)
    [] VarIntSize(n) = 3 -> <<Varint16bits>> \o ToLE(n, 2)
    [] VarIntSize(n) = 5 -> <<Varint32bits>> \o ToLE(n, 4)
    [] OTHER -> <<Varint64bits>> \o ToLE(n, 8)

\* Strings and vectors of bytes, vectors of objects from what each of them is written
\* as, and their sizes from that of each.
WriteBytes(s) == SerWriteVarInt(Len(s)) \o s
WriteList(parts) == SerWriteVarInt(Len(parts)) \o FlattenSeq(parts)
SizeOfList(sizes) == VarIntSize(Len(sizes)) + FoldLeft(LAMBDA acc, n : acc + n, 0, sizes)

\* substr(0, n), and what resize(n) does to a longer string.
Cut(s, n) == IF Len(s) > n THEN SubSeq(s, 1, n) ELSE s

-----------------------------------------------------------------------------
(* Deserializer.  A reader is what is read, how far, the values read so    *)
(* far, the count of the last SerReadVarInt, whether that threw, and       *)
(* whether the process was told to interrupt.                              *)

Reader(b, junk) ==
  [in |-> b, pos |-> 0, out |-> <<>>, count |-> 0, thrown |-> FALSE,
   interrupted |-> FALSE, junk |-> junk]

\* ContainerSource::read copies what there is and leaves the rest of the buffer alone.
Raw(r, n) ==
  [i \in 1..n |-> IF r.pos + i <= Len(r.in) THEN r.in[r.pos + i] ELSE r.junk[i]]
Past(r, n) == [r EXCEPT !.pos = IF @ + n <= Len(r.in) THEN @ + n ELSE Len(r.in)]
Put(r, v) == [r EXCEPT !.out = Append(@, v)]
Exhausted(r, n) == r.pos + n > Len(r.in)

\* The short counts are read into the low bytes of a uint64_t nobody initialised.
Counted(r, v, least) ==
  IF v < least \/ v > MaxVardataSize THEN [r EXCEPT !.count = 0, !.thrown = TRUE]
  ELSE [r EXCEPT !.count = v]
CountAfter(r, first) ==
  LET n == CASE first < Varint16bits -> 0
             [] first = Varint16bits -> 2
             [] first = Varint32bits -> 4
             [] OTHER -> 8
      least == CASE n = 0 -> 0 [] n = 2 -> Varint16bits [] OTHER -> Base ^ (n \div 2)
  IN Counted(Past(r, n),
             IF n = 0 THEN first ELSE FromLE(Raw(r, n) \o SubSeq(r.junk, n + 1, 8)), least)
SerReadVarInt(r) == CountAfter(Past(r, 1), Raw(r, 1)[1])

\* One element after the other: n bytes, or n bytes of a vector.
Elements(r, n) ==
  Put(Past(r, n), [i \in 1..n |-> Raw([r EXCEPT !.pos = @ + i - 1], 1)[1]])

\* Character by character up to a NUL; at the end the last one stays in c.
Characters(r, left) ==
  [i \in 1..r.count |-> IF i <= Len(left) THEN left[i]
                        ELSE IF left = <<>> THEN r.junk[1] ELSE Last(left)]
UpToNul(r, c) ==
  LET nul == SelectInSeq(c, LAMBDA x : x = 0)
  IN IF nul = 0 THEN Put(Past(r, r.count), c)
     ELSE Put(Past(r, nul), Cut(c, nul - 1))
StringOf(r) == UpToNul(r, Characters(r, SubSeq(r.in, r.pos + 1, Len(r.in))))
ReadString(r) == StringOf(SerReadVarInt(r))

VectorOf(r) == Elements([r EXCEPT !.interrupted = @ \/ r.count > MaxBlockSize], r.count)
ReadVector(r) == VectorOf(SerReadVarInt(r))

\* Deserialize of a class has no return statement, so the size summed up may be anything.
\* One of a hash sums up the results of read, -1 at the end.
Oversized(r, classes) ==
  r.count > 0 /\ IF classes THEN r.junk # Zeros(8) ELSE Exhausted(r, r.count * HashSize)

ReadList(Read(_), r0, classes) ==
  LET r == SerReadVarInt(r0)
      s == FoldLeft(LAMBDA acc, i : Read(acc), [r EXCEPT !.out = <<>>],
                    [i \in 1..r.count |-> i])
  IN [s EXCEPT !.out = Append(r.out, @), !.interrupted = @ \/ Oversized(r, classes)]

Word(n) == [is |-> "int", n |-> n]
Array(n) == [is |-> "array", n |-> n]
Str == [is |-> "string", n |-> 0]
Vec == [is |-> "vector", n |-> 0]

ReadField(r, f) ==
  IF r.thrown THEN r
  ELSE CASE f.is = "int" -> Put(Past(r, f.n), FromLE(Raw(r, f.n)))
         [] f.is = "array" -> Elements(r, f.n)
         [] f.is = "string" -> ReadString(r)
         [] f.is = "vector" -> ReadVector(r)

Read(fs, r) == FoldLeft(ReadField, r, fs)

\* An object within an object.
ReadWithin(fs, r) ==
  LET s == Read(fs, [r EXCEPT !.out = <<>>])
  IN [s EXCEPT !.out = Append(r.out, @)]

-----------------------------------------------------------------------------
(* The classes. *)

WriteNetAddr(a) == ToLE(a[1], 4) \o ToLE(a[2], 8) \o a[3] \o ToLE(a[4], 2)
ReadNetAddr(r) == ReadWithin(<<Word(4), Word(8), Array(IpSize), Word(2)>>, r)
SizeOfNetAddr(a) == 4 + 8 + IpSize + 2
\* Among the addresses used here only :: is not valid.
IsValidNetAddr(a) == a[3] # Zeros(IpSize)
NoNetAddr == <<0, 0, Zeros(IpSize), 0>>

\* protocol_version, services, timestamp, addr_recv, addr_from, nonce, user_agent,
\* start_height, relay
NoVersion == <<0, 0, 0, NoNetAddr, NoNetAddr, 0, <<>>, 0, 0>>
IsValidVersion(m) == 0 \notin {m[1], m[2], m[3], m[6]} /\ IsValidNetAddr(m[4])
WriteVersion(m) ==
  ToLE(m[1], 4) \o ToLE(m[2], 8) \o ToLE(m[3], 8) \o WriteNetAddr(m[4]) \o WriteNetAddr(m[5])
  \o ToLE(m[6], 8) \o WriteBytes(Cut(m[7], MaxSubVersionSize)) \o ToLE(m[8], 4)
  \o (IF m[1] >= RelayedTxsVersion THEN ToLE(m[9], 1) ELSE <<>>)

CutField(r, i, n) ==
  IF r.thrown THEN r ELSE [r EXCEPT !.out[i] = Cut(@, n)]

ReadRelay(r) ==
  IF ~r.thrown /\ r.out[1] >= RelayedTxsVersion THEN Read(<<Word(1)>>, r) ELSE Put(r, 0)
ReadVersion(r) ==
  LET addrs == ReadNetAddr(ReadNetAddr(Read(<<Word(4), Word(8), Word(8)>>, r)))
      agent == CutField(Read(<<Word(8), Str>>, addrs), 7, MaxSubVersionSize)
  IN ReadRelay(Read(<<Word(4)>>, agent))

SizeOfVersion(m) ==
  4 + 8 + 8 + SizeOfNetAddr(m[4]) + SizeOfNetAddr(m[5]) + 8 + VarIntSize(Len(m[7])) + Len(m[7])
  + 4 + (IF m[1] >= RelayedTxsVersion THEN 1 ELSE 0)

\* message, ccode, reason, data
NoReject == <<<<>>, 0, <<>>, Zeros(HashSize)>>
IsValidReject(m) == m[2] \in RejectCodes
HasData(m) == m[1] \in {MsgBlock, MsgTx}

WriteReject(m) ==
  WriteBytes(Cut(m[1], CommandSize)) \o ToLE(m[2], 1)
  \o WriteBytes(Cut(m[3], MaxRejectMessageLength)) \o (IF HasData(m) THEN m[4] ELSE <<>>)

ReadReject(r) ==
  LET message == CutField(Read(<<Str>>, r), 1, CommandSize)
      s == CutField(Read(<<Word(1), Str>>, message), 3, MaxRejectMessageLength)
  IN IF ~s.thrown /\ HasData(s.out) THEN Read(<<Array(HashSize)>>, s)
     ELSE Put(s, Zeros(HashSize))

SizeOfReject(m) ==
  VarIntSize(Len(m[1])) + VarIntSize(Len(m[3])) + Len(m[1]) + Len(m[3]) + 1
  + (IF HasData(m) THEN HashSize ELSE 0)

\* The list of addresses.
IsValidAddr(m) == m[1] # <<>>
WriteAddr(m) == WriteList([i \in DOMAIN m[1] |-> WriteNetAddr(m[1][i])])
ReadAddr(r) == ReadList(ReadNetAddr, r, TRUE)
SizeOfAddr(m) == SizeOfList([i \in DOMAIN m[1] |-> SizeOfNetAddr(m[1][i])])

\* nonce, protocol_version, which is not sent: a reader takes the one it knows of the sender
NoPing == <<0, Bip31Version>>
IsValidPing(m) == m[2] >= Bip31Version => m[1] # 0
WritePing(m) == IF m[2] >= Bip31Version THEN ToLE(m[1], 8) ELSE <<>>
ReadPing(r, knows) ==
  Put(IF knows >= Bip31Version THEN Read(<<Word(8)>>, r) ELSE Put(r, 0), knows)
SizeOfPing(m) == IF m[2] < Bip31Version THEN 0 ELSE 8

\* nonce
IsValidPong(m) == m[1] # 0
WritePong(m) == ToLE(m[1], 8)
ReadPong(r) == Read(<<Word(8)>>, r)
SizeOfPong(m) == 8

\* high_bandwidth_mode, version
IsValidSendCmpct(m) == m[2] \in {1, 2}
WriteSendCmpct(m) == ToLE(m[1], 1) \o ToLE(m[2], 8)
ReadSendCmpct(r) == Read(<<Word(1), Word(8)>>, r)
SizeOfSendCmpct(m) == 1 + 8

\* magic, command, payload_length, checksum
NoHeader == <<0, Zeros(CommandSize), 0, 0>>
WriteHeader(m) == ToLE(m[1], 4) \o m[2] \o ToLE(m[3], 4) \o ToLE(m[4], 4)
ReadHeader(r) == Read(<<Word(4), Array(CommandSize), Word(4), Word(4)>>, r)
SizeOfHeader == 4 + CommandSize + 4 + 4

\* type, hash
WriteInvVect(v) == ToLE(v[1], 4) \o v[2]
ReadInvVect(r) == ReadWithin(<<Word(4), Array(HashSize)>>, r)
SizeOfInvVect(v) == 4 + HashSize

\* The list of inventory vectors.
IsValidInv(m) == m[1] # <<>>
WriteInv(m) == WriteList([i \in DOMAIN m[1] |-> WriteInvVect(m[1][i])])
ReadInv(r) == ReadList(ReadInvVect, r, TRUE)
SizeOfInv(m) == SizeOfList([i \in DOMAIN m[1] |-> SizeOfInvVect(m[1][i])])

\* version, hashes, hash_stop, of GetHeaders too.  An empty list of hashes is refused.
NoGetBlocks == <<0, <<>>, Zeros(HashSize)>>
IsValidGetBlocks(m) == m[1] # 0 /\ m[2] # <<>>
WriteGetBlocks(m) == ToLE(m[1], 4) \o WriteList(m[2]) \o m[3]
ReadGetBlocks(r) ==
  LET s == Read(<<Word(4)>>, r)
      t == ReadList(LAMBDA x : Read(<<Array(HashSize)>>, x), s, FALSE)
  IN Read(<<Array(HashSize)>>, t)

SizeOfGetBlocks(m) == 4 + VarIntSize(Len(m[2])) + Len(m[2]) * HashSize + HashSize

\* prev_hash, index
WriteOutPoint(o) == o[1] \o ToLE(o[2], 4)
ReadOutPoint(r) == ReadWithin(<<Array(HashSize), Word(4)>>, r)
SizeOfOutPoint == HashSize + 4

\* prevout, script_sig, sequence_no; the witness is not written
WriteTxIn(i) == WriteOutPoint(i[1]) \o WriteBytes(i[2]) \o ToLE(i[3], 4)
ReadTxIn(r) ==
  LET s == Read(<<Vec, Word(4)>>, ReadOutPoint([r EXCEPT !.out = <<>>]))
  IN [s EXCEPT !.out = Append(r.out, @)]
SizeOfTxIn(i) == SizeOfOutPoint + VarIntSize(Len(i[2])) + Len(i[2]) + 4

\* value, script_pub_key
WriteTxOut(o) == ToLE(o[1], 8) \o WriteBytes(o[2])
ReadTxOut(r) == ReadWithin(<<Word(8), Vec>>, r)
SizeOfTxOut(o) == VarIntSize(Len(o[2])) + Len(o[2]) + 8

\* version, inputs, outputs, lock_time
NoTx == <<2, <<>>, <<>>, 0>>
WriteTx(t) ==
  ToLE(t[1], 4) \o WriteList([i \in DOMAIN t[2] |-> WriteTxIn(t[2][i])])
                \o WriteList([i \in DOMAIN t[3] |-> WriteTxOut(t[3][i])]) \o ToLE(t[4], 4)
ReadTx(r) ==
  LET s == Read(<<Word(4)>>, [r EXCEPT !.out = <<>>])
      t == Read(<<Word(4)>>, ReadList(ReadTxOut, ReadList(ReadTxIn, s, TRUE), TRUE))
  IN [t EXCEPT !.out = Append(r.out, @)]
SizeOfTx(t) ==
  4 + 4 + SizeOfList([i \in DOMAIN t[2] |-> SizeOfTxIn(t[2][i])])
        + SizeOfList([i \in DOMAIN t[3] |-> SizeOfTxOut(t[3][i])])

\* version, prev_block_hash, merkle_root_hash, time, bits, nonce
NoBlockHeader == <<0, Zeros(HashSize), Zeros(HashSize), 0, 0, 0>>
WriteBlockHeader(h) ==
  ToLE(h[1], 4) \o h[2] \o h[3] \o ToLE(h[4], 4) \o ToLE(h[5], 4) \o ToLE(h[6], 4)
ReadBlockHeader(r) ==
  ReadWithin(<<Word(4), Array(HashSize), Array(HashSize), Word(4), Word(4), Word(4)>>, r)
SizeOfBlockHeader == 4 + 2 * HashSize + 12

\* header, transactions
WriteBlock(b) == WriteBlockHeader(b[1]) \o WriteList([i \in DOMAIN b[2] |-> WriteTx(b[2][i])])
ReadBlock(r) == ReadList(ReadTx, ReadBlockHeader(r), TRUE)
SizeOfBlock(b) == SizeOfBlockHeader + SizeOfList([i \in DOMAIN b[2] |-> SizeOfTx(b[2][i])])

-----------------------------------------------------------------------------
(* By kind.  The default constructors and Clear. *)

Default(k) ==
  CASE k = "version" -> NoVersion
    [] k = "reject" -> NoReject
    [] k \in {"addr", "inv"} -> <<<<>>>>
    [] k = "ping" -> NoPing
    [] k = "pong" -> <<0>>
    [] k = "sendcmpct" -> <<0, 0>>
    [] k = "header" -> NoHeader
    [] k = "getblocks" -> NoGetBlocks
    [] k = "tx" -> NoTx
    [] k = "block" -> <<NoBlockHeader, <<>>>>
    [] OTHER -> <<>>

Serialize(k, m) ==
  CASE k = "version" -> WriteVersion(m)
    [] k = "reject" -> WriteReject(m)
    [] k = "addr" -> WriteAddr(m)
    [] k = "inv" -> WriteInv(m)
    [] k = "ping" -> WritePing(m)
    [] k = "pong" -> WritePong(m)
    [] k = "sendcmpct" -> WriteSendCmpct(m)
    [] k = "header" -> WriteHeader(m)
    [] k = "getblocks" -> WriteGetBlocks(m)
    [] k = "tx" -> WriteTx(m)
    [] k = "block" -> WriteBlock(m)
    [] OTHER -> <<>>

\* GetHash hashes what Serialize writes.
GetHash(k, m) == Serialize(k, m)

\* The reader as it ends.
Deserialize(k, r, knows) ==
  CASE k = "version" -> ReadVersion(r)
    [] k = "reject" -> ReadReject(r)
    [] k = "addr" -> ReadAddr(r)
    [] k = "inv" -> ReadInv(r)
    [] k = "ping" -> ReadPing(r, knows)
    [] k = "pong" -> ReadPong(r)
    [] k = "sendcmpct" -> ReadSendCmpct(r)
    [] k = "header" -> ReadHeader(r)
    [] k = "getblocks" -> ReadGetBlocks(r)
    [] k = "tx" -> [ReadTx(r) EXCEPT !.out = @[1]]
    [] k = "block" -> ReadBlock(r)
    [] OTHER -> r

SerializedSize(k, m) ==
  CASE k = "version" -> SizeOfVersion(m)
    [] k = "reject" -> SizeOfReject(m)
    [] k = "addr" -> SizeOfAddr(m)
    [] k = "inv" -> SizeOfInv(m)
    [] k = "ping" -> SizeOfPing(m)
    [] k = "pong" -> SizeOfPong(m)
    [] k = "sendcmpct" -> SizeOfSendCmpct(m)
    [] k = "header" -> SizeOfHeader
    [] k = "getblocks" -> SizeOfGetBlocks(m)
    [] k = "tx" -> SizeOfTx(m)
    [] k = "block" -> SizeOfBlock(m)
    [] OTHER -> 0

IsValid(k, m) ==
  CASE k = "version" -> IsValidVersion(m)
    [] k = "reject" -> IsValidReject(m)
    [] k = "addr" -> IsValidAddr(m)
    [] k = "inv" -> IsValidInv(m)
    [] k = "ping" -> IsValidPing(m)
    [] k = "pong" -> IsValidPong(m)
    [] k = "sendcmpct" -> IsValidSendCmpct(m)
    [] k = "getblocks" -> IsValidGetBlocks(m)
    [] OTHER -> TRUE

-----------------------------------------------------------------------------
(* From SendMsg to HandleMsgData. *)

WireInit ==
  /\ object \in Objects
  /\ fields = Default(object)
  /\ step = "built" /\ bytes = <<>> /\ sum = <<>> /\ got = <<>>

\* The setters, and the lists that can be changed in place.
SetField(k) ==
  /\ object = k /\ step = "built"
  /\ \E i \in DOMAIN fields : \E v \in FieldValues[k][i] : fields' = [fields EXCEPT ![i] = v]
  /\ UNCHANGED <<object, step, bytes, sum, got>>

SetVersion == SetField("version")
SetReject == SetField("reject")
SetAddr == SetField("addr")
SetInv == SetField("inv")
SetPing == SetField("ping")
SetPong == SetField("pong")
SetSendCmpct == SetField("sendcmpct")
SetHeader == SetField("header")
SetGetBlocks == SetField("getblocks")
SetTx == SetField("tx")
SetBlock == SetField("block")

SendMsg ==
  /\ step = "built"
  /\ LET written == Serialize(object, fields)
     IN IF Len(written) = SerializedSize(object, fields)
        THEN step' = "sent" /\ bytes' = written /\ sum' = GetHash(object, fields)
        ELSE step' = "refused" /\ UNCHANGED <<bytes, sum>>
  /\ UNCHANGED <<object, fields, got>>

\* The payload length of the header is not that of the message, or the stream was
\* disturbed (MsgStream).
Disturb ==
  /\ step = "sent" /\ bytes = sum
  /\ \/ \E n \in Lost : n <= Len(bytes) /\ bytes' = SubSeq(bytes, 1, Len(bytes) - n)
     \/ bytes' = Append(bytes, 1)
  /\ UNCHANGED <<object, fields, step, sum, got>>

\* HandleMsgData, short of the state of the connection: the checksum is computed from
\* what the object read would be written as.
Accepts(k, r) == ~r.thrown /\ GetHash(k, r.out) = sum /\ IsValid(k, r.out)

\* ParseMsgData, by a node that knows the sender's protocol version.
ParseMsgData ==
  /\ step = "sent"
  /\ \E junk \in Junks, knows \in {0, Bip31Version} :
       /\ object # "ping" => knows = 0
       /\ LET r == Deserialize(object, Reader(bytes, junk), knows)
          IN got' = [msg |-> r.out, used |-> r.pos, thrown |-> r.thrown,
                     interrupted |-> r.interrupted, accepted |-> Accepts(object, r),
                     clean |-> junk = Zeros(8), knows |-> knows]
  /\ step' = "read"
  /\ UNCHANGED <<object, fields, bytes, sum>>

WireNext ==
  \/ SetVersion \/ SetReject \/ SetAddr \/ SetInv \/ SetPing \/ SetPong
  \/ SetSendCmpct \/ SetHeader \/ SetGetBlocks \/ SetTx \/ SetBlock
  \/ SendMsg \/ Disturb \/ ParseMsgData

WireSpec == WireInit /\ [][WireNext]_wireState

-----------------------------------------------------------------------------
(* Properties. *)

Strings(k, m) ==
  CASE k = "version" -> {m[7]} [] k = "reject" -> {m[1], m[3]} [] OTHER -> {}
Overlong(k, m) ==
  \/ k = "version" /\ Len(m[7]) > MaxSubVersionSize
  \/ k = "reject" /\ (Len(m[1]) > CommandSize \/ Len(m[3]) > MaxRejectMessageLength)

\* No count takes more than a byte, so none is read into memory nobody initialised.
Short(s) == Len(s) < Varint16bits
ShortTx(t) ==
  /\ Short(t[2]) /\ \A i \in DOMAIN t[2] : Short(t[2][i][2])
  /\ Short(t[3]) /\ \A i \in DOMAIN t[3] : Short(t[3][i][2])
ShortCounts(k, m) ==
  CASE k \in {"addr", "inv"} -> Short(m[1])
    [] k = "getblocks" -> Short(m[2])
    [] k = "tx" -> ShortTx(m)
    [] k = "block" -> Short(m[2]) /\ \A i \in DOMAIN m[2] : ShortTx(m[2][i])
    [] OTHER -> \A s \in Strings(k, m) : Short(s)

\* Reader and writer agree on whether a ping has a nonce.
SamePing == object = "ping" => fields[2] = got.knows

\* What the wire keeps of an object: not the relay flag of an old version, the hash of a
\* Reject that is not about a block or a transaction, the nonce of an old ping.
OnTheWire(k, m) ==
  CASE k = "version" -> IF m[1] < RelayedTxsVersion THEN [m EXCEPT ![9] = 0] ELSE m
    [] k = "reject" -> IF HasData(m) THEN m ELSE [m EXCEPT ![4] = Zeros(HashSize)]
    [] k = "ping" -> IF m[2] < Bip31Version THEN <<0, m[2]>> ELSE m
    [] OTHER -> m

\* SendMsg (msg_process.h:52) refuses exactly the messages with a string that Serialize cuts,
\* and any other message or object that arrives as it was sent is read back as it is, to
\* the last byte, and accepted if it is valid; unless a string holds a NUL, or a count of
\* more than a byte was read over memory that was not clean (serialize.h:414).
DeliveredAsSent ==
  /\ step # "built" => (step = "refused" <=> Overlong(object, fields))
  /\ step = "read" /\ bytes = sum /\ SamePing
     /\ (\A s \in Strings(object, fields) : \A i \in DOMAIN s : s[i] # 0)
     /\ (got.clean \/ ShortCounts(object, fields))
     => /\ got.msg = OnTheWire(object, fields)
        /\ got.used = Len(bytes)
        /\ got.accepted <=> IsValid(object, fields)
        /\ got.interrupted => ~got.clean

\* Whatever happened to the payload on its way, whatever was in memory and whatever the
\* node believes of the sender: HandleMsgData (msg_process.h:24) accepts nothing that is not
\* the message that was sent.
AcceptedIsSent ==
  step = "read" /\ got.accepted => got.msg = OnTheWire(object, fields)

\* Both ends of the wire agree on what they wrote and on what they refuse.
WireSafe == DeliveredAsSent /\ AcceptedIsSent
=============================================================================
