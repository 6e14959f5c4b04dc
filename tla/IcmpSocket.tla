----------------------------- MODULE IcmpSocket -----------------------------
(***************************************************************************)
(* One ICMP socket of a finalized CDevice and the ICMP facade of           *)
(* src/socket/icmp.rs: newIcmpSocket, deleteIcmpSocket, icmpBindAny,       *)
(* icmpBindIdent, icmpBindUDP, buildIcmpV4EchoPacket, icmpSend and         *)
(* icmpReceive, with the peer and the network as the environment.          *)
(*                                                                         *)
(* A message is a record [type, id, seq, len, n]: an echo request or      *)
(* reply (id is the echo identifier) or a destination-unreachable message  *)
(* quoting a UDP datagram (id is the quoted source port).  len is the      *)
(* ICMP payload length in bytes; the ICMP header adds HeaderLen bytes.     *)
(* n is a history tag, not packet data: the number of the icmpSend call    *)
(* that queued the packet (a reply keeps its request's), 0 for others.     *)
(* Payload bytes, addresses and checksums are left out: smoltcp's dispatch *)
(* re-parses a queued packet and emits it with a fresh checksum.           *)
(*                                                                         *)
(* What the embedded stack does is its contract, not code of this          *)
(* repository: bind(Unspecified) and bind(Udp port 0) are                  *)
(* Err(Unaddressable); send_slice is Err(Unaddressable) for an unspecified *)
(* address and Err(BufferFull) when the one tx slot is taken or the packet *)
(* exceeds the tx payload buffer; recv dequeues the oldest rx message; a   *)
(* socket bound to Ident(i) accepts echo messages with identifier i, one   *)
(* bound to Udp(p) accepts unreachables quoting port p, and an accepted    *)
(* message is dropped when no rx slot is free or it does not fit the free  *)
(* payload bytes of the rx buffer.                                         *)
(***************************************************************************)
EXTENDS Naturals, Sequences, SequencesExt

CONSTANTS
  Idents,       \* echo identifiers the host binds to and builds with
  Ports,        \* UDP ports for icmpBindUDP (0 included: Unaddressable)
  Seqs,         \* echo sequence numbers the host builds with
  PayloadLens,  \* echo payload lengths the host builds
  DstSizes,     \* dst_size arguments of buildIcmpV4EchoPacket
  RecvSizes,    \* size arguments of icmpReceive
  StrayMsgs,    \* messages other hosts send to this interface
  MaxSends,     \* icmpSend calls
  MaxStray      \* stray messages

ASSUME MaxSends \in Nat /\ MaxStray \in Nat

VARIABLES
  ep,        \* the socket's endpoint: [kind, v], kind "none" when unbound
  rxq,       \* rx PacketBuffer: messages waiting for icmpReceive
  txq,       \* tx PacketBuffer: packets waiting for ifacePoll
  built,     \* the echo packet in the host's build buffer, or NoMsg
  wire,      \* packets on their way to the peer
  net,       \* messages on their way to this interface
  sends,     \* icmpSend calls so far
  strays,    \* stray messages so far
  held,      \* the host still owns the socket handle
  lastErr,   \* result of the host's last call
  got,       \* history: messages the host received
  aborted    \* a panic aborted the process

vars == <<ep, rxq, txq, built, wire, net, sends, strays, held, lastErr, got,
          aborted>>

HeaderLen == 8   \* Icmpv4Repr::buffer_len of an echo: 8 + data.len()
NoEp == [kind |-> "none", v |-> 0]
NoMsg == [type |-> "none", id |-> 0, seq |-> 0, len |-> 0, n |-> 0]
Msg == [type : {"request", "reply", "unreach"}, id : Nat, seq : Nat,
        len : Nat, n : Nat]
Size(m) == HeaderLen + m.len

-----------------------------------------------------------------------------
(* The socket facade (src/socket/icmp.rs).                                 *)

\* Defect variant of IcmpRxPayloadCapacity: a 512-byte rx payload buffer.
IcmpRxPayloadCapacityLarge == 512

\* Defect variant of IcmpRxSlots: two PacketMetadata slots.
IcmpRxSlotsTwo == 2

\* newIcmpSocket: the rx PacketBuffer has vec![PacketMetadata::EMPTY], one
\* slot, so at most one message waits in the socket.
IcmpRxSlots == 1

\* newIcmpSocket: the rx PacketBuffer's payload storage is vec![0; 256].
IcmpRxPayloadCapacity == 256

\* newIcmpSocket: the tx PacketBuffer, likewise one slot over 256 bytes.
IcmpTxPayloadCapacity == 256

\* icmp::Socket::is_open: bound to anything but Unspecified.
IsOpen == ep.kind # "none"

\* icmp::Socket::accepts for the two endpoints the facade can bind.
Accepts(e, m) ==
  \/ e.kind = "ident" /\ m.type \in {"request", "reply"} /\ m.id = e.v
  \/ e.kind = "udp" /\ m.type = "unreach" /\ m.id = e.v

\* newIcmpSocket: the socket added to the set, unbound, buffers empty.
Init ==
  /\ ep = NoEp
  /\ rxq = <<>>
  /\ txq = <<>>
  /\ built = NoMsg
  /\ wire = <<>>
  /\ net = <<>>
  /\ sends = 0
  /\ strays = 0
  /\ held = TRUE
  /\ lastErr = "OK"
  /\ got = <<>>
  /\ aborted = FALSE

Host == ~aborted /\ held

\* deleteIcmpSocket: delete_socket frees the handle's box only; the socket
\* stays in the set, bound as it was.
DeleteIcmpSocket ==
  /\ Host
  /\ held' = FALSE
  /\ UNCHANGED <<ep, rxq, txq, built, wire, net, sends, strays, lastErr, got,
                 aborted>>

\* The three icmpBind* wrappers: an open socket answers OK unchanged;
\* otherwise bind(e) is Err(Unaddressable) for an unspecified endpoint and
\* sets the endpoint otherwise.
BindIfNotOpen(e) ==
  /\ Host
  /\ IF IsOpen
       THEN ep' = ep /\ lastErr' = "OK"
     ELSE IF e = NoEp \/ (e.kind = "udp" /\ e.v = 0)
       THEN ep' = ep /\ lastErr' = "Unaddressable"
     ELSE ep' = e /\ lastErr' = "OK"
  /\ UNCHANGED <<rxq, txq, built, wire, net, sends, strays, held, got,
                 aborted>>

IcmpBindAny == BindIfNotOpen(NoEp)
IcmpBindIdent(i) == BindIfNotOpen([kind |-> "ident", v |-> i])
IcmpBindUDP(p) == BindIfNotOpen([kind |-> "udp", v |-> p])

\* buildIcmpV4EchoPacket: the repr's buffer_len is HeaderLen + payload; a
\* smaller dst_size returns that length and writes nothing, otherwise the
\* packet is emitted into dst and 0 is returned.
BuildIcmpV4EchoPacket(tp, i, s, n, dstSize) ==
  LET repr == [type |-> tp, id |-> i, seq |-> s, len |-> n, n |-> 0]
  IN  /\ Host
      /\ IF dstSize < Size(repr)
           THEN built' = built /\ lastErr' = "TooSmall"
           ELSE built' = repr /\ lastErr' = "OK"
      /\ UNCHANGED <<ep, rxq, txq, wire, net, sends, strays, held, got,
                     aborted>>

\* Defect variant of IcmpSend: enqueues without checking the tx slot.
IcmpSendNoSlotCheck(addrOk) ==
  /\ Host
  /\ built # NoMsg
  /\ sends < MaxSends
  /\ sends' = sends + 1
  /\ CASE ~addrOk -> txq' = txq /\ lastErr' = "Unaddressable"
       [] Size(built) > IcmpTxPayloadCapacity ->
            txq' = txq /\ lastErr' = "BufferFull"
       [] OTHER -> txq' = Append(txq, [built EXCEPT !.n = sends + 1])
                   /\ lastErr' = "OK"
  /\ UNCHANGED <<ep, rxq, built, wire, net, strays, held, got, aborted>>

\* icmpSend of the host's built packet (its buffer_len bytes) to an
\* address, addrOk FALSE for the unspecified address.
IcmpSend(addrOk) ==
  /\ Host
  /\ built # NoMsg
  /\ sends < MaxSends
  /\ sends' = sends + 1
  /\ CASE ~addrOk -> txq' = txq /\ lastErr' = "Unaddressable"
       [] txq # <<>> \/ Size(built) > IcmpTxPayloadCapacity ->
            txq' = txq /\ lastErr' = "BufferFull"
       [] OTHER -> txq' = <<[built EXCEPT !.n = sends + 1]>>
                   /\ lastErr' = "OK"
  /\ UNCHANGED <<ep, rxq, built, wire, net, strays, held, got, aborted>>

\* icmpReceive: recv() is Err(Exhausted) on an empty rx buffer; otherwise
\* the packet is dequeued and split_at_mut(len) of the size-byte
\* destination panics when len > size, before the copy.
IcmpReceive(size) ==
  /\ Host
  /\ IF rxq = <<>>
       THEN /\ lastErr' = "Exhausted"
            /\ UNCHANGED <<rxq, got, aborted>>
       ELSE /\ rxq' = Tail(rxq)
            /\ IF Size(Head(rxq)) > size
                 THEN aborted' = TRUE /\ UNCHANGED <<got, lastErr>>
                 ELSE /\ got' = Append(got, Head(rxq))
                      /\ lastErr' = "OK"
                      /\ UNCHANGED aborted
  /\ UNCHANGED <<ep, txq, built, wire, net, sends, strays, held>>

-----------------------------------------------------------------------------
(* The stack, the peer and the network (the environment).                  *)

\* Bytes of the rx payload buffer the queued messages take.
RxBytes(q) == FoldLeft(LAMBDA acc, m : acc + Size(m), 0, q)

\* Processing one incoming message: an accepted one is enqueued when an rx
\* slot is free and it fits the free payload bytes, dropped otherwise.
Ingress(q, m) ==
  IF /\ Accepts(ep, m)
     /\ Len(q) < IcmpRxSlots
     /\ RxBytes(q) + Size(m) <= IcmpRxPayloadCapacity
    THEN Append(q, m) ELSE q

\* ifacePoll: every incoming frame in SansIO::receive order (newest first),
\* then the socket's queued packet is dispatched.
IfacePoll ==
  /\ ~aborted
  /\ rxq' = FoldLeft(Ingress, rxq, Reverse(net))
  /\ net' = <<>>
  /\ wire' = wire \o txq
  /\ txq' = <<>>
  /\ UNCHANGED <<ep, built, sends, strays, held, lastErr, got, aborted>>

\* The peer answers an echo request with the reply carrying its
\* identifier, sequence number and data; other packets it consumes.
PeerAnswer ==
  /\ wire # <<>>
  /\ LET m == Head(wire) IN
       net' = IF m.type = "request" THEN Append(net, [m EXCEPT !.type = "reply"])
                                    ELSE net
  /\ wire' = Tail(wire)
  /\ UNCHANGED <<ep, rxq, txq, built, sends, strays, held, lastErr, got,
                 aborted>>

\* A packet to the peer is lost.
WireLoss ==
  /\ wire # <<>>
  /\ wire' = Tail(wire)
  /\ UNCHANGED <<ep, rxq, txq, built, net, sends, strays, held, lastErr, got,
                 aborted>>

\* Another host sends this interface a message.
Stray(m) ==
  /\ strays < MaxStray
  /\ strays' = strays + 1
  /\ net' = Append(net, m)
  /\ UNCHANGED <<ep, rxq, txq, built, wire, sends, held, lastErr, got,
                 aborted>>

Next ==
  \/ DeleteIcmpSocket
  \/ IcmpBindAny
  \/ \E i \in Idents : IcmpBindIdent(i)
  \/ \E p \in Ports : IcmpBindUDP(p)
  \/ \E tp \in {"request", "reply"}, i \in Idents, s \in Seqs,
        n \in PayloadLens, d \in DstSizes :
       BuildIcmpV4EchoPacket(tp, i, s, n, d)
  \/ \E ok \in BOOLEAN : IcmpSend(ok)
  \/ \E size \in RecvSizes : IcmpReceive(size)
  \/ IfacePoll
  \/ PeerAnswer
  \/ WireLoss
  \/ \E m \in StrayMsgs : Stray(m)

Spec == Init /\ [][Next]_vars

-----------------------------------------------------------------------------
(* Properties.                                                             *)

TypeOK ==
  /\ ep \in {NoEp} \cup [kind : {"ident"}, v : Idents]
                   \cup [kind : {"udp"}, v : Ports \ {0}]
  /\ rxq \in Seq(Msg) /\ Len(rxq) <= IcmpRxSlots
  /\ txq \in Seq(Msg) /\ Len(txq) <= 1
  /\ built \in Msg \cup {NoMsg}
  /\ wire \in Seq(Msg) /\ net \in Seq(Msg) /\ got \in Seq(Msg)
  /\ sends \in 0..MaxSends /\ strays \in 0..MaxStray
  /\ held \in BOOLEAN /\ aborted \in BOOLEAN
  /\ lastErr \in {"OK", "Unaddressable", "BufferFull", "Exhausted",
                  "TooSmall"}

\* A host that calls icmpReceive with a buffer as large as the socket's rx
\* payload buffer (newIcmpSocket's 256 bytes) never makes the
\* split_at_mut in icmpReceive panic: the stack drops any message larger
\* than the rx payload buffer before it is queued.
ReceiveNeverAborts == ~aborted

\* The echo replies icmpReceive hands the host come in the order of the
\* icmpSend calls whose requests they answer, although SansIO::receive
\* gives the stack the frames of one ifacePoll newest first: with the one
\* rx slot of newIcmpSocket, a poll keeps at most one reply and drops the
\* older ones.
IcmpInOrder ==
  LET answers == SelectSeq(got, LAMBDA m : m.n > 0)
  IN  IsSorted([k \in 1..Len(answers) |-> answers[k].n], <)
=============================================================================
