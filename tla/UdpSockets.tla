----------------------------- MODULE UdpSockets -----------------------------
(***************************************************************************)
(* One finalized CDevice (src/cdevice.rs) with the UDP socket facade of    *)
(* src/socket/udp.rs and the socket-handle boxes of src/socket/socket.rs.  *)
(*                                                                         *)
(* The host creates sockets, binds them to ports, deletes their handles,   *)
(* submits datagrams with putRxPacket, polls, and reads datagrams with     *)
(* udpGetLastReceivedPacketSize followed by udpReceive.  The device part   *)
(* is SansIO's: ifacePoll hands the stack the rx frames in the order       *)
(* SansIO::receive yields them.                                            *)
(*                                                                         *)
(* A socket handle is the index of its socket in the CDevice's SocketSet:  *)
(* no code of this repository ever removes a socket from the set, so the   *)
(* indices are 1, 2, ... in creation order.  held is the set of handles    *)
(* whose box the host has not freed with deleteUdpSocket; the host never   *)
(* uses one it freed.  Addresses are left out: every datagram is for this  *)
(* interface's address and every bind leaves the address filter empty.     *)
(*                                                                         *)
(* What the embedded stack does with a datagram is its contract, not code  *)
(* of this repository: the first UDP socket of the set that accepts it     *)
(* (bound to its destination port) processes it, enqueueing it if its rx   *)
(* buffer has a free slot and dropping it otherwise; a datagram no socket  *)
(* accepts is answered with an ICMP port-unreachable frame.                *)
(***************************************************************************)
EXTENDS Naturals, Sequences, SequencesExt, FiniteSets

CONSTANTS
  MaxRx,          \* datagrams the host submits with putRxPacket
  MaxSockets,     \* newUdpSocket calls
  MaxSends,       \* udpSend calls
  Ports,          \* ports the host binds to and sends datagrams to
  DgLens,         \* payload lengths of the submitted datagrams
  ReceiveOnZero   \* the host calls udpReceive even after a size of 0

ASSUME Ports \subseteq Nat \ {0} /\ DgLens \subseteq Nat
ASSUME ReceiveOnZero \in BOOLEAN

VARIABLES
  rx,         \* SansIO.rx: datagrams [id, port, len] not yet received
  txCount,    \* frames in SansIO.tx, not yet fetched by the host
  submitted,  \* datagrams submitted so far (ids 1..submitted)
  sends,      \* udpSend calls so far
  sockets,    \* the SocketSet: [port, rxq, txq] per handle index
  held,       \* handles whose box the host still owns
  pending,    \* the size the host read and the handle it read it on
  got,        \* history: ids the host received, per handle
  misrouted,  \* history: datagrams taken by a socket whose handle was freed
              \* while a held socket was bound to their port
  aborted     \* a panic aborted the process

vars == <<rx, txCount, submitted, sends, sockets, held, pending, got,
          misrouted, aborted>>

Dev == INSTANCE SansIO WITH rx <- rx, tx <- <<>>, submitted <- submitted,
         consumed <- <<>>, emitted <- <<>>, drained <- <<>>, hostSize <- 0,
         aborted <- aborted, MaxRx <- MaxRx, MaxTx <- 0, MaxEgress <- 0,
         Lens <- {1}

Datagram == [id : 1..MaxRx, port : Ports, len : DgLens]
NoPending == [h |-> 0, n |-> 0]

-----------------------------------------------------------------------------
(* The socket facade (src/socket/udp.rs, src/socket/socket.rs).            *)

\* Defect variant of UdpRxCapacity: two PacketMetadata slots.
UdpRxCapacityTwo == 2

\* newUdpSocket: the rx PacketBuffer has vec![PacketMetadata::EMPTY], one
\* slot, so at most one datagram waits in a socket.
UdpRxCapacity == 1

\* newUdpSocket: the tx PacketBuffer, likewise one slot.
UdpTxCapacity == 1

\* udp::Socket::new: unbound (port 0), both buffers empty.
UnboundSocket == [port |-> 0, rxq |-> <<>>, txq |-> 0]

\* Defect variant of PeekLen: one short.
PeekLenOffByOne(s) == IF s.rxq = <<>> THEN 0 ELSE Head(s.rxq).len - 1

\* Defect variant of PeekLen: takes a buffer holding one datagram for empty.
PeekLenOneShort(s) == IF Len(s.rxq) < 2 THEN 0 ELSE Head(s.rxq).len

\* udpGetLastReceivedPacketSize: peek() gives the head datagram's length,
\* and its Err(Exhausted) gives 0.
PeekLen(s) == IF s.rxq = <<>> THEN 0 ELSE Head(s.rxq).len

-----------------------------------------------------------------------------
(* The stack's dispatch of received datagrams (the environment).          *)

\* udp::Socket::accepts for a socket bound by udpBind: the port matches and
\* no address filter is set.
Accepts(s, d) == s.port # 0 /\ s.port = d.port

\* Processing one datagram: the first accepting socket takes it or drops
\* it; none accepting means an ICMP port-unreachable reply.
Deliver(st, d) ==
  LET acc == {i \in 1..Len(st.socks) : Accepts(st.socks[i], d)}
      i   == Min(acc)
      orphaned == i \notin held /\ \E j \in held : Accepts(st.socks[j], d)
  IN  IF acc = {}
        THEN [st EXCEPT !.tx = @ + 1]
        ELSE [st EXCEPT
                !.socks[i].rxq = IF Len(@) < UdpRxCapacity
                                   THEN Append(@, [id |-> d.id, len |-> d.len])
                                   ELSE @,
                !.lost = IF orphaned THEN @ \cup {d.id} ELSE @]

-----------------------------------------------------------------------------

Init ==
  /\ rx = <<>>
  /\ txCount = 0
  /\ submitted = 0
  /\ sends = 0
  /\ sockets = <<>>
  /\ held = {}
  /\ pending = NoPending
  /\ got = <<>>
  /\ misrouted = {}
  /\ aborted = FALSE

\* putRxPacket with one UDP datagram.
PutRxPacket(port, len) ==
  /\ ~aborted
  /\ submitted < MaxRx
  /\ submitted' = submitted + 1
  /\ rx' = Append(rx, [id |-> submitted + 1, port |-> port, len |-> len])
  /\ UNCHANGED <<txCount, sends, sockets, held, pending, got, misrouted,
                 aborted>>

\* ifacePoll: ingress of every rx frame in receive() order, then egress:
\* each socket with a queued datagram either sends it (a frame into tx)
\* or keeps it while the neighbour is unresolved.
IfacePoll ==
  /\ ~aborted
  /\ LET st == FoldLeft(Deliver,
                        [socks |-> sockets, tx |-> 0, lost |-> misrouted],
                        Dev!DrainRx(rx))
     IN  \E out \in SUBSET {i \in 1..Len(sockets) : st.socks[i].txq > 0} :
           /\ sockets' = [i \in 1..Len(sockets) |->
                            IF i \in out THEN [st.socks[i] EXCEPT !.txq = 0]
                                         ELSE st.socks[i]]
           /\ txCount' = txCount + st.tx + Cardinality(out)
           /\ misrouted' = st.lost
  /\ rx' = <<>>
  /\ UNCHANGED <<submitted, sends, held, pending, got, aborted>>

\* The host fetches one frame of tx (SansIO checks the copy itself).
GetLastTxPacket ==
  /\ ~aborted
  /\ txCount > 0
  /\ txCount' = txCount - 1
  /\ UNCHANGED <<rx, submitted, sends, sockets, held, pending, got,
                 misrouted, aborted>>

\* Defect variant of NewUdpSocket: boxes the handle of the socket added
\* before this one.
NewUdpSocketPrevHandle ==
  /\ ~aborted
  /\ Len(sockets) < MaxSockets
  /\ sockets' = Append(sockets, UnboundSocket)
  /\ held' = held \cup {Len(sockets)}
  /\ got' = Append(got, <<>>)
  /\ UNCHANGED <<rx, txCount, submitted, sends, pending, misrouted, aborted>>

\* newUdpSocket: SocketSet::add appends the socket; wrap_socket_handle
\* boxes its handle for the host.
NewUdpSocket ==
  /\ ~aborted
  /\ Len(sockets) < MaxSockets
  /\ sockets' = Append(sockets, UnboundSocket)
  /\ held' = held \cup {Len(sockets) + 1}
  /\ got' = Append(got, <<>>)
  /\ UNCHANGED <<rx, txCount, submitted, sends, pending, misrouted, aborted>>

\* deleteUdpSocket: delete_socket drops the handle's box and nothing else;
\* the socket stays in the set, bound as it was.
DeleteUdpSocket(h) ==
  /\ ~aborted
  /\ h \in held
  /\ held' = held \ {h}
  /\ pending' = IF pending.h = h THEN NoPending ELSE pending
  /\ UNCHANGED <<rx, txCount, submitted, sends, sockets, got, misrouted,
                 aborted>>

\* udpBind: bind(port) only when the socket is not open; an open socket
\* answers OK and keeps its port.  bind(0) is Err(Unaddressable).
UdpBind(h, port) ==
  /\ ~aborted
  /\ h \in held
  /\ sockets' = IF sockets[h].port = 0 /\ port # 0
                  THEN [sockets EXCEPT ![h].port = port]
                  ELSE sockets
  /\ UNCHANGED <<rx, txCount, submitted, sends, held, pending, got,
                 misrouted, aborted>>

\* udpSend to a remote port: send_slice fails with Unaddressable when the
\* socket is unbound or the remote port is 0, with BufferFull when its one
\* tx slot is taken; otherwise the datagram is queued.
UdpSend(h, rport) ==
  /\ ~aborted
  /\ h \in held
  /\ sends < MaxSends
  /\ sends' = sends + 1
  /\ sockets' = IF sockets[h].port # 0 /\ rport # 0
                   /\ sockets[h].txq < UdpTxCapacity
                  THEN [sockets EXCEPT ![h].txq = @ + 1]
                  ELSE sockets
  /\ UNCHANGED <<rx, txCount, submitted, held, pending, got, misrouted,
                 aborted>>

\* The host's read loop, first half: udpGetLastReceivedPacketSize sizes
\* the buffer.  A host that does not read after a 0 keeps nothing pending.
UdpGetLastReceivedPacketSize(h) ==
  /\ ~aborted
  /\ h \in held
  /\ pending = NoPending
  /\ LET n == PeekLen(sockets[h])
     IN  pending' = IF n > 0 \/ ReceiveOnZero THEN [h |-> h, n |-> n]
                                              ELSE NoPending
  /\ UNCHANGED <<rx, txCount, submitted, sends, sockets, held, got,
                 misrouted, aborted>>

\* Second half: udpReceive(dst, size) with that size.  recv() dequeues the
\* head datagram, then split_at_mut(len) panics when len exceeds size;
\* Err(Exhausted) leaves everything as it was.
UdpReceive ==
  /\ ~aborted
  /\ pending # NoPending
  /\ LET h == pending.h
         s == sockets[h]
     IN  IF s.rxq = <<>>
           THEN UNCHANGED <<sockets, got, aborted>>
           ELSE /\ sockets' = [sockets EXCEPT ![h].rxq = Tail(@)]
                /\ IF Head(s.rxq).len <= pending.n
                     THEN /\ got' = [got EXCEPT ![h] = Append(@, Head(s.rxq).id)]
                          /\ UNCHANGED aborted
                     ELSE /\ aborted' = TRUE
                          /\ UNCHANGED got
  /\ pending' = NoPending
  /\ UNCHANGED <<rx, txCount, submitted, sends, held, misrouted>>

Next ==
  \/ \E p \in Ports, l \in DgLens : PutRxPacket(p, l)
  \/ IfacePoll
  \/ GetLastTxPacket
  \/ NewUdpSocket
  \/ \E h \in held : DeleteUdpSocket(h)
  \/ \E h \in held, p \in {0} \cup Ports : UdpBind(h, p)
  \/ \E h \in held, p \in {0} \cup Ports : UdpSend(h, p)
  \/ \E h \in held : UdpGetLastReceivedPacketSize(h)
  \/ UdpReceive

\* The host keeps polling, and keeps reading the sockets it holds that
\* have a datagram waiting; nothing in the library schedules either.
Fairness ==
  /\ WF_vars(IfacePoll)
  /\ WF_vars(\E h \in held : UdpGetLastReceivedPacketSize(h))
  /\ WF_vars(UdpReceive)

Spec == Init /\ [][Next]_vars /\ Fairness

-----------------------------------------------------------------------------
(* Properties.                                                             *)

\* Every variable holds values of the kinds the facade and host produce.
TypeOK ==
  /\ rx \in Seq(Datagram)
  /\ txCount \in Nat
  /\ submitted \in 0..MaxRx
  /\ sends \in 0..MaxSends
  /\ sockets \in Seq([port : {0} \cup Ports,
                      rxq : Seq([id : 1..MaxRx, len : DgLens]),
                      txq : 0..UdpTxCapacity])
  /\ held \subseteq 1..Len(sockets)
  /\ pending \in {NoPending} \cup [h : 1..MaxSockets, n : {0} \cup DgLens]
  /\ got \in Seq(Seq(1..MaxRx))
  /\ misrouted \subseteq 1..MaxRx
  /\ aborted \in BOOLEAN

\* A socket hands the host its datagrams in the order the host submitted
\* them, although SansIO::receive gives the stack the frames of one poll
\* newest first: with one rx slot per socket, at most one datagram of a
\* poll is kept by a socket, and the older ones of that poll are dropped.
UdpInOrder == \A h \in 1..Len(got) : IsSorted(got[h], <)

\* Every datagram that waits in a socket the host holds is eventually
\* received by the host, which keeps reading with
\* udpGetLastReceivedPacketSize and udpReceive: only udpReceive empties a
\* socket's rx buffer, and it either hands the datagram over or aborts.
DeliveredEventuallyReceived ==
  \A h \in 1..MaxSockets :
    (h \in held /\ sockets[h].rxq # <<>>)
      ~> (h \notin held \/ sockets[h].rxq = <<>>)

\* udpReceive with the size udpGetLastReceivedPacketSize returned never
\* panics, whatever putRxPacket and ifacePoll calls come in between.
NoAbort == ~aborted

\* A datagram for a port to which a socket of the host is bound reaches one
\* of the host's sockets: deleteUdpSocket is documented to delete the
\* socket ("Deletes a socket using its handle", src/socket/socket.rs).
NoDatagramToOrphan == misrouted = {}

=============================================================================
