----------------------------- MODULE TcpSocket -----------------------------
(***************************************************************************)
(* The TCP socket facade of src/socket/tcp.rs, over one smoltcp TCP socket *)
(* and the peer at the other end of its connection.                       *)
(*                                                                         *)
(* The facade calls are the host's actions.  smoltcp's socket is the       *)
(* environment, as far as the facade can observe it: its state (only the  *)
(* states reachable without a local close, which the facade does not       *)
(* export), its rx ring buffer, read in contiguous pieces, and its tx      *)
(* buffer.  Segments the stack processes during ifacePoll are environment  *)
(* steps.                                                                  *)
(*                                                                         *)
(* Bytes are identified by their position in the stream of the current     *)
(* connection: the peer's n-th byte is n, and so is the host's.  The       *)
(* ghost variables got and peerGot record which bytes ended up in the      *)
(* host's buffers and at the peer.  A panic (an unwrap, an expect,         *)
(* split_at_mut) aborts the process: panicked names the call that          *)
(* panicked, and nothing further happens.                                  *)
(***************************************************************************)
EXTENDS Naturals, Sequences, SequencesExt

CONSTANTS
  Cap,          \* capacity of each socket buffer (1024 bytes in the code)
  MaxStream,    \* bytes each side sends in one connection
  MaxOpens,     \* successful connect or listen calls
  SendSizes,    \* sizes the host passes to tcpSend
  RecvSizes,    \* sizes of the buffers the host passes to tcpReceive
  CheckedHost   \* the host checks tcpIsActive first: it sends and receives
                \* only on an active socket and listens, on a non-zero
                \* port, only on an inactive one

ASSUME Cap > 0 /\ MaxStream >= Cap

\* smoltcp's tcp::State, the states a socket reaches without close().
States == {"Closed", "Listen", "SynSent", "SynReceived", "Established",
           "CloseWait"}

VARIABLES
  st,           \* the socket's state
  rxBuf,        \* rx ring buffer storage: slot -> byte
  rxRead,       \* its read_at
  rxLen,        \* its length
  finRcvd,      \* rx_fin_received
  tx,           \* the tx buffer's bytes, oldest first
  peerSent,     \* bytes the peer has put into the rx buffer
  hostSent,     \* bytes the host has passed to tcpSend
  got,          \* the bytes tcpReceive copied into host buffers, in order
  peerGot,      \* the bytes the peer received, in order
  opens,        \* connections opened so far
  held,         \* the host still holds the socket's handle
  panicked      \* the call whose panic aborted the process, or "none"

vars == <<st, rxBuf, rxRead, rxLen, finRcvd, tx, peerSent, hostSent, got,
          peerGot, opens, held, panicked>>

-----------------------------------------------------------------------------
(* smoltcp's tcp::Socket, as far as the facade observes it.                *)

Running == panicked = "none"

IsOpen == st # "Closed"

MaySend == st \in {"Established", "CloseWait"}

MayRecv == st = "Established" \/ rxLen > 0

Slot(i) == i % Cap

\* The contiguous readable part of the ring buffer, which
\* RingBuffer::dequeue_many_with hands to the closure.
Contiguous == Min({rxLen, Cap - rxRead})

\* Socket::reset (called by connect and listen) empties both buffers; the
\* ghost streams start again with the new connection.
ResetSocket ==
  /\ rxBuf' = [i \in 0..Cap-1 |-> 0]
  /\ rxRead' = 0
  /\ rxLen' = 0
  /\ finRcvd' = FALSE
  /\ tx' = <<>>
  /\ peerSent' = 0
  /\ hostSent' = 0
  /\ got' = <<>>
  /\ peerGot' = <<>>

-----------------------------------------------------------------------------
(* src/socket/tcp.rs                                                       *)

\* newTcpSocket: a closed socket with two empty 1024-byte buffers, added
\* to the set, its handle boxed for the host.
Init ==
  /\ st = "Closed"
  /\ rxBuf = [i \in 0..Cap-1 |-> 0]
  /\ rxRead = 0
  /\ rxLen = 0
  /\ finRcvd = FALSE
  /\ tx = <<>>
  /\ peerSent = 0
  /\ hostSent = 0
  /\ got = <<>>
  /\ peerGot = <<>>
  /\ opens = 0
  /\ held = TRUE
  /\ panicked = "none"

\* tcpIsActive: Socket::is_active, neither Closed nor Listen (nor
\* TimeWait).
IsActive == st \notin {"Closed", "Listen"}

\* deleteTcpSocket: delete_socket frees the handle's box; the socket stays
\* in the set and the stack keeps driving it.
DeleteTcpSocket ==
  /\ Running /\ held
  /\ held' = FALSE
  /\ UNCHANGED <<st, rxBuf, rxRead, rxLen, finRcvd, tx, peerSent, hostSent,
                 got, peerGot, opens, panicked>>

\* tcpConnect: Socket::connect answers InvalidState on an open socket and
\* Unaddressable for a remote endpoint with port 0 or an unspecified
\* address, a local port of 0, or no source address; those returns change
\* nothing.  Otherwise it resets the socket and sends a SYN.
TcpConnect(remoteOk, localPort) ==
  /\ Running /\ held
  /\ ~IsOpen
  /\ remoteOk /\ localPort # 0
  /\ opens < MaxOpens
  /\ ResetSocket
  /\ st' = "SynSent"
  /\ opens' = opens + 1
  /\ UNCHANGED <<held, panicked>>

\* tcpListen: listen(port).unwrap() panics on Unaddressable (port 0) and on
\* InvalidState (an open socket).
TcpListen(port) ==
  /\ Running /\ held
  /\ CheckedHost => ~IsActive /\ port # 0
  /\ opens < MaxOpens
  /\ IF port # 0 /\ ~IsOpen
       THEN /\ ResetSocket
            /\ st' = "Listen"
            /\ opens' = opens + 1
            /\ UNCHANGED panicked
       ELSE /\ panicked' = "tcpListen"
            /\ UNCHANGED <<st, rxBuf, rxRead, rxLen, finRcvd, tx, peerSent,
                           hostSent, got, peerGot, opens>>
  /\ UNCHANGED held

\* tcpSend: send_slice(..).expect("cannot send") panics with InvalidState
\* unless the socket may send; otherwise enqueue_slice takes as many bytes
\* as the tx buffer has room for, and the count it returns is dropped.
TcpSend(n) ==
  /\ Running /\ held
  /\ CheckedHost => IsActive
  /\ hostSent + n <= MaxStream
  /\ IF MaySend
       THEN LET m == Min({n, Cap - Len(tx)})
            IN  /\ tx' = tx \o [i \in 1..m |-> hostSent + i]
                /\ hostSent' = hostSent + n
                /\ UNCHANGED panicked
       ELSE /\ panicked' = "tcpSend"
            /\ UNCHANGED <<tx, hostSent>>
  /\ UNCHANGED <<st, rxBuf, rxRead, rxLen, finRcvd, peerSent, got, peerGot,
                 opens, held>>

\* Defect variant of TcpReceive: the closure returns 0 as the count it
\* consumed, so the bytes it copied stay in the buffer.
TcpReceiveUnconsumed(size) ==
  /\ Running /\ held
  /\ CheckedHost => IsActive
  /\ LET len == Contiguous
     IN  IF MayRecv /\ len <= size
           THEN /\ got' = got \o [i \in 1..len |-> rxBuf[Slot(rxRead + i - 1)]]
                /\ UNCHANGED <<rxRead, rxLen, panicked>>
           ELSE /\ panicked' = "tcpReceive"
                /\ UNCHANGED <<got, rxRead, rxLen>>
  /\ UNCHANGED <<st, rxBuf, finRcvd, tx, peerSent, hostSent, peerGot,
                 opens, held>>

\* Defect variant of TcpReceive: the closure returns slc.len(), the size
\* of the host's buffer, as the count it consumed.
TcpReceiveHostSize(size) ==
  /\ Running /\ held
  /\ CheckedHost => IsActive
  /\ LET len == Contiguous
     IN  IF MayRecv /\ len <= size
           THEN /\ got' = got \o [i \in 1..len |-> rxBuf[Slot(rxRead + i - 1)]]
                /\ rxRead' = Slot(rxRead + size)
                /\ rxLen' = rxLen - size
                /\ UNCHANGED panicked
           ELSE /\ panicked' = "tcpReceive"
                /\ UNCHANGED <<got, rxRead, rxLen>>
  /\ UNCHANGED <<st, rxBuf, finRcvd, tx, peerSent, hostSent, peerGot,
                 opens, held>>

\* tcpReceive(dst, size): recv(..).unwrap() panics with Finished or
\* InvalidState unless the socket may receive.  The closure gets the
\* contiguous readable bytes; split_at_mut(len) on the host's buffer
\* panics when they are more than size, and otherwise all of them are
\* copied and reported consumed.
TcpReceive(size) ==
  /\ Running /\ held
  /\ CheckedHost => IsActive
  /\ LET len == Contiguous
     IN  IF MayRecv /\ len <= size
           THEN /\ got' = got \o [i \in 1..len |-> rxBuf[Slot(rxRead + i - 1)]]
                /\ rxRead' = Slot(rxRead + len)
                /\ rxLen' = rxLen - len
                /\ UNCHANGED panicked
           ELSE /\ panicked' = "tcpReceive"
                /\ UNCHANGED <<got, rxRead, rxLen>>
  /\ UNCHANGED <<st, rxBuf, finRcvd, tx, peerSent, hostSent, peerGot,
                 opens, held>>

-----------------------------------------------------------------------------
(* The peer's segments, processed by smoltcp during ifacePoll.            *)

EnvUnchanged == UNCHANGED <<hostSent, got, opens, held, panicked>>

\* SYN-ACK in SynSent, SYN in Listen, the handshake's ACK in SynReceived.
Handshake ==
  /\ Running
  /\ st \in {"SynSent", "Listen", "SynReceived"}
  /\ st' = CASE st = "SynSent"     -> "Established"
             [] st = "Listen"      -> "SynReceived"
             [] st = "SynReceived" -> "Established"
  /\ UNCHANGED <<rxBuf, rxRead, rxLen, finRcvd, tx, peerSent, peerGot>>
  /\ EnvUnchanged

\* In-order data within the advertised window, written behind the bytes
\* already buffered, wrapping at the end of the storage
\* (write_unallocated, enqueue_unallocated).
PeerData(k) ==
  /\ Running
  /\ st = "Established"
  /\ k <= Cap - rxLen
  /\ peerSent + k <= MaxStream
  /\ rxBuf' = [i \in 0..Cap-1 |->
                 LET j == Slot(i + Cap - Slot(rxRead + rxLen))
                 IN  IF j < k THEN peerSent + 1 + j ELSE rxBuf[i]]
  /\ rxLen' = rxLen + k
  /\ peerSent' = peerSent + k
  /\ UNCHANGED <<st, rxRead, finRcvd, tx, peerGot>>
  /\ EnvUnchanged

\* The peer's FIN.
PeerFin ==
  /\ Running
  /\ st = "Established"
  /\ st' = "CloseWait"
  /\ finRcvd' = TRUE
  /\ UNCHANGED <<rxBuf, rxRead, rxLen, tx, peerSent, peerGot>>
  /\ EnvUnchanged

\* An RST: back to Listen from SynReceived, Closed otherwise; the buffers
\* keep what they hold.
PeerRst ==
  /\ Running
  /\ st \in {"SynSent", "SynReceived", "Established", "CloseWait"}
  /\ st' = IF st = "SynReceived" THEN "Listen" ELSE "Closed"
  /\ UNCHANGED <<rxBuf, rxRead, rxLen, finRcvd, tx, peerSent, peerGot>>
  /\ EnvUnchanged

\* The stack transmits the oldest k bytes of the tx buffer and the peer
\* acknowledges them.
StackTransmit(k) ==
  /\ Running
  /\ MaySend
  /\ 1 <= k /\ k <= Len(tx)
  /\ peerGot' = peerGot \o SubSeq(tx, 1, k)
  /\ tx' = SubSeq(tx, k + 1, Len(tx))
  /\ UNCHANGED <<st, rxBuf, rxRead, rxLen, finRcvd, peerSent>>
  /\ EnvUnchanged

\* The host makes no further call, or the process has ended.
HostIdle == UNCHANGED vars

Next ==
  \/ DeleteTcpSocket
  \/ \E ok \in BOOLEAN, p \in {0, 1} : TcpConnect(ok, p)
  \/ \E p \in {0, 1} : TcpListen(p)
  \/ \E n \in SendSizes : TcpSend(n)
  \/ \E n \in RecvSizes : TcpReceive(n)
  \/ Handshake
  \/ \E k \in 1..Cap : PeerData(k)
  \/ PeerFin
  \/ PeerRst
  \/ \E k \in 1..Cap : StackTransmit(k)
  \/ HostIdle

Spec == Init /\ [][Next]_vars

-----------------------------------------------------------------------------
(* Properties.                                                             *)

Bytes == 0..MaxStream

\* Every variable holds values of the kinds the socket and host produce.
TypeOK ==
  /\ st \in States
  /\ rxBuf \in [0..Cap-1 -> Bytes]
  /\ rxRead \in 0..Cap-1
  /\ rxLen \in 0..Cap
  /\ finRcvd \in BOOLEAN
  /\ tx \in Seq(Bytes) /\ Len(tx) <= Cap
  /\ peerSent \in Bytes /\ hostSent \in Bytes
  /\ got \in Seq(Bytes) /\ peerGot \in Seq(Bytes)
  /\ opens \in 0..MaxOpens
  /\ held \in BOOLEAN
  /\ panicked \in {"none", "tcpListen", "tcpSend", "tcpReceive"}

\* tcpReceive consumes exactly what it copies, across the ring buffer's
\* wrap: the host's buffers have received the peer's bytes in order, each
\* once, and the ring holds the rest of what the peer sent, next in line
\* at read_at.
RxStreamIntact ==
  /\ got = [i \in 1..Len(got) |-> i]
  /\ Len(got) + rxLen = peerSent
  /\ \A j \in 0..rxLen-1 : rxBuf[Slot(rxRead + j)] = Len(got) + 1 + j

\* Spec 7: a failure is surfaced to the caller as a return code.  The bytes
\* the peer got and the bytes still queued for it are exactly the bytes the
\* host passed to tcpSend, so none was dropped without the host knowing.
HostStreamDelivered ==
  peerGot \o tx = [i \in 1..hostSent |-> i]

\* Spec 7 again: a host that asks tcpIsActive before each call (sends and
\* receives, with a buffer as large as the whole rx buffer, only on an
\* active socket; listens, on a non-zero port, only on an inactive one) is
\* never aborted by the facade: send_slice's, recv's and listen's errors would reach it as
\* return codes instead of through expect and unwrap.
FacadeNeverPanics == panicked = "none"

=============================================================================
