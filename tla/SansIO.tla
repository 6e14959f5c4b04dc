------------------------------- MODULE SansIO -------------------------------
(***************************************************************************)
(* The sans-I/O device of src/device.rs and the frame API that the host    *)
(* drives it with in src/cdevice.rs (putRxPacket, ifacePoll,               *)
(* getCountOfPacketsInTxQueue, getLastTxPacketSize, getLastTxPacket).      *)
(*                                                                         *)
(* Frames are abstracted to an id (the order in which they were made) and, *)
(* for transmitted frames, a length from the small set Lens: the bytes     *)
(* themselves matter to no property here, the lengths matter to the copy   *)
(* in getLastTxPacket.  The embedded stack (smoltcp's Interface::poll) is  *)
(* the environment: it calls receive() until it returns None and may       *)
(* answer each received frame through the paired TxToken, then lets its    *)
(* sockets emit frames through transmit().  What it answers is a           *)
(* nondeterministic choice.                                                *)
(*                                                                         *)
(* Everything runs on the host's one thread: every extern "C" call is one  *)
(* atomic step.  A panic inside an extern "C" function aborts the process: *)
(* aborted is set and nothing further happens.                             *)
(***************************************************************************)
EXTENDS Naturals, Sequences, SequencesExt

CONSTANTS
  MaxRx,      \* frames the host submits with putRxPacket
  MaxTx,      \* frames the stack transmits, over the whole behaviour
  MaxEgress,  \* frames the sockets emit in one poll, besides replies
  Lens        \* lengths a transmitted frame can have

ASSUME MaxRx \in Nat /\ MaxTx \in Nat /\ MaxEgress \in Nat
ASSUME Lens \subseteq Nat \ {0} /\ Lens # {}

VARIABLES
  rx,         \* SansIO.rx: ids of frames the host submitted, not yet received
  tx,         \* SansIO.tx: frames [id, len] the stack transmitted, not yet fetched
  submitted,  \* number of frames the host has submitted (ids 1..submitted)
  consumed,   \* history: per poll that received frames, their ids in order
  emitted,    \* history: ids in the order the stack transmitted them
  drained,    \* history: ids in the order the host fetched them
  hostSize,   \* the size the host read with getLastTxPacketSize; 0 = none
  aborted     \* a panic aborted the process

vars == <<rx, tx, submitted, consumed, emitted, drained, hostSize, aborted>>

TxFrame == [id : 1..MaxTx, len : Lens]

\* receive() returned None.
NoFrame == [some |-> FALSE]

-----------------------------------------------------------------------------
(* The device (src/device.rs).                                             *)

\* Defect variant of Receive: pop_front, the FIFO order of spec 9.
ReceiveFront(q) ==
  IF q = <<>> THEN NoFrame ELSE [some |-> TRUE, frame |-> Head(q), rest |-> Tail(q)]

\* Defect variant of Receive: returns the back frame but removes the front one
\* (pop_back mixed up with pop_front).
ReceiveRemovesFront(q) ==
  IF q = <<>> THEN NoFrame ELSE [some |-> TRUE, frame |-> Last(q), rest |-> Tail(q)]

\* SansIO::receive: VecDeque::pop_back on rx, the frame paired with a
\* TxToken; None when rx is empty.
Receive(q) ==
  IF q = <<>> THEN NoFrame ELSE [some |-> TRUE, frame |-> Last(q), rest |-> Front(q)]

\* Defect variant of TxTokenConsume: push_front instead of push_back.
TxTokenConsumeFront(q, f) == <<f>> \o q

\* TxToken::consume: a buffer of exactly len bytes, filled by the stack,
\* then push_back onto tx.  transmit() always offers a token.
TxTokenConsume(q, f) == Append(q, f)

\* The frames the stack is handed, in order, by its loop calling receive()
\* until it returns None.
RECURSIVE DrainRx(_)
DrainRx(q) ==
  LET r == Receive(q)
  IN  IF r.some THEN <<r.frame>> \o DrainRx(r.rest) ELSE <<>>

-----------------------------------------------------------------------------
(* The host-facing calls (src/cdevice.rs).                                 *)

\* Defect variant of GetCountOfPacketsInTxQueue: one short.
GetCountOfPacketsInTxQueueOffByOne(q) == Len(q) - 1

\* getCountOfPacketsInTxQueue: tx.len().
GetCountOfPacketsInTxQueue(q) == Len(q)

\* Defect variant of GetLastTxPacketSize: answers tx.len(), the count.
GetLastTxPacketSizeCount(q) == Len(q)

\* Defect variant of GetLastTxPacketSize: reads the newest frame, tx.back(),
\* as the function's name suggests.
GetLastTxPacketSizeBack(q) == IF q = <<>> THEN 0 ELSE Last(q).len

\* getLastTxPacketSize: the length of tx.get(0), 0 when tx is empty.
GetLastTxPacketSize(q) == IF q = <<>> THEN 0 ELSE Head(q).len

Init ==
  /\ rx = <<>>
  /\ tx = <<>>
  /\ submitted = 0
  /\ consumed = <<>>
  /\ emitted = <<>>
  /\ drained = <<>>
  /\ hostSize = 0
  /\ aborted = FALSE

\* putRxPacket: the source bytes are copied and pushed at the back of rx.
PutRxPacket ==
  /\ ~aborted
  /\ submitted < MaxRx
  /\ submitted' = submitted + 1
  /\ rx' = Append(rx, submitted + 1)
  /\ UNCHANGED <<tx, consumed, emitted, drained, hostSize, aborted>>

\* ifacePoll: Interface::poll drains rx through receive(), answering each
\* frame with at most one reply through its TxToken, then the sockets emit
\* up to MaxEgress frames through transmit().  A poll error is only logged.
IfacePoll ==
  /\ ~aborted
  /\ LET order == DrainRx(rx)
     IN  \E reply \in [1..Len(order) -> {0} \cup Lens],
            egress \in UNION {[1..n -> Lens] : n \in 0..MaxEgress} :
           LET lens   == SelectSeq(reply, LAMBDA l : l # 0) \o egress
               frames == [i \in 1..Len(lens) |->
                            [id |-> Len(emitted) + i, len |-> lens[i]]]
           IN  /\ Len(emitted) + Len(frames) <= MaxTx
               /\ rx' = <<>>
               /\ consumed' = IF order = <<>> THEN consumed
                                                ELSE Append(consumed, order)
               /\ tx' = FoldLeft(TxTokenConsume, tx, frames)
               /\ emitted' = emitted \o [i \in 1..Len(frames) |-> frames[i].id]
  /\ UNCHANGED <<submitted, drained, hostSize, aborted>>

\* The host's drain loop: while getCountOfPacketsInTxQueue() > 0, read
\* getLastTxPacketSize() to size the destination buffer ...
HostQueryTx ==
  /\ ~aborted
  /\ hostSize = 0
  /\ GetCountOfPacketsInTxQueue(tx) > 0
  /\ hostSize' = GetLastTxPacketSize(tx)
  /\ UNCHANGED <<rx, tx, submitted, consumed, emitted, drained, aborted>>

\* ... then getLastTxPacket(dst, size) with that size: pop_front, then
\* copy_from_slice, which panics unless size equals the frame's length.
\* Other calls (putRxPacket, ifacePoll) may come in between.
GetLastTxPacket ==
  /\ ~aborted
  /\ hostSize > 0
  /\ IF tx = <<>>
       THEN UNCHANGED <<tx, drained, aborted>>
       ELSE /\ tx' = Tail(tx)
            /\ IF Head(tx).len = hostSize
                 THEN /\ drained' = Append(drained, Head(tx).id)
                      /\ UNCHANGED aborted
                 ELSE /\ aborted' = TRUE
                      /\ UNCHANGED drained
  /\ hostSize' = 0
  /\ UNCHANGED <<rx, submitted, consumed, emitted>>

Next ==
  \/ PutRxPacket
  \/ IfacePoll
  \/ HostQueryTx
  \/ GetLastTxPacket

\* The host keeps polling and draining, as the calling contract asks it to
\* once per cycle; nothing inside the library schedules anything.
Fairness ==
  /\ WF_vars(IfacePoll)
  /\ WF_vars(HostQueryTx)
  /\ WF_vars(GetLastTxPacket)

Spec == Init /\ [][Next]_vars /\ Fairness

-----------------------------------------------------------------------------
(* Properties.                                                             *)

\* Every variable holds values of the kinds the device and host produce.
TypeOK ==
  /\ rx \in Seq(1..MaxRx)
  /\ tx \in Seq(TxFrame)
  /\ submitted \in 0..MaxRx
  /\ consumed \in Seq(Seq(1..MaxRx))
  /\ emitted \in Seq(1..MaxTx)
  /\ drained \in Seq(1..MaxTx)
  /\ hostSize \in {0} \cup Lens
  /\ aborted \in BOOLEAN

\* Every frame putRxPacket accepted is handed to the stack exactly once by
\* SansIO::receive, or still waits in rx: the frame receive() returns is the
\* one it removes, however many frames accumulate between two ifacePoll calls.
RxConservation ==
  LET seen == FlattenSeq(consumed) \o rx
  IN  /\ Len(seen) = submitted
      /\ ToSet(seen) = 1..submitted

\* The frames the host has fetched, followed by those still in tx, are
\* exactly the frames the stack transmitted, in transmission order: what
\* TxToken::consume pushes, getLastTxPacket pops in the same order, none
\* lost and none twice.
TxInOrder ==
  drained \o [i \in 1..Len(tx) |-> tx[i].id] = emitted

\* A host that sizes its buffer with getLastTxPacketSize and then calls
\* getLastTxPacket never makes its copy_from_slice panic, whatever
\* putRxPacket and ifacePoll calls it makes in between.
NoAbort == ~aborted

\* Every frame the stack transmits is eventually fetched by a host that
\* keeps draining tx.
TxEventuallyFetched ==
  \A i \in 1..MaxTx : (i \in ToSet(emitted)) ~> (i \in ToSet(drained))

\* Spec 8 asks for the device's rx order to be asserted explicitly.  The
\* order SansIO::receive gives, popping the back of the rx that
\* putRxPacket pushes at the back: one poll hands the stack the frames
\* queued since the last poll newest first, and every frame of an earlier
\* poll before any frame of a later one.
RxNewestFirst ==
  /\ \A k \in 1..Len(consumed) : IsSorted(Reverse(consumed[k]), <)
  /\ \A k \in 1..Len(consumed) - 1 :
       Max(ToSet(consumed[k])) < Min(ToSet(consumed[k + 1]))

=============================================================================
