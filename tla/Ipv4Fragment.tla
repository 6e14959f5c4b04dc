---------------------------- MODULE Ipv4Fragment ----------------------------
(***************************************************************************)
(* fragment_ipv4_packet of src/ipFragment.rs, a pure function, against the *)
(* fragments it is meant to produce.                                       *)
(*                                                                         *)
(* Lengths are in abstract units (a header of 1 or 2 units, a payload of   *)
(* a few); the arithmetic is the code's.  A fragment is a record of the    *)
(* header fields the code touches and the payload range it carries.  A     *)
(* panic (slice length mismatch, zero chunk size, usize underflow in a     *)
(* debug build) ends the call, and the caller's process with it.           *)
(***************************************************************************)
EXTENDS Naturals, Sequences, SequencesExt

CONSTANTS
  HeaderLens,   \* header lengths (IHL) of the input datagram
  Mtus,         \* MTUs the caller passes
  MaxPayload,   \* longest payload
  Usize         \* 2^64: a usize subtraction below 0 wraps by it in release

ASSUME Usize > MaxPayload

\* The outcome of the call.
Panic == [panic |-> TRUE]
Returned(frags) == [panic |-> FALSE, frags |-> frags]

-----------------------------------------------------------------------------

\* mtu - header_size on usize: an overflow panic in a debug build, a wrap
\* in a release build.
ChunkSize(mtu, h, build) ==
  IF mtu >= h THEN mtu - h
  ELSE IF build = "debug" THEN -1 ELSE Usize + mtu - h

\* payload.chunks(size): the [first, last] ranges of consecutive chunks of
\* size units, the last shorter; none for an empty payload.
Chunks(p, size) ==
  [i \in 1..((p + size - 1) \div size) |->
     [first |-> (i - 1) * size + 1,
      last  |-> IF i * size <= p THEN i * size ELSE p]]

ChunkLen(c) == c.last - c.first + 1

\* One iteration of the loop: a buffer of mtu + header.len() zeroes; the
\* header copied into all of it; the chunk copied into the part after the
\* header; MF set on every chunk but the last; the other header fields
\* (fragment offset included) are those of the input.  copy_from_slice
\* panics when the two slices' lengths differ.
FragmentOf(mtu, h, c, isLast) ==
  IF mtu + h # h \/ mtu # ChunkLen(c) THEN Panic
  ELSE Returned(<<[offset |-> 0, more |-> ~isLast, len |-> mtu + h,
                   first |-> c.first, last |-> c.last]>>)

RECURSIVE FragmentLoop(_, _, _, _)
FragmentLoop(mtu, h, cs, acc) ==
  IF cs = <<>> THEN Returned(acc)
  ELSE LET r == FragmentOf(mtu, h, Head(cs), Len(cs) = 1)
       IN  IF r.panic THEN Panic
           ELSE FragmentLoop(mtu, h, Tail(cs), acc \o r.frags)

\* fragment_ipv4_packet(data, mtu) for a datagram with header h and payload
\* p: chunks() panics on a chunk size of 0.
FragmentIpv4Packet(h, p, mtu, build) ==
  LET size == ChunkSize(mtu, h, build)
  IN  IF size <= 0 THEN Panic ELSE FragmentLoop(mtu, h, Chunks(p, size), <<>>)

-----------------------------------------------------------------------------

VARIABLES
  hdr,      \* header length of the input datagram
  plen,     \* payload length of the input datagram
  mtu,      \* the mtu argument
  build,    \* "debug" or "release": what usize overflow does
  result    \* what the call produced

vars == <<hdr, plen, mtu, build, result>>

Init ==
  /\ hdr \in HeaderLens
  /\ plen \in 0..MaxPayload
  /\ mtu \in Mtus
  /\ build \in {"debug", "release"}
  /\ result = FragmentIpv4Packet(hdr, plen, mtu, build)

Next == UNCHANGED vars

Spec == Init /\ [][Next]_vars

-----------------------------------------------------------------------------
(* Properties.                                                             *)

\* The fragments' payload ranges, in order, tile the payload.
Tiles(fs) ==
  /\ \A i \in 1..Len(fs) : fs[i].first = IF i = 1 THEN 1 ELSE fs[i-1].last + 1
  /\ IF fs = <<>> THEN plen = 0 ELSE fs[Len(fs)].last = plen

\* Under the caller's precondition mtu > header length (spec 4.6),
\* fragment_ipv4_packet returns, in payload order, fragments no longer than
\* the mtu, MF on all but the last, each at the offset of its payload, so
\* that reassembly rebuilds the datagram (spec 4.6 and its 3000-byte
\* example).  The loop sizes each buffer mtu + header and copies the header
\* over all of it, and never sets a fragment offset.
FragmentsReassemble ==
  mtu > hdr =>
    /\ ~result.panic
    /\ LET fs == result.frags
       IN  /\ Tiles(fs)
           /\ \A i \in 1..Len(fs) :
                /\ fs[i].len <= mtu
                /\ fs[i].more = (i < Len(fs))
                /\ fs[i].offset = fs[i].first - 1

=============================================================================
