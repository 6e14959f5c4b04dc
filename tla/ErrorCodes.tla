----------------------------- MODULE ErrorCodes -----------------------------
(***************************************************************************)
(* The error-code mapping: the master ResultCode enum of                   *)
(* src/result_codes.rs, the error_code_enum! macro of src/macros.rs, and   *)
(* the per-protocol enums the socket modules declare with it.              *)
(*                                                                         *)
(* A code is modelled by what it is at the boundary: a u8 discriminant.    *)
(* Variant names are strings, the names the Rust source gives them.  The   *)
(* one behaviour is a fallible extern "C" call: the stack's call returns   *)
(* Ok or Err(variant), the facade converts it with the macro's From impls  *)
(* and the host receives the discriminant, which it reads in the master    *)
(* result-code space.                                                      *)
(***************************************************************************)
EXTENDS Naturals, Sequences, SequencesExt

\* ResultCode (#[repr(u8)]): every discriminant is explicit.
ResultCode ==
  [OK |-> 0, Exhausted |-> 1, Illegal |-> 2, Unaddressable |-> 3,
   Finished |-> 4, Truncated |-> 5, Checksum |-> 6, Unrecognized |-> 7,
   Fragmented |-> 8, Malformed |-> 9, Dropped |-> 10, ReassemblyTimeout |-> 11,
   PacketAssemblerNotInit |-> 12, PacketAssemblerBufferTooSmall |-> 13,
   PacketAssemblerIncomplete |-> 14, PacketAssemblerTooManyHoles |-> 15,
   PacketAssemblerOverlap |-> 16, PacketAssemblerSetFull |-> 17,
   PacketAssemblerSetKeyNotFound |-> 18, NotSupported |-> 19,
   InvalidState |-> 20, BufferFull |-> 21, NoFreeSlot |-> 22,
   InvalidName |-> 23, NameTooLong |-> 24, Pending |-> 25, Failed |-> 26,
   BufferInsufficient |-> 255]

\* The enums socket/udp.rs declares with error_code_enum!, variants in
\* declaration order.
UdpErrorEnums ==
  [UDPBindError |-> <<"InvalidState", "Unaddressable">>,
   UDPSendError |-> <<"Unaddressable", "BufferFull">>,
   UDPRecvError |-> <<"Exhausted">>]

\* The enums of socket/tcp.rs.
TcpErrorEnums ==
  [TCPListenError  |-> <<"InvalidState", "Unaddressable">>,
   TCPConnectError |-> <<"InvalidState", "Unaddressable">>,
   TCPSendError    |-> <<"InvalidState">>,
   TCPRecvError    |-> <<"InvalidState", "Finished">>]

\* The enums of socket/icmp.rs.
IcmpErrorEnums ==
  [ICMPBindError |-> <<"InvalidState", "Unaddressable">>,
   ICMPSendError |-> <<"Unaddressable", "BufferFull">>,
   ICMPRecvError |-> <<"Exhausted">>]

\* The enums of socket/dns.rs.
DnsErrorEnums ==
  [DNSStartQueryError     |-> <<"NoFreeSlot", "InvalidName", "NameTooLong">>,
   DNSGetQueryResultError |-> <<"Pending", "Failed">>]

ErrorEnums == UdpErrorEnums @@ TcpErrorEnums @@ IcmpErrorEnums @@ DnsErrorEnums

\* What the stack's fallible call returns: Ok(()) or Err(variant).
Outcomes(e) == {"Ok"} \cup ToSet(ErrorEnums[e])

-----------------------------------------------------------------------------
(* The generated enum (src/macros.rs).                                     *)

\* The discriminant of a variant of the generated #[repr(u8)] enum: OK is
\* given ResultCode::OK as u8, every other variant is left implicit, so it
\* is one more than the variant declared before it.
Discriminant(e, v) ==
  IF v = "OK" THEN ResultCode.OK
  ELSE ResultCode.OK + (CHOOSE i \in DOMAIN ErrorEnums[e] : ErrorEnums[e][i] = v)

\* From<Result<(), ty>> for the enum, through From<ty>: Ok(_) is OK, Err(x)
\* is the variant of the same name.
FromResult(e, r) == IF r = "Ok" THEN "OK" ELSE r

\* From<enum> for ResultCode: transmute, the ResultCode whose discriminant
\* is the enum's.  Every generated discriminant is at most 3, a valid one.
Transmute(d) == CHOOSE n \in DOMAIN ResultCode : ResultCode[n] = d

-----------------------------------------------------------------------------

VARIABLES
  enum,     \* the error enum of the extern "C" call the host made
  outcome,  \* what the stack's call returned
  code      \* the u8 the host received

vars == <<enum, outcome, code>>

\* One fallible call: a facade such as udpSend returns
\* socket.send_slice(..).into().
Init ==
  /\ enum \in DOMAIN ErrorEnums
  /\ outcome \in Outcomes(enum)
  /\ code = Discriminant(enum, FromResult(enum, outcome))

Next == UNCHANGED vars

Spec == Init /\ [][Next]_vars

-----------------------------------------------------------------------------
(* Properties.                                                             *)

\* The generated conversions are lossless in the master result-code space
\* (spec 7): the code a facade returns, read as a ResultCode, names the
\* error the stack reported, and 0 means success.  The macro numbers the
\* protocol variants 1, 2, ... instead of giving them their ResultCode
\* discriminant.
CodeNamesOutcome ==
  Transmute(code) = FromResult(enum, outcome)

=============================================================================
