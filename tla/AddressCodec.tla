---------------------------- MODULE AddressCodec ----------------------------
(***************************************************************************)
(* The address conversions of src/address.rs between the host's 16-byte    *)
(* CAddress (with CIPEndpoint and CInterface around it) and smoltcp's      *)
(* IpAddress, IpEndpoint, IpListenEndpoint and IpCidr.                     *)
(*                                                                         *)
(* Addresses are real byte sequences, built from a few 12-byte heads and   *)
(* 4-byte tails chosen to hit the cases the code distinguishes: the        *)
(* IPv4-mapped prefix, a head one byte away from it, all zeroes, and an    *)
(* ordinary IPv6 head.  A native address is [v |-> 4 or 6, b |-> bytes].   *)
(* The state is a host input; the conversions are operators.               *)
(***************************************************************************)
EXTENDS Naturals, Sequences, SequencesExt

CONSTANTS
  Heads,      \* first 12 bytes of the CAddresses the host passes
  Tails,      \* last 4 bytes
  IfcPrefixes,   \* CInterface.prefix values (u8)
  Ports       \* CIPEndpoint.port values

\* static IPV4_PREFIX: the IPv4-mapped IPv6 prefix ::ffff:0:0/96.
IPV4_PREFIX == <<0, 0, 0, 0, 0, 0, 0, 0, 0, 0, 255, 255>>

Zeroes(n) == [i \in 1..n |-> 0]

None == [some |-> FALSE]
Some(x) == [some |-> TRUE, val |-> x]

\* A conversion that panicked (unwrap on None, an assert, a u8 overflow in
\* a debug build).
Panic == [panic |-> TRUE]
Ok(x) == [panic |-> FALSE, val |-> x]

-----------------------------------------------------------------------------
(* smoltcp's address types, as far as the conversions use them.           *)

\* Ipv6Address::from_bytes.
Ipv6FromBytes(b) == [v |-> 6, b |-> b]

\* Ipv6Address::as_ipv4: Some for an IPv4-mapped address.
AsIpv4(a6) ==
  IF SubSeq(a6.b, 1, 12) = IPV4_PREFIX
    THEN Some([v |-> 4, b |-> SubSeq(a6.b, 13, 16)])
    ELSE None

\* Ipv6Address::from(Ipv4Address): the IPv4-mapped form.
Ipv6FromIpv4(a4) == [v |-> 6, b |-> IPV4_PREFIX \o a4.b]

\* IpAddress::is_unspecified: 0.0.0.0 or ::.
IsUnspecified(a) == a.b = Zeroes(Len(a.b))

\* IpCidr::new asserts the prefix length fits the address family.
IpCidrNew(a, p) ==
  IF p <= (IF a.v = 4 THEN 32 ELSE 128) THEN Ok([addr |-> a, prefix |-> p])
  ELSE Panic

-----------------------------------------------------------------------------
(* src/address.rs                                                          *)

\* From<CAddress> for Ipv4Address: as_ipv4().unwrap().
Ipv4FromCAddress(c) ==
  LET r == AsIpv4(Ipv6FromBytes(c)) IN IF r.some THEN Ok(r.val) ELSE Panic

\* From<CAddress> for IpAddress: IPv4 when the bytes are IPv4-mapped,
\* IPv6 otherwise.
IpFromCAddress(c) ==
  LET a6 == Ipv6FromBytes(c)
      a4 == AsIpv4(a6)
  IN  IF a4.some THEN a4.val ELSE a6

\* Defect variant of CAddressFromIp: promotes IPv4 to the IPv4-compatible
\* form ::a.b.c.d instead of the mapped one.
CAddressFromIpCompat(a) == IF a.v = 6 THEN a.b ELSE Zeroes(12) \o a.b

\* From<IpAddress> for CAddress: the 16 bytes of the IPv6 form.
CAddressFromIp(a) == IF a.v = 6 THEN a.b ELSE Ipv6FromIpv4(a).b

\* Defect variant of CidrFromInterface: the prefix is passed on unchanged.
CidrFromInterfaceUnadjusted(ifc, build) ==
  IpCidrNew(IpFromCAddress(ifc.addr), ifc.prefix)

\* From<CInterface> for IpCidr: prefix -= 96 on a u8 for an IPv4 address
\* (a debug build panics below 0, a release build wraps), then
\* IpCidr::new.
CidrFromInterface(ifc, build) ==
  LET a == IpFromCAddress(ifc.addr)
  IN  IF a.v = 6 THEN IpCidrNew(a, ifc.prefix)
      ELSE IF ifc.prefix >= 96 THEN IpCidrNew(a, ifc.prefix - 96)
      ELSE IF build = "debug" THEN Panic
      ELSE IpCidrNew(a, (ifc.prefix - 96) % 256)

\* From<CIPEndpoint> for IpEndpoint and back.
EndpointFromC(ep) == [addr |-> IpFromCAddress(ep.addr), port |-> ep.port]
CFromEndpoint(ep) == [addr |-> CAddressFromIp(ep.addr), port |-> ep.port]

\* optional_ip_addr_from_possibly_unspecified_ip_addr.
OptionalIpAddr(a) == IF IsUnspecified(a) THEN None ELSE Some(a)

\* From<CIPEndpoint> for IpListenEndpoint.
ListenFromC(ep) ==
  [addr |-> OptionalIpAddr(IpFromCAddress(ep.addr)), port |-> ep.port]

\* Defect variant of CFromListen: no address becomes 0.0.0.0 in mapped
\* form.
CFromListenMapped(lep) ==
  [addr |-> IF lep.addr.some THEN CAddressFromIp(lep.addr.val)
                             ELSE IPV4_PREFIX \o Zeroes(4),
   port |-> lep.port]

\* From<IpListenEndpoint> for CIPEndpoint: no address is [0; 16].
CFromListen(lep) ==
  [addr |-> IF lep.addr.some THEN CAddressFromIp(lep.addr.val) ELSE Zeroes(16),
   port |-> lep.port]

-----------------------------------------------------------------------------

VARIABLES
  caddr,    \* the CAddress the host passes
  prefix,   \* the CInterface prefix it passes with it
  port,     \* the CIPEndpoint port it passes with it
  build     \* "debug" or "release": what u8 overflow does

vars == <<caddr, prefix, port, build>>

Init ==
  /\ caddr \in {h \o t : h \in Heads, t \in Tails}
  /\ prefix \in IfcPrefixes
  /\ port \in Ports
  /\ build \in {"debug", "release"}

Next == UNCHANGED vars

Spec == Init /\ [][Next]_vars

-----------------------------------------------------------------------------
(* Properties.                                                             *)

\* Every CAddress survives the trip through IpAddress and back, for
\* IPv4-mapped and other inputs alike (spec 8): as_ipv4 and
\* Ipv6Address::from(Ipv4Address) must agree on the mapped prefix.
AddressRoundTrip == CAddressFromIp(IpFromCAddress(caddr)) = caddr

\* The all-zero sentinel means "any address" in a listen endpoint and comes
\* back as all zeroes; any other address is kept as a filter and comes back
\* unchanged unless smoltcp calls it unspecified (spec 4.1, 8).
ListenSentinel ==
  LET lep == ListenFromC([addr |-> caddr, port |-> port])
      back == CFromListen(lep)
  IN  /\ (caddr = Zeroes(16)) => ~lep.addr.some /\ back.addr = Zeroes(16)
      /\ lep.addr.some => back.addr = caddr

\* builderSetIPAddr either panics or configures the prefix spec 4.1
\* promises: the host's prefix less 96 for an IPv4 address, unchanged for
\* IPv6.  A u8 wrap in a release build must not yield a CIDR.
CidrPrefixAsDocumented ==
  LET r == CidrFromInterface([addr |-> caddr, prefix |-> prefix], build)
      a == IpFromCAddress(caddr)
  IN  ~r.panic =>
        /\ r.val.addr = a
        /\ r.val.prefix = IF a.v = 4 THEN prefix - 96 ELSE prefix

=============================================================================
