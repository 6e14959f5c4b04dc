--------------------------- MODULE HandleRegistry ---------------------------
(***************************************************************************)
(* The opaque handles the library hands the host, and the objects behind   *)
(* them: InterfaceBuilder boxes (src/builder.rs), CDevice boxes            *)
(* (src/cdevice.rs), boxed SocketHandles (src/socket/socket.rs and the     *)
(* newXSocket functions) and boxed DNS QueryHandles (src/socket/dns.rs).   *)
(*                                                                         *)
(* The heap is a function from a few addresses to what is allocated there; *)
(* an allocation may take any free address, so a freed address is reused. *)
(* The host keeps the handles it was given and follows the calling         *)
(* contract of spec 4.2: it passes only handles it holds, replaces a       *)
(* builder handle by the one a configuration call returns, and drops a     *)
(* handle when it frees it.  A panic aborts the process.                   *)
(*                                                                         *)
(* What smoltcp's InterfaceBuilder::finalize requires of the configuration *)
(* is the stack's contract (the environment): an Ethernet interface needs  *)
(* a hardware address and a neighbour cache, an IP interface has neither.  *)
(***************************************************************************)
EXTENDS Naturals, FiniteSets

CONSTANTS
  Addrs,        \* heap addresses
  MaxAllocs,    \* allocations over the whole behaviour
  Interfaces,   \* CInterface values the host passes to builderSetIPAddr
  Gateways,     \* CAddress values for builderSetRoutes and newDnsSocket
  Media,        \* CMedium values the host passes to builderFinalize
  Mtu           \* the mtu the host passes to builderFinalize

VARIABLES
  heap,       \* address -> the object allocated there, or Free
  held,       \* the handles (addresses) the host holds
  allocs,     \* allocations so far
  logger,     \* the process-wide logger has been set (src/lib.rs)
  aborted     \* a panic aborted the process

vars == <<heap, held, allocs, logger, aborted>>

AC == INSTANCE AddressCodec WITH caddr <- <<>>, prefix <- 0, port <- 0,
        build <- "release", Heads <- {}, Tails <- {}, IfcPrefixes <- {},
        Ports <- {}

Free == [kind |-> "free"]
Live(a) == heap[a] # Free
Kind(a) == heap[a].kind

\* The allocator: any free address.
FreeAddrs == {a \in Addrs : ~Live(a)}
CanAlloc == allocs < MaxAllocs /\ FreeAddrs # {}

\* InterfaceBuilder::new(): no facet configured.
EmptyBuilder ==
  [kind |-> "builder", hw |-> FALSE, nc |-> FALSE, reasm |-> FALSE,
   ip |-> FALSE, routes |-> FALSE]

-----------------------------------------------------------------------------
(* src/builder.rs                                                          *)

\* newBuilder: box_builder(InterfaceBuilder::new()).
NewBuilder ==
  /\ ~aborted
  /\ CanAlloc
  /\ \E a \in FreeAddrs :
       /\ heap' = [heap EXCEPT ![a] = EmptyBuilder]
       /\ held' = held \cup {a}
  /\ allocs' = allocs + 1
  /\ UNCHANGED aborted

\* deleteBuilder: drops the box.
DeleteBuilder(a) ==
  /\ ~aborted
  /\ a \in held /\ Kind(a) = "builder"
  /\ heap' = [heap EXCEPT ![a] = Free]
  /\ held' = held \ {a}
  /\ UNCHANGED <<allocs, aborted>>

\* A configuration call: Box::from_raw, set one facet, Box::into_raw of the
\* same box, so the handle returned is the one passed.  A panic between the
\* two aborts.
Configure(a, facet, panics) ==
  /\ ~aborted
  /\ a \in held /\ Kind(a) = "builder"
  /\ IF panics
       THEN /\ aborted' = TRUE
            /\ UNCHANGED heap
       ELSE /\ heap' = [heap EXCEPT ![a][facet] = TRUE]
            /\ UNCHANGED aborted
  /\ UNCHANGED <<held, allocs>>

\* Defect variant of BuilderSetHardwareAddr: returns c_builder, and the box
\* is dropped at the end of the call.
BuilderSetHardwareAddrDropped(a) ==
  /\ ~aborted
  /\ a \in held /\ Kind(a) = "builder"
  /\ heap' = [heap EXCEPT ![a] = Free]
  /\ UNCHANGED <<held, allocs, aborted>>

\* builderSetHardwareAddr.
BuilderSetHardwareAddr(a) == Configure(a, "hw", FALSE)

\* builderInitNeighbourCache: an empty BTreeMap-backed cache.
BuilderInitNeighbourCache(a) == Configure(a, "nc", FALSE)

\* builderInitIPv4ReassemblyBuffer.
BuilderInitIPv4ReassemblyBuffer(a) == Configure(a, "reasm", FALSE)

\* builderSetIPAddr: IpCidr::from(CInterface), which panics on a prefix it
\* cannot convert.
BuilderSetIPAddr(a, ifc) ==
  Configure(a, "ip", AC!CidrFromInterface(ifc, "release").panic)

\* builderSetRoutes: Ipv4Address::from(gateway) unwraps as_ipv4; the route
\* table has two slots, so adding the default route cannot fail.
BuilderSetRoutes(a, gw) ==
  Configure(a, "routes", AC!Ipv4FromCAddress(gw).panic)

\* Defect variant of MediumOf: the Ieee802154 arm returns the medium, as
\* its commented-out line would.
MediumOfIeee(m) ==
  IF m \in {"Ethernet", "Ip", "Ieee802154"} THEN m ELSE "panic"

\* From<CMedium> for Medium: Invalid and Ieee802154 panic.
MediumOf(m) == IF m \in {"Ethernet", "Ip"} THEN m ELSE "panic"

\* SansIO::new: an Ethernet device counts the 14-byte Ethernet header in
\* its MTU.
DeviceMtu(m, mtu) == IF m = "Ethernet" THEN mtu + 14 ELSE mtu

\* InterfaceBuilder::finalize's requirements (smoltcp).
FinalizeAccepts(b, m) ==
  IF m = "Ethernet" THEN b.hw /\ b.nc ELSE ~b.hw /\ ~b.nc

\* Defect variant of BuilderFinalize: the builder is borrowed, not taken
\* back with Box::from_raw, so it is never freed.
BuilderFinalizeLeaky(a, m) ==
  /\ ~aborted
  /\ a \in held /\ Kind(a) = "builder"
  /\ CanAlloc
  /\ IF MediumOf(m) = "panic" \/ ~FinalizeAccepts(heap[a], m)
       THEN /\ aborted' = TRUE
            /\ UNCHANGED <<heap, held>>
       ELSE \E d \in FreeAddrs :
              /\ heap' = [heap EXCEPT ![d] = [kind |-> "device", medium |-> m,
                                               mtu |-> DeviceMtu(m, Mtu)]]
              /\ held' = (held \ {a}) \cup {d}
              /\ UNCHANGED aborted
  /\ allocs' = allocs + 1

\* builderFinalize: takes the builder box back, builds the SansIO device
\* (the medium conversion may panic), finalizes the interface, boxes the
\* CDevice (while the builder box is still alive, so at another address),
\* and frees the builder box on return.
BuilderFinalize(a, m) ==
  /\ ~aborted
  /\ a \in held /\ Kind(a) = "builder"
  /\ CanAlloc
  /\ IF MediumOf(m) = "panic" \/ ~FinalizeAccepts(heap[a], m)
       THEN /\ aborted' = TRUE
            /\ UNCHANGED <<heap, held>>
       ELSE \E d \in FreeAddrs :
              /\ heap' = [heap EXCEPT ![d] = [kind |-> "device", medium |-> m,
                                               mtu |-> DeviceMtu(m, Mtu)],
                                      ![a] = Free]
              /\ held' = (held \ {a}) \cup {d}
              /\ UNCHANGED aborted
  /\ allocs' = allocs + 1

-----------------------------------------------------------------------------
(* src/cdevice.rs, src/socket/*.rs                                         *)

\* freeDevice: drops the CDevice with its socket set.  The boxed socket
\* handles and query handles the host holds are separate allocations.
FreeDevice(d) ==
  /\ ~aborted
  /\ d \in held /\ Kind(d) = "device"
  /\ heap' = [heap EXCEPT ![d] = Free]
  /\ held' = held \ {d}
  /\ UNCHANGED <<allocs, aborted>>

\* newUdpSocket, newTcpSocket, newIcmpSocket: the socket is added to the
\* device's set and wrap_socket_handle boxes its handle.
NewSocket(d) ==
  /\ ~aborted
  /\ d \in held /\ Kind(d) = "device"
  /\ CanAlloc
  /\ \E s \in FreeAddrs :
       /\ heap' = [heap EXCEPT ![s] = [kind |-> "socket", dev |-> d, dns |-> FALSE]]
       /\ held' = held \cup {s}
  /\ allocs' = allocs + 1
  /\ UNCHANGED aborted

\* newDnsSocket: Ipv4Address::from(server) unwraps before anything is
\* allocated.
NewDnsSocket(d, server) ==
  /\ ~aborted
  /\ d \in held /\ Kind(d) = "device"
  /\ CanAlloc
  /\ IF AC!Ipv4FromCAddress(server).panic
       THEN /\ aborted' = TRUE
            /\ UNCHANGED <<heap, held, allocs>>
       ELSE /\ \E s \in FreeAddrs :
                 /\ heap' = [heap EXCEPT ![s] = [kind |-> "socket", dev |-> d,
                                                   dns |-> TRUE]]
                 /\ held' = held \cup {s}
            /\ allocs' = allocs + 1
            /\ UNCHANGED aborted

\* delete_socket (deleteUdpSocket, deleteTcpSocket, ...): drops the box.
DeleteSocket(s) ==
  /\ ~aborted
  /\ s \in held /\ Kind(s) = "socket"
  /\ heap' = [heap EXCEPT ![s] = Free]
  /\ held' = held \ {s}
  /\ UNCHANGED <<allocs, aborted>>

\* newDnsQuery: a name that is not UTF-8 or that start_query rejects gives
\* a null pointer; otherwise the QueryHandle is boxed and the pointer
\* returned.  No function of the library frees it.
NewDnsQuery(d, s, accepted) ==
  /\ ~aborted
  /\ d \in held /\ Kind(d) = "device"
  /\ s \in held /\ Kind(s) = "socket" /\ heap[s].dev = d /\ heap[s].dns
  /\ CanAlloc
  /\ IF accepted
       THEN \E q \in FreeAddrs :
              /\ heap' = [heap EXCEPT ![q] = [kind |-> "query", dev |-> d]]
              /\ held' = held \cup {q}
              /\ allocs' = allocs + 1
       ELSE UNCHANGED <<heap, held, allocs>>
  /\ UNCHANGED aborted

-----------------------------------------------------------------------------

Init ==
  /\ heap = [a \in Addrs |-> Free]
  /\ held = {}
  /\ allocs = 0
  /\ logger = FALSE
  /\ aborted = FALSE

\* initLogging: log::set_logger(&LOGGER).unwrap() panics with
\* SetLoggerError when a logger is already set, so a second call aborts.
InitLogging ==
  /\ ~aborted
  /\ \/ ~logger /\ logger' = TRUE /\ UNCHANGED aborted
     \/ logger /\ aborted' = TRUE /\ UNCHANGED logger
  /\ UNCHANGED <<heap, held, allocs>>

\* Calls on one handle the host holds.
OnHandle(a) ==
  \/ DeleteBuilder(a)
  \/ BuilderSetHardwareAddr(a)
  \/ BuilderInitNeighbourCache(a)
  \/ BuilderInitIPv4ReassemblyBuffer(a)
  \/ \E i \in Interfaces : BuilderSetIPAddr(a, i)
  \/ \E g \in Gateways : BuilderSetRoutes(a, g)
  \/ \E m \in Media : BuilderFinalize(a, m)
  \/ FreeDevice(a)
  \/ NewSocket(a)
  \/ \E g \in Gateways : NewDnsSocket(a, g)
  \/ DeleteSocket(a)
  \/ \E s \in held, ok \in BOOLEAN : NewDnsQuery(a, s, ok)

\* Any builder or device call given NULL: builder_from_opaque_ptr and
\* device_from_opaque_ptr panic before touching the heap.
NullHandleCall ==
  /\ ~aborted
  /\ aborted' = TRUE
  /\ UNCHANGED <<heap, held, allocs, logger>>

\* The host makes no further call (it may stop at any point).
HostIdle == UNCHANGED vars

Next ==
  \/ NewBuilder /\ UNCHANGED logger
  \/ InitLogging
  \/ NullHandleCall
  \/ \E a \in held : OnHandle(a) /\ UNCHANGED logger
  \/ HostIdle

Spec == Init /\ [][Next]_vars

-----------------------------------------------------------------------------
(* Properties.                                                             *)

Obj ==
  {Free} \cup
  [kind : {"builder"}, hw : BOOLEAN, nc : BOOLEAN, reasm : BOOLEAN,
   ip : BOOLEAN, routes : BOOLEAN] \cup
  [kind : {"device"}, medium : {"Ethernet", "Ip"}, mtu : {Mtu, Mtu + 14}] \cup
  [kind : {"socket"}, dev : Addrs, dns : BOOLEAN] \cup
  [kind : {"query"}, dev : Addrs]

\* Every address holds a free slot or one of the four kinds of object the
\* library boxes, with the fields the code gives it.
TypeOK ==
  /\ heap \in [Addrs -> Obj]
  /\ held \subseteq Addrs
  /\ allocs \in 0..MaxAllocs
  /\ logger \in BOOLEAN
  /\ aborted \in BOOLEAN

\* Every handle the host holds points to a live object, though addresses
\* are reused: a configuration call hands back a live builder, and only
\* the calls that free an object end a handle.
HandlesLive == ~aborted => \A a \in held : Live(a)

\* Nothing is allocated that the host holds no handle to: builderFinalize
\* frees the builder it consumes, and every allocation is handed to the
\* host.
NoLeak == ~aborted => \A a \in Addrs : Live(a) => a \in held

=============================================================================
