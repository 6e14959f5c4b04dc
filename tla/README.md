# TLA+ models of sio-smoltcp

This directory holds TLA+ models of the Rust library in `src/`. The library is a
sans-I/O adapter that exposes the smoltcp TCP/IP stack to a C/C++ host through
`extern "C"` functions.

## The system

- **SansIO device** (`src/device.rs`). The device is two `VecDeque`s of byte
  buffers:
  - `rx` holds frames the host submitted.
  - `tx` holds frames the stack transmitted.
  - `receive()` pops the *back* of `rx` and pairs the frame with a `TxToken`.
  - `transmit()` always offers a `TxToken`. `TxToken::consume` pushes the new
    frame at the back of `tx`.
- **CDevice frame API** (`src/cdevice.rs`). This is what the host calls:
  - `putRxPacket` pushes a frame at the back of `rx`.
  - `ifacePoll` runs `Interface::poll`. Ingress calls `receive()` until it
    returns `None`, so one poll empties `rx`. Then the sockets emit.
  - `getCountOfPacketsInTxQueue` returns the length of `tx`.
  - `getLastTxPacketSize` returns the length of the *front* frame of `tx`.
  - `getLastTxPacket(dst, size)` pops the front frame, then calls
    `copy_from_slice`. That call panics unless `size` equals the frame's length.
- **Socket facades** (`src/socket/*.rs`):
  - Each facade looks up a socket by handle in the CDevice's `SocketSet` and
    delegates to smoltcp.
  - A handle is a boxed `SocketHandle`: `wrap_socket_handle` creates it and
    `delete_socket` frees it.
  - `delete_socket` frees only the box. Nothing in the code removes the socket
    from the set.
  - UDP sockets have one packet-metadata slot in each direction.
  - TCP sockets have two 1024-byte ring buffers. `tcpSend` and `tcpReceive`
    return nothing. `tcpSend` drops the count `send_slice` returns and
    `expect`s its result. `tcpReceive` copies the contiguous readable bytes
    with `split_at_mut` and `unwrap`s `recv()`. `tcpListen` `unwrap`s
    `listen()`.
  - ICMP sockets have one 256-byte packet slot in each direction.
    `buildIcmpV4EchoPacket` writes an echo packet into a host buffer (or
    returns the size it needs), which the host passes to `icmpSend`.
    `icmpReceive` has no size query and copies with `split_at_mut`.
- **Error code mapping** (`src/macros.rs`, `src/result_codes.rs`).
  - `error_code_enum!` generates, for each smoltcp error enum, a `#[repr(u8)]`
    enum that starts with `OK = 0`, plus the `From` conversions.
  - The facades return those enums to the host.
- **IPv4 fragmenter** (`src/ipFragment.rs`). This is `fragment_ipv4_packet`, a
  pure function. `lib.rs` does not declare the module, so it is not built
  into the library.
- **Builder** (`src/builder.rs`) and **address codec** (`src/address.rs`).
  - The builder configures and finalizes an `InterfaceBuilder` into a CDevice.
  - The address codec converts between C addresses and smoltcp addresses.

The library has no threads. Each `extern "C"` call runs to completion, so each
call is one atomic step of a model. A panic inside an `extern "C"` function
aborts the process. The models record an abort as a flag `aborted`, and no
action is enabled after it. `TcpSocket` records which call panicked instead
(`panicked`).

## Modules

| module | models | state ↔ code |
|---|---|---|
| `SansIO` | device.rs, cdevice.rs frame API | `rx`, `tx` are the two queues (frames as ids, tx frames with a length); `Receive` is `pop_back`, `TxTokenConsume` is `push_back`; `IfacePoll` drains `rx` with `DrainRx` and lets the stack nondeterministically answer frames and emit up to `MaxEgress` frames; `HostQueryTx` + `GetLastTxPacket` are the host's drain loop (`hostSize` is the size it read). `consumed`, `emitted`, `drained` are history variables. |
| `UdpSockets` | udp.rs, socket.rs, cdevice.rs | `sockets` is the SocketSet (port, rx queue, tx count per index); `held` are handles whose box is not freed; `pending` is the size the host read and for which handle. The stack's dispatch (first accepting socket takes the datagram, drops it if its slot is taken) is the environment, `Deliver`. The device's rx order comes from `SansIO` through `INSTANCE`. |
| `ErrorCodes` | macros.rs, result_codes.rs, the enums of each socket module | `ResultCode` and each protocol enum's variants in declaration order; `Discriminant` is the macro's numbering; `Transmute` reads a discriminant in the master space. One step: a fallible call's outcome and the code the host gets. |
| `AddressCodec` | address.rs | Every `From` conversion is an operator over real 16-byte addresses (`IpFromCAddress`, `CAddressFromIp`, `CidrFromInterface`, `ListenFromC`, `CFromListen`, ...); smoltcp's `as_ipv4`, `is_unspecified` and `IpCidr::new` are small operators beside them. The state is only the host's input (an address built from a few 12-byte heads and 4-byte tails, a prefix, a port, the build). |
| `HandleRegistry` | builder.rs, cdevice.rs (`freeDevice`, `CMedium`), socket creation and deletion in socket/*.rs, `newDnsQuery` | `heap` maps a few addresses to what is boxed there (builder with its configured facets, CDevice, socket handle, DNS query handle); an allocation may take any free address, so addresses are reused. `held` are the handles the host holds. Every builder call is an action; `builderSetIPAddr`, `builderSetRoutes` and `newDnsSocket` use `AddressCodec`'s conversions through `INSTANCE`, and abort when those panic. `FinalizeAccepts` is smoltcp's requirement on the configuration (environment). `InitLogging` is lib.rs's `initLogging` (the logger is set once per process). `NullHandleCall` is any builder or device call given NULL, which panics. |
| `TcpSocket` | tcp.rs | One socket and its peer. `st` is smoltcp's state (the states reachable without `close`, which the facade does not export); `rxBuf`, `rxRead`, `rxLen` are the rx ring buffer; `tx` the tx buffer. Every facade call is an action (`TcpConnect`, `TcpListen`, `TcpSend`, `TcpReceive`, `DeleteTcpSocket`; `IsActive` is the query). The peer's segments processed during `ifacePoll` are the environment (`Handshake`, `PeerData`, `PeerFin`, `PeerRst`, `StackTransmit`). Bytes are their stream positions; `got` and `peerGot` record where they ended up. |
| `IcmpSocket` | icmp.rs | One ICMP socket. `ep` is its endpoint (unbound, `Ident(i)` or `Udp(p)`); `rxq`, `txq` are its one-slot packet buffers; `built` is the packet in the host's build buffer. Every facade call is an action (`IcmpBindAny`, `IcmpBindIdent`, `IcmpBindUDP` share `BindIfNotOpen`; `BuildIcmpV4EchoPacket`, `IcmpSend`, `IcmpReceive`, `DeleteIcmpSocket`). `IfacePoll` is ingress (`Ingress`: accept, fit, free slot) of everything on `net`, newest first, then dispatch onto `wire`. The peer answers requests (`PeerAnswer`) or the packet is lost (`WireLoss`); other hosts send `Stray` messages. Messages are `[type, id, seq, len, n]`; `n` is a history tag, the number of the `icmpSend` call that queued the request (kept by its reply). `Ingress` checks a free slot (`IcmpRxSlots`) and the free payload bytes of the rx buffer (`RxBytes`). |
| `Ipv4Fragment` | ipFragment.rs | `FragmentIpv4Packet` is the function as a RECURSIVE operator over abstract lengths; usize underflow is a panic in a debug build and a wrap in a release build. The state is just the inputs and the result. |

`MCSansIO`, `MCUdpSockets`, `MCAddressCodec`, `MCHandleRegistry`, `MCTcpSocket`, `MCIcmpSocket` and `MCIpv4Fragment` give the constants their values.

## Runs

| run | cfg | expect | what it shows |
|---|---|---|---|
| sansio | SansIO.cfg | pass | No frame is lost or duplicated by the device (`RxConservation`). tx is fetched in transmission order (`TxInOrder`). A host that sizes its buffer with `getLastTxPacketSize` never panics `getLastTxPacket`, even with polls in between (`NoAbort`). Every transmitted frame is eventually fetched (`TxEventuallyFetched`). The rx order is stated as spec 8 asks: each poll hands the stack the frames queued since the last one newest first, and older polls' frames first (`RxNewestFirst`). |
| udp | UdpSockets.cfg | pass | A host that reads only non-zero sizes gets each socket's datagrams in submission order (`UdpInOrder`). This holds only because a one-slot socket keeps just one datagram of a poll; the others are dropped. The same host never panics `udpReceive` (`NoAbort`). With non-empty payloads, a datagram waiting in a held socket is eventually received (`DeliveredEventuallyReceived`). |
| udp_orphan | UdpSockets_orphan.cfg | violation | `NoDatagramToOrphan`: a deleted socket stays bound and takes the datagrams of a live socket on the same port. |
| udp_zero_len | UdpSockets_zero_len.cfg | violation | `DeliveredEventuallyReceived` with zero-length datagrams: size 0 is never read, so the socket stays blocked. |
| address_codec | AddressCodec.cfg | pass | Every CAddress survives CAddress → IpAddress → CAddress (`AddressRoundTrip`). The all-zero listen sentinel maps to "any" and back to zeroes, and any other address kept as a filter comes back unchanged (`ListenSentinel`). An interface prefix either panics or becomes the prefix spec 4.1 promises, in debug and in release builds (`CidrPrefixAsDocumented`). |
| handles | HandleRegistry.cfg | pass | Addresses are reused. A host that follows the contract never holds a handle to a freed object (`HandlesLive`). Nothing is allocated that the host holds no handle to: finalize frees the builder it consumes (`NoLeak`). |
| error_codes | ErrorCodes.cfg | violation | `CodeNamesOutcome`: `UDPBindError::Unaddressable` reaches the host as 2, which the master space calls `Illegal`. |
| fragment | Ipv4Fragment.cfg | violation | `FragmentsReassemble`: with mtu > header, every non-empty payload panics in `copy_from_slice`. |
| icmp | IcmpSocket.cfg | pass | Across binds, rebinds, builds at the 256-byte boundary, sends, receives, lost packets and stray messages: a host receiving with a 256-byte buffer never panics (`ReceiveNeverAborts`). Echo replies reach the host in the order of the sends they answer (`IcmpInOrder`). This holds only because the one rx slot keeps just one reply of a poll, the newest, and drops the rest. With two slots, TLC finds two replies of one poll handed over newest first. |
| tcp | TcpSocket.cfg | pass | Across connects, listens, resets and the rx ring's wrap, `tcpReceive` copies the peer's bytes into the host's buffers in order, each once, consuming exactly what it copied, and the ring holds the rest (`RxStreamIntact`). |
| tcp_send_gap | TcpSocket_send_gap.cfg | violation | `HostStreamDelivered`: send 2 bytes, then 2 more into a 3-byte buffer; the 4th is dropped without a word, so a later send would leave a hole in the stream. |
| tcp_panic | TcpSocket_panic.cfg | violation | `FacadeNeverPanics`: a host that asks `tcpIsActive` before every call (send and receive only on an active socket, listen on a non-zero port only on an inactive one) is aborted: `tcpSend`'s `expect` right after `tcpConnect` (SynSent). TLC reports that shortest trace. The same host also reaches `recv().unwrap()` in SynSent and `listen().unwrap()` on a listening socket; each was confirmed reachable while the model was built, but the run shows only the first trace. |

Each property of a passing run has a mutant, listed in `PROJECT.json`. The
mutant is a plausible bug in the mapped code, and TLC finds the property
violated when that mutant replaces the code.

## Bounds

- **SansIO.** 3 rx frames, 3 tx frames, at most 1 egress frame per poll, and
  lengths {1, 2}.
  - Three frames are enough to have two frames pending in one poll and a third
    in a later poll.
  - Two lengths are enough to make a stale size differ from the frame's length.
- **UdpSockets.**
  - 2 datagrams for the runs with a liveness property (`udp`, `udp_zero_len`),
    and 3 for the other violation runs.
  - 2 sockets, which is the least that shows one socket shadowing another.
  - 1 port, so the two sockets collide.
  - 1 send.
  - Lengths {1, 2} in the pass and orphan runs and {0, 1} in the zero-length
    run.
- **AddressCodec.** The address heads are:
  - all zeroes;
  - the IPv4-mapped prefix;
  - a head one byte short of that prefix;
  - `fe80::`.

  The tails are 0.0.0.0, 0.0.0.1 and 10.0.0.1. The prefixes cover below, at
  and above 96, the IPv4 and IPv6 limits, and 255. The conversions branch only
  on these distinctions.
- **HandleRegistry.** 3 heap addresses and 4 allocations. That is enough to
  hold a builder or device, a socket and a query at once, and to reuse a freed
  address. The inputs are one valid and one plain-IPv4 interface prefix, an
  IPv4 and an IPv6 gateway, and all four `CMedium` values.
- **TcpSocket.** Buffers of 3 bytes and 6 bytes per direction per
  connection. The rx ring therefore wraps, twice in some behaviours, so a
  read can return only the part up to the end of the storage, and a send can
  meet a partly full tx buffer. There are 2 opens, so a connection can follow
  a reset one. Sends are 1 or 2 bytes. Receive buffers are 1 byte (smaller
  than what is offered) or the whole rx capacity. Each facade call branches
  only on these distinctions (full or not, contiguous part larger than the
  host buffer or not).
- **IcmpSocket.** Two identifiers (so a rebind can name another one), a port
  and port 0, payloads of 120 bytes (two 128-byte packets exactly fill a
  256-byte payload buffer, which matters once a buffer has two slots), 248
  bytes (a 256-byte packet, exactly the payload buffers' size) and 249 bytes (one over), build buffers of 255 and 257 bytes
  (one short of each packet or just enough), a receive buffer of 256 bytes,
  2 sends (so two replies can arrive at one poll) and 2 stray messages: an echo reply with identifier 1 and a
  300-byte payload (larger than the rx buffer) and an unreachable quoting
  port 7. Each call branches only on these distinctions (open or not, slot
  free or not, packet larger than a buffer or not).
- **Ipv4Fragment.** Headers of 1–2 units, MTUs 0–4 and payloads 0–5. These
  cover an MTU below, at and above the header, and payloads of one to three
  chunks.

## Fairness

Nothing in the library schedules anything: the host drives every call. The
fairness assumed is that of a host following the calling contract of spec §6,
which polls and drains on every cycle:

- `SansIO` assumes weak fairness of `IfacePoll`, `HostQueryTx` and
  `GetLastTxPacket`.
- `UdpSockets` assumes weak fairness of `IfacePoll`, of reading the size on
  some held socket, and of `UdpReceive`.
- `HandleRegistry` assumes no fairness; its run checks only safety.
  `HostIdle` is an explicit stuttering step for a host that makes no further
  call, so behaviours that stop are checked too.
- `IcmpSocket` assumes no fairness; its run checks only safety.
- `TcpSocket` assumes no fairness; its runs check only safety. The peer and
  the host may stop at any point (`HostIdle`).

## Not modelled (yet)

- **smoltcp's `InterfaceBuilder::finalize` requirement.** Ethernet needs a
  hardware address and a neighbour cache; IP allows neither.
  - It is modelled as the environment.
  - If the requirement holds, a builder without a hardware address aborts the
    host, although spec 4.4 calls every facet optional.
  - No run checks this: the requirement is smoltcp's code, not this
    repository's. It is listed as a hazard instead.
- **TCP closing states and addresses.** The facade exports no `close` or
  `abort`, so `FinWait`, `Closing`, `LastAck` and `TimeWait` are unreachable.
  Endpoints are reduced to valid or not; `AddressCodec` covers their
  conversion.
- **An abstract specification of the TCP receive stream.** A refinement of
  an abstract byte stream was tried and dropped: with the window equal to the
  rx buffer and reads taking the next unread bytes, it said no more than
  `RxStreamIntact`. The send side would not refine such a stream, because
  `tcpSend` drops bytes; that is the `tcp_send_gap` finding.
- **ICMP bytes.** Payload bytes, addresses and checksums are abstracted to
  lengths. `emit` computes the checksum over the whole `dst_size` buffer, which
  is wrong when the buffer is larger than the packet. `icmpSend` is not
  affected: smoltcp re-parses the queued packet and emits it with a fresh
  checksum. The private error-packet builder is never called. The `u32`
  overflow of `needed_len` needs a 4 GiB payload. The host is assumed to
  send exactly the built packet (`8 + payload` bytes). `buildIcmpV4EchoPacket`
  returns 0 on success, so a host that sends its whole build buffer instead
  puts stale bytes into the echo data; that is not modelled. These are
  hazards in `PROJECT.json`.
- **A host that receives UDP after a size of 0.** `UdpSockets` keeps the
  `ReceiveOnZero` option. With it set, `NoAbort` fails: an `ifacePoll`
  between reading 0 and `udpReceive` queues a longer datagram, and
  `split_at_mut` panics (`udp.rs:114`). This is the other side of the
  zero-length finding. It is a hazard and is not a run of its own.
- **Use of freed handles.** Not modelled. It is undefined behaviour, and the
  host model never passes a handle it does not hold. A NULL handle is
  modelled: `NullHandleCall` in `HandleRegistry` is the panic of
  `builder_from_opaque_ptr` and `device_from_opaque_ptr`.
- **Logging output.** `SimpleLogger` only writes to stderr. `initLogging`
  sets the process-wide logger and aborts on a second call; it is an action
  of `HandleRegistry` (`InitLogging`, flag `logger`).
- **smoltcp.** Its protocol machines are outside this repository. They appear
  only as the environment's nondeterministic choices.

## Findings

Each finding is a violation run; the details are in `PROJECT.json`.

- **Deleting a socket does not remove it** (`socket.rs:7`). The socket stays
  bound and shadows a later socket on the same port.
- **Zero-length datagrams starve a socket** (`udp.rs:86`). Their size reads as
  0, the same as an empty buffer.
- **Error-code discriminants do not match the master space**
  (`macros.rs:18`). For example, `UDPBindError::Unaddressable` reaches the host
  as 2, which the master space calls `Illegal`.
- **The fragmenter panics on any non-empty payload** (`ipFragment.rs:15`).
  `copy_from_slice` of the header into an `mtu + header` buffer panics. The
  fragment offset is also never set. `lib.rs` declares no `ipFragment`
  module, so the file is not compiled into the library today; the finding
  is about the function as written, for whoever wires it in.
- **`tcpSend` loses bytes silently** (`tcp.rs:89`). The count `send_slice`
  returns is dropped, and the function returns nothing.
- **The TCP facade aborts a host that checks `tcpIsActive`** (`tcp.rs:89`,
  `:112`, `:124`). `tcpIsActive` is true in SynSent, SynReceived and CloseWait,
  where `send_slice(..).expect` and `recv().unwrap()` panic. It is false on a
  listening socket, where `listen().unwrap()` panics.

One further observation is stated as a passing property rather than a
violation: the rx queue is LIFO within a poll (`RxNewestFirst`), which spec 9
already flags. The `newDnsQuery` box leaks, since no exported function frees
it; `NewDnsQuery` models that, and the hazard list records it without a
property, as no run is free for a violation.

## Plan

The module order is:

1. SansIO
2. UdpSockets
3. ErrorCodes
4. Ipv4Fragment
5. AddressCodec
6. HandleRegistry
7. TcpSocket
8. IcmpSocket

Steps 1–8 are done, including a property for `udpBind` on an already-open
socket.
