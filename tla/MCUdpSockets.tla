---------------------------- MODULE MCUdpSockets ----------------------------
(* Two sockets on one port, so that a freed socket and a held one compete *)
(* for the same datagrams; three datagrams, so that two are queued behind *)
(* each other at one poll; payloads of two lengths.  The runs with a     *)
(* liveness property submit two datagrams, enough for two to arrive at  *)
(* one poll and for one to wait behind another.                          *)
EXTENDS UdpSockets

MCMaxRx == 3
MCMaxRxLive == 2
MCMaxSockets == 2
MCMaxSends == 1
MCPorts == {1}
MCDgLens == {1, 2}
MCDgLensZero == {0, 1}
=============================================================================
