---------------------------- MODULE MCIcmpSocket ----------------------------
(* Bounds for IcmpSocket: two identifiers so that a rebind can differ, a  *)
(* port and the unaddressable port 0, payloads of 120 bytes (two 128-byte *)
(* packets exactly fill a 256-byte payload buffer), 248 bytes (one       *)
(* 256-byte packet fills it) and 249 bytes (one byte over), build buffers *)
(* of 255 (one short of 256) and 257 bytes, two sends so that two replies *)
(* can arrive at one poll, and one stray message per kind an ICMP socket  *)
(* accepts, the echo reply larger than the rx payload buffer.             *)
EXTENDS IcmpSocket

MCIdents == {1, 2}
MCPorts == {0, 7}
MCSeqs == {0}
MCPayloadLens == {120, 248, 249}
MCDstSizes == {255, 257}
MCRecvSizes == {256}
MCStrayMsgs == {[type |-> "reply", id |-> 1, seq |-> 0, len |-> 300, n |-> 0],
                [type |-> "unreach", id |-> 7, seq |-> 0, len |-> 28, n |-> 0]}
=============================================================================
