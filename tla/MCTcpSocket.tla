----------------------------- MODULE MCTcpSocket -----------------------------
(* Buffers of 3 bytes each way and 6 bytes sent per direction per        *)
(* connection, so that the rx ring wraps and a read returns only its      *)
(* contiguous part, and a send can meet a partly full tx buffer; two      *)
(* opens, so that a connection follows a reset one.  The host sends 1 or  *)
(* 2 bytes at a time and receives into a 1-byte buffer or one as large as *)
(* the rx buffer.                                                         *)
EXTENDS TcpSocket

MCCap == 3
MCMaxStream == 6
MCMaxOpens == 2
MCSendSizes == {1, 2}
MCRecvSizes == {1, 3}
MCRecvSizesFull == {3}
=============================================================================
