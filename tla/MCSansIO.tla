------------------------------ MODULE MCSansIO ------------------------------
(* SansIO with three submitted frames, so that two or more are queued at  *)
(* one poll, three transmitted frames of two different lengths, so that   *)
(* a size read from the wrong end of tx is a different size.              *)
EXTENDS SansIO

MCMaxRx == 3
MCMaxTx == 3
MCMaxEgress == 1
MCLens == {1, 2}
=============================================================================
