------------------------------- MODULE MCUdp --------------------------------
(***************************************************************************)
(* Instances of Udp for TLC.                                               *)
(***************************************************************************)
EXTENDS Udp

CONSTANTS f1, f2
=============================================================================
