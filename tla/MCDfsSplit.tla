----------------------------- MODULE MCDfsSplit -----------------------------
(* User files of 0 to 480 bytes: every ciphertext size from 32 to 512.     *)
EXTENDS DfsSplit
MCPlainSizes == 0..480
=============================================================================
