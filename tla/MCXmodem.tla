------------------------------ MODULE MCXmodem ------------------------------
(* XMODEM on small instances. *)
EXTENDS Xmodem
=============================================================================
