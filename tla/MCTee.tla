------------------------------- MODULE MCTee -------------------------------
(* A small instance of Tee: a buffer of three bytes under chunks of one byte *)
(* to the whole response: chunks fit, overflow the buffer and bypass it.     *)
EXTENDS Tee

=============================================================================
