---------------------------- MODULE MCRetention ----------------------------
(* A small instance of Retention: one log that is opened for each row, one   *)
(* response held open, and each limit on or off.                             *)
EXTENDS Retention

=============================================================================
