----------------------------- MODULE MCRecorder -----------------------------
(* A small instance of Recorder: an absent session id and two that sanitize  *)
(* to one directory, in a table of two.                                      *)
EXTENDS Recorder

Ids      == {<< >>, <<"b">>, <<"b", ".">>}
Threads  == {"malformed", "system"}
Odd      == {".", "/"}

=============================================================================
