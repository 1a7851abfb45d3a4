------------------------------ MODULE TeeSpec ------------------------------
(***************************************************************************)
(* What the recorder promises of one response it tees to a client: bytes   *)
(* are handed over until the stream is over, and then the exchange gets    *)
(* one index row at most, which counts all of them.                        *)
(***************************************************************************)
EXTENDS Naturals, Sequences

CONSTANT MaxBytes \* bound: bytes of one response

VARIABLES
  got,  \* bytes handed to the client
  over, \* the stream is over, whoever ended it
  rows  \* the index rows of this exchange

vars == <<got, over, rows>>

Init == got = 0 /\ over = FALSE /\ rows = << >>

Hand ==
  /\ ~over
  /\ got' \in got + 1 .. MaxBytes
  /\ UNCHANGED <<over, rows>>

End ==
  /\ ~over
  /\ over' = TRUE
  /\ UNCHANGED <<got, rows>>

Report ==
  /\ over /\ rows = << >>
  /\ rows' = <<got>>
  /\ UNCHANGED <<got, over>>

Next == Hand \/ End \/ Report

Spec == Init /\ [][Next]_vars

=============================================================================
