------------------------------ MODULE BodySpec ------------------------------
(***************************************************************************)
(* What reading a request body gives its caller (src/src/body.rs, the      *)
(* module comment): the whole body the client sent, from memory or from a  *)
(* file; or word that there is none to forward - too large under the       *)
(* "reject" policy, or broken.  Since the code drops the error of the last *)
(* write, there is one more outcome: a file that lacks bytes, handed over  *)
(* as if it were whole, and only after a write that failed unnoticed.      *)
(***************************************************************************)
EXTENDS Naturals, Sequences

CONSTANTS
  Chunks,   \* the data frames a client may send: sequences of bytes
  Limit     \* limits.request_body_bytes

VARIABLES
  policy,   \* limits.request_body_over_limit
  received, \* the bytes taken from the client so far
  lost,     \* a write of the body has failed and nobody has been told
  result    \* what the caller has been told

vars == <<policy, received, lost, result>>

Pending     == [kind |-> "pending", body |-> << >>]
Whole(body) == [kind |-> "whole", body |-> body]
Damaged     == [kind |-> "damaged", body |-> << >>]
Refused     == [kind |-> "too_large", body |-> << >>]
Broken      == [kind |-> "failed", body |-> << >>]
Dropped     == [kind |-> "dropped", body |-> << >>]

Init == received = << >> /\ lost = FALSE /\ result = Pending

\* Another frame is taken, and the body may still be forwarded.
Take(c) ==
  /\ result = Pending
  /\ received' = received \o c
  /\ UNCHANGED <<policy, lost, result>>

\* The frame that crosses the limit under "reject" ends the read.
Refuse(c) ==
  /\ result = Pending
  /\ policy = "reject"
  /\ Len(received \o c) > Limit
  /\ received' = received \o c
  /\ result' = Refused
  /\ UNCHANGED <<policy, lost>>

\* The end of the body: the caller gets every byte in the order sent.
Deliver ==
  /\ result = Pending /\ ~lost
  /\ result' = Whole(received)
  /\ UNCHANGED <<policy, received, lost>>

\* The end of a body of which a write has failed unnoticed.
DeliverDamaged ==
  /\ result = Pending /\ lost
  /\ result' = Damaged
  /\ UNCHANGED <<policy, received, lost>>

\* A read or write error, with or without a frame, told to the caller; or the
\* handler is dropped with its connection.
GiveUp ==
  /\ result = Pending
  /\ \/ received' = received
     \/ \E c \in Chunks : received' = received \o c
  /\ result' \in {Broken, Dropped}
  /\ lost' \in {lost, FALSE}
  /\ UNCHANGED policy

\* A write fails in the background.
Lose ==
  /\ lost' = TRUE
  /\ UNCHANGED <<policy, received, result>>

Next ==
  \/ \E c \in Chunks : Take(c) \/ Refuse(c)
  \/ Deliver \/ DeliverDamaged
  \/ GiveUp
  \/ Lose

Spec == Init /\ [][Next]_vars

=============================================================================
