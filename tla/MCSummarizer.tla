--------------------------- MODULE MCSummarizer ---------------------------
(* A small instance of Summarizer: lines of at most three bytes, so that a   *)
(* frame with one byte of padding fits and one with two does not, and two    *)
(* kinds of frame, a delta and a failure that also reports the usage.        *)
EXTENDS Summarizer

Types == [c \in Closers |-> IF c = "d" THEN "delta" ELSE "response.failed"]
Deltas == [c \in Closers |-> IF c = "d" THEN 2 ELSE 0]
Models == [c \in Closers |-> IF c = "d" THEN "m1" ELSE "m2"]
Usages == [c \in Closers |-> c = "f"]

===========================================================================
