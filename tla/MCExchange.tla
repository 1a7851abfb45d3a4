----------------------------- MODULE MCExchange -----------------------------
(* Small instances of Exchange: bodies of one to three blocks around a limit *)
(* of two, so that each request may stay in memory or spill, and a body in   *)
(* memory may be as long as RawCap.  What matters of a stem or a directory   *)
(* is only which requests share it.                                          *)
EXTENDS Exchange, TLC

Alike == Permutations(Stems) \cup Permutations(Dirs)

=============================================================================
