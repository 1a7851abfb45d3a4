----------------------------- MODULE MCSessions -----------------------------
(* Small instances of Sessions.  Symmetry: writers, ids and titles are only  *)
(* ever compared.                                                            *)
EXTENDS Sessions, TLC

Alike == Permutations(Writers) \cup Permutations(Ids) \cup Permutations(Titles)

=============================================================================
