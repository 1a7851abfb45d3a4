---------------------------- MODULE MCJsonLines ----------------------------
(* Small instances of JsonLines.  Writers are only ever compared.            *)
EXTENDS JsonLines, TLC

Alike == Permutations(Writers)

=============================================================================
