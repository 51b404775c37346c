----------------------------- MODULE MCUpstream -----------------------------
(* Upstream on a small instance: one key below dir/ and one beside it.      *)
EXTENDS Upstream, TLC

Symmetry == Permutations(Requests)
=============================================================================
