---------------------------- MODULE MCMultipart ----------------------------
(* Multipart on small instances: two contents, one of them smaller than a   *)
(* non-last part may be, and a cap that two large parts exceed.             *)
EXTENDS Multipart, TLC

CONSTANTS large, small

MCSize == [b \in {large, small} |-> IF b = large THEN 2 ELSE 1]
MCSizeOne == [b \in {large} |-> 2]

Symmetry == Permutations(Requests) \cup Permutations(SpoolNames)
=============================================================================
