------------------------------ MODULE MCSharing ------------------------------
(* WorkflowSharing for TLC: model values and their symmetry. *)
EXTENDS SharingProperties, TLC

CONSTANTS r1, r2, s1, s2, c1

TwoRequests == {r1, r2}
TwoShares == {s1, s2}
OneCopy == {c1}
Interchangeable == Permutations(Requests) \cup Permutations(Shares)
=============================================================================
