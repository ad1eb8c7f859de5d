---------------------------- MODULE MCCloudFiles ----------------------------
(* CloudFiles for TLC: model values and their symmetry. *)
EXTENDS CloudFilesInvariant, TLC

CONSTANTS f1, f2, w1, w2, h1, r1, r2, sweeper

TwoFiles == {f1, f2}
OneWorkflow == {w1}
TwoWorkflows == {w1, w2}
OneHistory == {h1}
OneRequest == {r1}
TwoRequests == {r1, r2}
Interchangeable == Permutations(Files) \cup Permutations(Workflows)
                   \cup Permutations(Requests)
=============================================================================
