------------------------------ MODULE MCAccounts ------------------------------
(* Values of the account's constants for the model checker. *)
EXTENDS AccountProperties, TLC

CONSTANTS r1, r2, r3
ThreeRequests == {r1, r2, r3}
TwoRequests   == {r1, r2}
SomeBalances == {-1, 2}
Interchangeable == Permutations(Requests)
=============================================================================
