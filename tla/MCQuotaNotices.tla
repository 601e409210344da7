--------------------------- MODULE MCQuotaNotices ---------------------------
(* An instance of QuotaNotices for TLC: every request costs the same.       *)
EXTENDS QuotaNotices, TLC

MCCost == [r \in Requests |-> 2]

(* Requests, users and runs are alike.                                      *)
Symmetry == Permutations(Requests) \cup Permutations(Users) \cup Permutations(Runs)
=============================================================================
