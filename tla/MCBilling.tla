------------------------------ MODULE MCBilling ------------------------------
(* Instances of Billing for TLC: one subscription with two events of the    *)
(* same second, and one payment.                                            *)
EXTENDS Billing, TLC

CONSTANTS s1, p1

MCEvents == {[row |-> s1, at |-> 1, status |-> "ACTIVE", id |-> 4],
             [row |-> s1, at |-> 1, status |-> "CANCELED", id |-> 3],
             [row |-> p1, at |-> 1, status |-> "PAID", id |-> 2]}

Symmetry == Permutations(Keys) \cup Permutations(Handlers) \cup Permutations(Runners)
=============================================================================
