----------------------------- MODULE MCAccounts -----------------------------
(* Instances of Accounts.                                                  *)
EXTENDS Accounts, TLC

CONSTANTS r1, r2, r3, n1, n2, e1, e2, e3

TheFirst == [name |-> n1, email |-> e1, lower |-> TRUE]
TheTyped == {[name |-> n2, email |-> e2, lower |-> TRUE],
             [name |-> n2, email |-> e3, lower |-> FALSE]}
AnyCase == [name : {n2}, email : {e1, e2}, lower : BOOLEAN]
Symmetry == Permutations(Requests)
=============================================================================
