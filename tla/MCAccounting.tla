---------------------------- MODULE MCAccounting ----------------------------
(***************************************************************************)
(* Accounting for TLC: the limits of the runs.                             *)
(***************************************************************************)
EXTENDS Accounting, TLC

CONSTANTS n1, n2

OneNamespace == {n1}
TwoNamespaces == {n1, n2}

Tight == [a \in Accounts |-> 3]
Unlimited == [a \in Accounts |-> 0]
SharedOnly == [a \in Accounts |-> IF a[2] = "SHARED_HOST" THEN 2 ELSE 0]
TwoEach == [n \in Namespaces |-> 2]
AnyCount == [n \in Namespaces |-> 0]

HostDefault == [d \in Domains |-> IF d = "HOST" THEN 0 ELSE 3]
DeviceLess == [d \in Domains |-> IF d = "DEVICE" THEN 2 ELSE 4]
Cap4 == [d \in Domains |-> 4]
Cap5 == [d \in Domains |-> 5]
Cap6 == [d \in Domains |-> 6]
Cap8 == [d \in Domains |-> 8]

Symmetry == Permutations(Threads) \cup Permutations(Slots)
=============================================================================
