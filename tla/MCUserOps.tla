----------------------------- MODULE MCUserOps -----------------------------
(* Instances of UserOps for TLC: objects o1 and o2 of account a1, and o3     *)
(* whose sender was left empty.                                             *)
EXTENDS UserOps, TLC

CONSTANTS o1, o2, o3, a1

TwoOps == {o1, o2}
AllOps == {o1, o2, o3}
OneAccount == {a1}

SenderOf == [o \in Ops |-> IF o = o3 THEN Nil ELSE a1]

AllConfigs == [paymaster : BOOLEAN, verifyingSigner : BOOLEAN]
\* The two objects of the account may be exchanged.
Symmetry == Permutations(TwoOps)

FullConfig == {[paymaster |-> TRUE, verifyingSigner |-> TRUE]}
NoPaymaster == {[paymaster |-> FALSE, verifyingSigner |-> TRUE]}
=============================================================================
