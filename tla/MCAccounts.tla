----------------------------- MODULE MCAccounts -----------------------------
(* Instances of Accounts for TLC: two clients on one cache and one without,  *)
(* whose factory is another; or two factories on one cache.                 *)
EXTENDS Accounts, TLC

CONSTANTS g1, g2, c1, c2, c3, f1, f2, k1, k2

TwoGoroutines == {g1, g2}
TwoClients == {c1, c2}
ThreeClients == {c1, c2, c3}
TwoKeys == {k1, k2}
OneKey == {k1}
OneSalt == {0}
SharedFactory == [c \in ThreeClients |-> IF c = c3 THEN f2 ELSE f1]
TwoFactories == [c \in ThreeClients |-> IF c = c1 THEN f1 ELSE f2]
=============================================================================
