----------------------------- MODULE MCExecutor -----------------------------
(* Instances of Executor for TLC: rotations of up to two keys, the same key   *)
(* twice included, of which one is the verifying signer's and the owner's as *)
(* well.                                                                     *)
EXTENDS Executor

CONSTANTS g1, g2, k1, k2, a, b

TwoGoroutines == {g1, g2}
OneGoroutine == {g1}
TwoSigners == {k1, k2}
Rotations == {<<>>, <<k1>>}
NoRotation == {<<>>}
OneSender == {a}
TwoSenders == {a, b}
FirstOf(s) == [sender |-> s, nonce |-> 0]

TwoConfigs == {[verifier |-> k1, executors |-> TRUE], [verifier |-> Nil, executors |-> FALSE]}
Verifies == {[verifier |-> k1, executors |-> FALSE]}

\* Two batches that share an account, deposits, the owner's account.
Batch == [kind |-> "HandleOps", target |-> <<FirstOf(a)>>]
AtomicBatch == [kind |-> "HandleAtomicOps", target |-> <<FirstOf(a), FirstOf(b)>>]
Deposit == [kind |-> "Prefund", target |-> a]
Deploy(account) == [kind |-> "DeployAccount", target |-> account]

\* A batch is repeated while another with one of its operations is under way,
\* and deposits are; calls of two kinds meet on a key.
Repeats == {<<Batch, AtomicBatch, Batch>>, <<Deposit, AtomicBatch, Deposit>>,
            <<Deploy(Owner), Batch>>, <<Batch, Deploy(Owner)>>, <<Deploy(Owner), Deposit>>}
DeploysAddress == {<<Deploy(Account(Owner))>>}
=============================================================================
