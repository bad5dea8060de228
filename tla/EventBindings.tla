---------------------------- MODULE EventBindings ----------------------------
(***************************************************************************)
(* The typed events of the generated bindings (bindings/): for each event   *)
(* what the ABI in the contract's metadata says of a log, and what the      *)
(* generated code does with it: the order in which FilterX and WatchX hand  *)
(* their rules over, and the fields of the struct a log is unpacked into.   *)
(* abigen writes the same text for every event, so the code is modelled     *)
(* once (module Events) and an event is a row of this table.                *)
(***************************************************************************)
EXTENDS Sequences

Abi(indexed, data) == [indexed |-> indexed, data |-> data]

\* The ABIs: indexed arguments become topics in this order, the others data.
EntryPointABI ==
  [AccountDeployed            |-> Abi(<<"userOpHash", "sender">>, {"factory", "paymaster"}),
   BeforeExecution            |-> Abi(<<>>, {}),
   Deposited                  |-> Abi(<<"account">>, {"totalDeposit"}),
   PostOpRevertReason         |-> Abi(<<"userOpHash", "sender">>, {"nonce", "revertReason"}),
   SignatureAggregatorChanged |-> Abi(<<"aggregator">>, {}),
   StakeLocked                |-> Abi(<<"account">>, {"totalStaked", "unstakeDelaySec"}),
   StakeUnlocked              |-> Abi(<<"account">>, {"withdrawTime"}),
   StakeWithdrawn             |-> Abi(<<"account">>, {"withdrawAddress", "amount"}),
   UserOperationEvent         |-> Abi(<<"userOpHash", "sender", "paymaster">>,
                                      {"nonce", "success", "actualGasCost", "actualGasUsed"}),
   UserOperationPrefundTooLow |-> Abi(<<"userOpHash", "sender">>, {"nonce"}),
   UserOperationRevertReason  |-> Abi(<<"userOpHash", "sender">>, {"nonce", "revertReason"}),
   Withdrawn                  |-> Abi(<<"account">>, {"withdrawAddress", "amount"})]

SimpleAccountABI ==
  [Initialized              |-> Abi(<<>>, {"version"}),
   SimpleAccountInitialized |-> Abi(<<"entryPoint", "owner">>, {}),
   Upgraded                 |-> Abi(<<"implementation">>, {})]

VerifyingPaymasterABI ==
  [OwnershipTransferred |-> Abi(<<"previousOwner", "newOwner">>, {})]

-----------------------------------------------------------------------------
(* The generated code: rules is the order of the rules in the calls of      *)
(* FilterLogs and WatchLogs, fields the struct's.                           *)

Binding(abi, event, rules, fields) ==
  [abi |-> abi[event], event |-> event, rules |-> rules, fields |-> fields]

AccountDeployed ==
  Binding(EntryPointABI, "AccountDeployed", <<"userOpHash", "sender">>,
    {"userOpHash", "sender", "factory", "paymaster"})

BeforeExecution ==
  Binding(EntryPointABI, "BeforeExecution", <<>>, {})

Deposited ==
  Binding(EntryPointABI, "Deposited", <<"account">>, {"account", "totalDeposit"})

PostOpRevertReason ==
  Binding(EntryPointABI, "PostOpRevertReason", <<"userOpHash", "sender">>,
    {"userOpHash", "sender", "nonce", "revertReason"})

SignatureAggregatorChanged ==
  Binding(EntryPointABI, "SignatureAggregatorChanged", <<"aggregator">>, {"aggregator"})

StakeLocked ==
  Binding(EntryPointABI, "StakeLocked", <<"account">>,
    {"account", "totalStaked", "unstakeDelaySec"})

StakeUnlocked ==
  Binding(EntryPointABI, "StakeUnlocked", <<"account">>, {"account", "withdrawTime"})

StakeWithdrawn ==
  Binding(EntryPointABI, "StakeWithdrawn", <<"account">>,
    {"account", "withdrawAddress", "amount"})

UserOperationEvent ==
  Binding(EntryPointABI, "UserOperationEvent", <<"userOpHash", "sender", "paymaster">>,
    {"userOpHash", "sender", "paymaster", "nonce", "success", "actualGasCost",
     "actualGasUsed"})

UserOperationPrefundTooLow ==
  Binding(EntryPointABI, "UserOperationPrefundTooLow", <<"userOpHash", "sender">>,
    {"userOpHash", "sender", "nonce"})

\* Faulty variant: the two rules are handed over in the wrong order.
SwappedRules ==
  Binding(EntryPointABI, "UserOperationRevertReason", <<"sender", "userOpHash">>,
    {"userOpHash", "sender", "nonce", "revertReason"})

UserOperationRevertReason ==
  Binding(EntryPointABI, "UserOperationRevertReason", <<"userOpHash", "sender">>,
    {"userOpHash", "sender", "nonce", "revertReason"})

Withdrawn ==
  Binding(EntryPointABI, "Withdrawn", <<"account">>,
    {"account", "withdrawAddress", "amount"})

Initialized ==
  Binding(SimpleAccountABI, "Initialized", <<>>, {"version"})

SimpleAccountInitialized ==
  Binding(SimpleAccountABI, "SimpleAccountInitialized", <<"entryPoint", "owner">>,
    {"entryPoint", "owner"})

Upgraded ==
  Binding(SimpleAccountABI, "Upgraded", <<"implementation">>, {"implementation"})

OwnershipTransferred ==
  Binding(VerifyingPaymasterABI, "OwnershipTransferred", <<"previousOwner", "newOwner">>,
    {"previousOwner", "newOwner"})

AllBindings ==
  {AccountDeployed, BeforeExecution, Deposited, PostOpRevertReason,
   SignatureAggregatorChanged, StakeLocked, StakeUnlocked, StakeWithdrawn,
   UserOperationEvent, UserOperationPrefundTooLow, UserOperationRevertReason, Withdrawn,
   Initialized, SimpleAccountInitialized, Upgraded, OwnershipTransferred}

-----------------------------------------------------------------------------
(* Logs (external: go-ethereum's bind and abi packages).                    *)

\* The names of the arguments of an event.
Args(abi) == {abi.indexed[i] : i \in DOMAIN abi.indexed} \cup abi.data

\* The topics the contract gives to a log after the event's signature.
Topics(b, log) == [i \in DOMAIN b.abi.indexed |-> log.args[b.abi.indexed[i]]]

\* The node's filter: one set of admissible topics per rule, an empty set
\* admitting all.
TopicsMatch(query, topics) ==
  \A i \in DOMAIN query : query[i] = {} \/ topics[i] \in query[i]
=============================================================================
