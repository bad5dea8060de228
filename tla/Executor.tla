------------------------------ MODULE Executor ------------------------------
(***************************************************************************)
(* The transactions a client sends to the node itself (client.go):          *)
(* HandleOps and HandleAtomicOps, with a key of the rotation; Prefund, with *)
(* the verifying key; DeployAccount, with the owner's key.  Goroutines      *)
(* share the client, so the calls interleave between the steps the bindings *)
(* take at the node: estimate the gas on the present state, read the        *)
(* pending nonce, send.                                                     *)
(*                                                                         *)
(* The node and the chain are external: a pool of transactions that mines   *)
(* them in the order of their nonces, refuses or replaces one whose nonce   *)
(* is taken, and may drop one.  Gas, validity windows, the paymaster's       *)
(* deposit and the other users of the contracts are left out, so that any   *)
(* transaction may revert when it is mined, whatever its estimate said.     *)
(***************************************************************************)
EXTENDS Rotation, FiniteSets

CONSTANTS
  Joining,     (* keys that Add may put into the rotation                  *)
  Goroutines,  (* callers                                                  *)
  Deadlined,   (* callers whose context ends by itself                     *)
  Configs,     (* Config.VerifyingSigner, which may be nil, and whether    *)
               (* there are ExecutorSigners                                *)
  Owner,       (* the key that signs DeployAccount                         *)
  Senders,     (* accounts of the user operations                          *)
  Programs,    (* sequences of requests (kind and target, see Targets):    *)
               (* the calls a program makes, of any goroutine              *)
  MaxKeys      (* bound: keys in the rotation when another is added        *)

HandleKinds == {"HandleOps", "HandleAtomicOps"}

Kinds == HandleKinds \cup {"Prefund", "DeployAccount"}

Ops == [sender : Senders, nonce : Nat]

\* The account the factory computes for an owner (and the client's salt).
Account(owner) == [accountOf |-> owner]

\* What a call is about: a batch of operations, the account a deposit is for,
\* the argument named account.
Targets(kind) ==
  CASE kind \in HandleKinds    -> Seq(Ops)
    [] kind = "Prefund"       -> Senders
    [] kind = "DeployAccount" -> {Owner, Account(Owner)}

\* Signers are all the keys there are: one may be in the rotation several times,
\* verify and own accounts as well.
ASSUME ExecutorAssumption ==
  /\ Nil \notin Signers
  /\ Owner \in Signers
  /\ Joining \subseteq Signers
  /\ Initials \subseteq Seq(Signers)
  /\ Deadlined \subseteq Goroutines
  /\ Configs \subseteq [verifier : Signers \cup {Nil}, executors : BOOLEAN]
  /\ \A p \in Programs : \A i \in 1 .. Len(p) :
       p[i].kind \in Kinds /\ p[i].target \in Targets(p[i].kind)
  /\ \A p \in Programs : Len(p) \in Nat
  /\ MaxKeys \in Nat

VARIABLES
  config,    \* the client's configuration
  requests,  \* the calls the program makes
  call,      \* call[g]: the call goroutine g is in, or its outcome
  txs,       \* the transactions the node has accepted, in that order
  nonces,    \* nonces[s]: the EntryPoint's nonce of account s
  deposit,   \* deposit[s]: deposits the program made for s at the EntryPoint
  code,      \* addresses of accounts the program has created
  calls,     \* number of calls begun, which are numbered in this order
  turns      \* history: number of turns taken in the rotation

chainVars == <<nonces, deposit, code>>
program == <<config, requests>>
vars == <<rotationVars, program, call, txs, chainVars, calls, turns>>

Idle == [pc |-> "idle"]

Init ==
  /\ RotationInit
  /\ config \in Configs
  /\ requests \in Programs
  /\ call = [g \in Goroutines |-> Idle]
  /\ txs = <<>>
  /\ nonces = [s \in Senders |-> 0]
  /\ deposit = [s \in Senders |-> 0]
  /\ code = {}
  /\ calls = 0
  /\ turns = 0

At(g, pc) == call[g].pc = pc

Goto(g, pc) == call' = [call EXCEPT ![g].pc = pc]

\* status "ok": the call returns without an error.
Return(g, status) ==
  call' = [call EXCEPT ![g].pc = "done", ![g].status = status]

-----------------------------------------------------------------------------
(* The node (external).                                                     *)

Mined == {"success", "reverted"}

OfKey(k, statuses) == {i \in DOMAIN txs : txs[i].key = k /\ txs[i].status \in statuses}

MinedNonce(k) == Cardinality(OfKey(k, Mined))

InPool(k, n) == {i \in OfKey(k, {"pool"}) : txs[i].nonce = n}

\* eth_getTransactionCount at "pending": the first nonce after those mined and
\* those that follow them in the pool without a gap.
PendingNonce(k) ==
  CHOOSE n \in MinedNonce(k) .. MinedNonce(k) + Len(txs) :
    /\ InPool(k, n) = {}
    /\ \A m \in MinedNonce(k) .. n - 1 : InPool(k, m) # {}

\* The EntryPoint accepts the operations one after the other.
Validates(ops) ==
  \A i \in DOMAIN ops :
    ops[i].nonce = nonces[ops[i].sender]
                     + Cardinality({j \in 1 .. i - 1 : ops[j].sender = ops[i].sender})

\* External: the effect of a transaction that does not revert.
Executes(tx) ==
  CASE tx.kind = "Prefund" ->
         /\ deposit' = [deposit EXCEPT ![tx.target] = @ + 1]
         /\ UNCHANGED <<nonces, code>>
    [] tx.kind = "DeployAccount" ->
         /\ code' = code \cup {Account(tx.target)}
         /\ UNCHANGED <<nonces, deposit>>
    [] tx.kind \in HandleKinds ->
         /\ Validates(tx.target)
         /\ nonces' = [s \in Senders |->
              nonces[s] + Cardinality({i \in DOMAIN tx.target : tx.target[i].sender = s})]
         /\ UNCHANGED <<deposit, code>>

\* When it is mined a transaction has its effect, or it reverts and has none.
Mine(i) ==
  /\ txs[i].status = "pool"
  /\ txs[i].nonce = MinedNonce(txs[i].key)
  /\ \/ /\ Executes(txs[i])
        /\ txs' = [txs EXCEPT ![i].status = "success", ![i].settled = calls]
     \/ /\ txs' = [txs EXCEPT ![i].status = "reverted"]
        /\ UNCHANGED chainVars
  /\ UNCHANGED <<rotationVars, program, call, calls, turns>>

Drop(i) ==
  /\ txs[i].status = "pool"
  /\ txs' = [txs EXCEPT ![i].status = "dropped"]
  /\ UNCHANGED <<rotationVars, program, call, chainVars, calls, turns>>

-----------------------------------------------------------------------------
(* The calls.                                                               *)

\* Faulty variant: Count is not asked.
NeverEmpty == FALSE

NoSigners == ~config.executors \/ waiting = <<>>

\* HandleOps and HandleAtomicOps panic without ExecutorSigners, and when Count is
\* zero; Prefund without VerifyingSigner.
Panics(kind) ==
  \/ kind \in HandleKinds /\ NoSigners
  \/ kind = "Prefund" /\ config.verifier = Nil

\* A program that recovers from the panic may call again.
Begin(g) ==
  /\ At(g, "idle") \/ At(g, "done")
  /\ calls < Len(requests)
  /\ calls' = calls + 1
  /\ LET kind == requests[calls'].kind
     IN  call' = [call EXCEPT ![g] =
           [pc |-> IF Panics(kind) THEN "done"
                   ELSE IF kind \in HandleKinds THEN "rotate" ELSE "estimate",
            status |-> IF Panics(kind) THEN "panic" ELSE "none",
            kind |-> kind, target |-> requests[calls'].target, attempt |-> calls',
            key |-> CASE kind = "Prefund" -> config.verifier
                      [] kind = "DeployAccount" -> Owner
                      [] kind \in HandleKinds -> Nil,
            turn |-> 0, size |-> 0, nonce |-> 0, tx |-> 0]]
  /\ UNCHANGED <<rotationVars, program, txs, chainVars, turns>>

\* Faulty variant: the key is looked at and not taken.
PeeksOnly ==
  /\ waiting # <<>>
  /\ last' = Head(waiting)
  /\ UNCHANGED <<waiting, passed>>

\* Next of an empty rotation returns nil.
NextSigner ==
  \/ TakeTurn
  \/ waiting = <<>> /\ last' = Nil /\ UNCHANGED <<waiting, passed>>

Rotate(g) ==
  /\ At(g, "rotate")
  /\ NextSigner
  /\ turns' = turns + 1
  /\ call' = [call EXCEPT ![g].pc = "estimate", ![g].key = last', ![g].turn = turns',
                          ![g].size = Len(waiting) + Len(passed)]
  /\ UNCHANGED <<program, txs, chainVars, calls>>

\* Faulty variant: a gas limit is set, and nothing estimated.
FixedGas(g) == TRUE

\* External: the estimate is made on the latest state or, with what is in the
\* pool, on a later one, and refuses an operation that has been executed there.
Simulates(g) ==
  call[g].kind \in HandleKinds =>
    \A i \in DOMAIN call[g].target : LET op == call[g].target[i] IN nonces[op.sender] <= op.nonce

\* No gas limit is set, so that the bindings estimate it: what would revert now
\* is not sent.
Estimate(g) ==
  /\ At(g, "estimate")
  /\ Simulates(g)
  /\ Goto(g, "nonce")
  /\ UNCHANGED <<rotationVars, program, txs, chainVars, calls, turns>>

ReadNonce(g) ==
  /\ At(g, "nonce")
  /\ call' = [call EXCEPT ![g].pc = "send", ![g].nonce = PendingNonce(call[g].key)]
  /\ UNCHANGED <<rotationVars, program, txs, chainVars, calls, turns>>

\* The node does not answer, or answers the estimate with a revert.
NodeFails(g) ==
  /\ call[g].pc \in {"estimate", "nonce", "send"}
  /\ Return(g, "error")
  /\ UNCHANGED <<rotationVars, program, txs, chainVars, calls, turns>>

Transaction(g) ==
  [key |-> call[g].key, nonce |-> call[g].nonce, kind |-> call[g].kind,
   target |-> call[g].target, status |-> "pool", turn |-> call[g].turn,
   size |-> call[g].size, attempt |-> call[g].attempt, settled |-> 0]

\* Faulty variant: Prefund and DeployAccount return like the others.
NoneWaits(kind) == FALSE

WaitsMined(kind) == kind \notin HandleKinds

\* The hash is returned, or the receipt waited for.
Sent(g, i) ==
  call' = [call EXCEPT ![g].pc = IF WaitsMined(call[g].kind) THEN "wait" ELSE "done",
                       ![g].status = IF WaitsMined(call[g].kind) THEN "none" ELSE "ok",
                       ![g].tx = i]

\* Faulty variant: the transaction is made anew when the answer is lost.
MakesAnew(g) == Goto(g, "estimate")

\* The call fails, and the transaction is in the pool.
AnswerIsLost(g) == Return(g, "error")

\* The node takes the transaction, in the place of one with its nonce if its
\* price has risen meanwhile.  The answer may be lost; HandleOps may also fail
\* behind it, on the hashes it returns.
Send(g) ==
  /\ At(g, "send")
  /\ call[g].nonce >= MinedNonce(call[g].key)
  /\ txs' = Append([i \in DOMAIN txs |->
                      IF i \in InPool(call[g].key, call[g].nonce)
                      THEN [txs[i] EXCEPT !.status = "replaced"] ELSE txs[i]],
                   Transaction(g))
  /\ Sent(g, Len(txs) + 1) \/ AnswerIsLost(g)
  /\ UNCHANGED <<rotationVars, program, chainVars, calls, turns>>

\* The nonce has been used, or one in the pool has it and does not yield.
Refuse(g) ==
  /\ At(g, "send")
  /\ \/ call[g].nonce < MinedNonce(call[g].key)
     \/ InPool(call[g].key, call[g].nonce) # {}
  /\ Return(g, "refused")
  /\ UNCHANGED <<rotationVars, program, txs, chainVars, calls, turns>>

\* Faulty variant: only a successful receipt ends the wait.
Succeeded(i) == txs[i].status = "success"

HasReceipt(i) == txs[i].status \in Mined

\* WaitMined asks for the receipt until there is one, whatever its status.
TakeReceipt(g) ==
  /\ At(g, "wait")
  /\ HasReceipt(call[g].tx)
  /\ Return(g, "ok")
  /\ UNCHANGED <<rotationVars, program, txs, chainVars, calls, turns>>

ContextEnds(g) ==
  /\ At(g, "wait")
  /\ Return(g, "error")
  /\ UNCHANGED <<rotationVars, program, txs, chainVars, calls, turns>>

\* A key is added to the rotation, one that is in it already as well.
AddSigner(s) ==
  /\ config.executors
  /\ Len(waiting) + Len(passed) < MaxKeys
  /\ Join(s)
  /\ UNCHANGED <<program, call, txs, chainVars, calls, turns>>

-----------------------------------------------------------------------------

Step(g) ==
  Rotate(g) \/ Estimate(g) \/ ReadNonce(g) \/ NodeFails(g) \/ Send(g) \/ Refuse(g)
  \/ TakeReceipt(g)

Next ==
  \/ \E g \in Goroutines : Begin(g) \/ Step(g) \/ ContextEnds(g)
  \/ \E i \in DOMAIN txs : Mine(i) \/ Drop(i)
  \/ \E s \in Joining : AddSigner(s)

Spec == Init /\ [][Next]_vars

\* A goroutine in a call runs, and a context with a deadline ends; nothing is
\* assumed of the chain or the other contexts.
Fairness ==
  /\ \A g \in Goroutines : WF_vars(Step(g))
  /\ \A g \in Deadlined : WF_vars(ContextEnds(g))

FairSpec == Spec /\ Fairness

-----------------------------------------------------------------------------
(* Properties.                                                              *)

Calling(g) == call[g].pc \notin {"idle", "done"}

\* The keys that sign what a call of this kind sends.
KeysOf(kind) ==
  CASE kind \in HandleKinds    -> Signers
    [] kind = "Prefund"       -> {config.verifier} \ {Nil}
    [] kind = "DeployAccount" -> {Owner}

CallTypes(kind) ==
  [pc : {"rotate", "estimate", "nonce", "send", "wait", "done"},
   status : {"none", "ok", "error", "refused", "panic"},
   kind : {kind}, target : Targets(kind), attempt : 1 .. calls, key : KeysOf(kind) \cup {Nil},
   turn : Nat, size : Nat, nonce : Nat, tx : Nat]

TxTypes(kind) ==
  [key : KeysOf(kind), nonce : Nat, kind : {kind}, target : Targets(kind),
   status : Mined \cup {"pool", "dropped", "replaced"},
   turn : Nat, size : Nat, attempt : 1 .. calls, settled : 0 .. calls]

Transactions ==
  TxTypes("HandleOps") \cup TxTypes("HandleAtomicOps")
  \cup TxTypes("Prefund") \cup TxTypes("DeployAccount")

\* Types; a call past the rotation has a key, what is sent is what was asked for,
\* and a transaction's nonce is at most the number of those before it, as the
\* node's answer is (client.go:217-291).
TypeOK ==
  /\ waiting \in Seq(Signers) /\ passed \in Seq(Signers)
  /\ config \in Configs
  /\ requests \in Programs
  /\ nonces \in [Senders -> Nat]
  /\ deposit \in [Senders -> Nat]
  /\ code \subseteq {Account(o) : o \in {Owner, Account(Owner)}}
  /\ calls \in 0 .. Len(requests)
  /\ turns \in 0 .. calls
  /\ txs \in Seq(Transactions)
  /\ \A i \in DOMAIN txs : txs[i].nonce < i
  /\ DOMAIN call = Goroutines
  /\ \A g \in Goroutines : call[g] = Idle \/
       /\ call[g] \in CallTypes(call[g].kind) /\ call[g].kind \in Kinds
       /\ At(g, "rotate") => call[g].kind \in HandleKinds
       /\ call[g].pc \in {"estimate", "nonce", "send", "wait"} => call[g].key # Nil
       /\ At(g, "send") => call[g].nonce <= Len(txs)
       /\ call[g].tx <= Len(txs)

Order == waiting \o passed

Once(k) == \A i, j \in DOMAIN Order : Order[i] = k /\ Order[j] = k => i = j

\* k is in the rotation once, and nothing else is signed with it.
Dedicated(k) == Once(k) /\ k \notin {config.verifier, Owner}

\* c and d come from turns that are at least a round of the rotation apart, as
\* long as it was when the earlier was taken.
Lapped(c, d) == c.turn + c.size <= d.turn \/ d.turn + d.size <= c.turn

SameSlot(c, d) == c.key = d.key /\ c.nonce = d.nonce

\* The rotation keeps the executor's transactions out of each other's way: one
\* with a key of its own is refused for its nonce, or replaced in the pool, only
\* because of another that got the same key a whole round away.  A key that was
\* added twice, or that also verifies or owns, may clash at once
\* (client.go:217, 223, 245, 251, rotator.go:46-52).
ClashOnlyIfLapped ==
  /\ \A g \in Goroutines :
       /\ At(g, "done") /\ call[g].status = "refused"
       /\ call[g].kind \in HandleKinds /\ Dedicated(call[g].key)
       => \E i \in DOMAIN txs : SameSlot(txs[i], call[g]) /\ Lapped(txs[i], call[g])
  /\ \A i \in DOMAIN txs :
       txs[i].status = "replaced" /\ txs[i].kind \in HandleKinds /\ Dedicated(txs[i].key) =>
         \E j \in i + 1 .. Len(txs) : SameSlot(txs[i], txs[j]) /\ Lapped(txs[i], txs[j])

TookTurn(i) == txs[i].kind \in HandleKinds

ShareOperation(c, d) == \E i \in DOMAIN c.target, j \in DOMAIN d.target : c.target[i] = d.target[j]

\* A batch repeated after a lost answer is not paid for once its operations have
\* been executed: whatever call sent a transaction with one of them had begun
\* before (client.go:223, 251).
ExecutedIsNotResent ==
  \A i, j \in DOMAIN txs :
    /\ TookTurn(i) /\ TookTurn(j) /\ ShareOperation(txs[i], txs[j])
    /\ txs[i].status = "success"
    => txs[j].attempt <= txs[i].settled

\* A call sends one transaction at most, also when it does not learn that it was
\* sent; and none if it is refused or panics (client.go:212, 223, 251, 273, 286).
SentOncePerCall ==
  /\ \A i, j \in DOMAIN txs : txs[i].attempt = txs[j].attempt => i = j
  /\ \A g \in Goroutines, i \in DOMAIN txs :
       At(g, "done") /\ call[g].status \in {"refused", "panic"} =>
         txs[i].attempt # call[g].attempt

Finished(g, kind) == At(g, "done") /\ call[g].kind = kind /\ call[g].status = "ok"

\* The receipt is that of the call's own transaction.
HasOwnReceipt(g) ==
  /\ call[g].tx \in DOMAIN txs
  /\ txs[call[g].tx].attempt = call[g].attempt
  /\ txs[call[g].tx].status \in Mined

Deposits(s) ==
  {i \in DOMAIN txs : txs[i].kind = "Prefund" /\ txs[i].target = s /\ txs[i].status = "success"}

\* Prefund returns without an error only with the receipt of its own transaction,
\* and there are as many deposits as calls whose transaction succeeded: a call
\* that failed with a lost answer may have made one, but never two.  A receipt
\* may tell of a revert (client.go:273-277).
PrefundIsThere ==
  /\ \A g \in Goroutines : Finished(g, "Prefund") => HasOwnReceipt(g)
  /\ \A s \in Senders : deposit[s] = Cardinality({txs[i].attempt : i \in Deposits(s)})

\* When DeployAccount returns without an error it has the receipt of its own
\* transaction; and if the receipt tells success and an owner was given, the
\* account that GetAccount computes for the owner has been created
\* (client.go:281-291).
OwnerIsDeployed ==
  \A g \in Goroutines : Finished(g, "DeployAccount") =>
    /\ HasOwnReceipt(g)
    /\ txs[call[g].tx].status = "success" /\ call[g].target = Owner => Account(Owner) \in code

-----------------------------------------------------------------------------
(* The inductive invariant behind the properties above.                     *)

\* The mined nonces of a key have no gap.
MinedInOrder ==
  \A k \in Signers : \A n \in 0 .. MinedNonce(k) - 1 :
    \E i \in OfKey(k, Mined) : txs[i].nonce = n

\* Whoever counted the keys of the rotation gets one.
Rotates ==
  /\ waiting = <<>> => passed = <<>>
  /\ \A g \in Goroutines : At(g, "rotate") => waiting # <<>>

\* Each call takes at most one turn.
AtRotation == {g \in Goroutines : At(g, "rotate")}

TurnsCounted == IsFiniteSet(AtRotation) /\ turns + Cardinality(AtRotation) <= calls

\* The next turn of c's key comes a round after c's or later.
KeepsPlace(c) ==
  \E i \in DOMAIN Order : Order[i] = c.key /\ c.turn + c.size <= turns + i

\* Turns that a call may still use, and those in transactions.
HasTurn(g) == call[g].pc \in {"estimate", "nonce", "send"} /\ call[g].kind \in HandleKinds

\* All turns that gave a key which is in the rotation once are a round apart.
TurnsApart ==
  /\ \A g \in Goroutines : HasTurn(g) => KeepsPlace(call[g])
  /\ \A i \in DOMAIN txs : TookTurn(i) => KeepsPlace(txs[i])
  /\ \A g, h \in Goroutines :
       g # h /\ HasTurn(g) /\ HasTurn(h) /\ call[g].key = call[h].key /\ Once(call[g].key) =>
         Lapped(call[g], call[h])
  /\ \A i \in DOMAIN txs, g \in Goroutines :
       TookTurn(i) /\ HasTurn(g) /\ txs[i].key = call[g].key /\ Once(call[g].key) =>
         Lapped(txs[i], call[g])

\* Operations that were executed have used their nonces; and a call that has
\* passed its estimate, or sent, had begun before any of its operations was
\* executed.
BatchesHold ==
  /\ \A i \in DOMAIN txs : TookTurn(i) /\ txs[i].status = "success" =>
       \A k \in DOMAIN txs[i].target : LET op == txs[i].target[k] IN op.nonce < nonces[op.sender]
  /\ \A i \in DOMAIN txs, g \in Goroutines :
       /\ TookTurn(i) /\ txs[i].status = "success"
       /\ call[g].pc \in {"nonce", "send"} /\ call[g].kind \in HandleKinds
       /\ ShareOperation(txs[i], call[g])
       => call[g].attempt <= txs[i].settled
  /\ ExecutedIsNotResent

\* The call may still send its transaction.
ToSend(g) == call[g].pc \in {"rotate", "estimate", "nonce", "send"}

\* The calls are told apart by their number, and none has sent before it does.
CallsAreTold ==
  /\ \A g, h \in Goroutines :
       g # h /\ call[g] # Idle /\ call[h] # Idle => call[g].attempt # call[h].attempt
  /\ \A g \in Goroutines, i \in DOMAIN txs : ToSend(g) => txs[i].attempt # call[g].attempt
  /\ SentOncePerCall

\* The call waits for its transaction, or has seen it mined.
Awaits(g) ==
  \/ At(g, "wait")
  \/ At(g, "done") /\ call[g].status = "ok" /\ WaitsMined(call[g].kind)

\* Each call waits for a transaction of its own, which does what it asked for;
\* and the chain has what the successful transactions did.
ReceiptsHold ==
  /\ \A g \in Goroutines : Awaits(g) =>
       /\ call[g].tx \in DOMAIN txs
       /\ txs[call[g].tx].attempt = call[g].attempt
       /\ txs[call[g].tx].kind = call[g].kind /\ txs[call[g].tx].target = call[g].target
       /\ At(g, "done") => txs[call[g].tx].status \in Mined
  /\ \A s \in Senders : deposit[s] = Cardinality(Deposits(s))
  /\ \A i \in DOMAIN txs : txs[i].kind = "DeployAccount" /\ txs[i].status = "success" =>
       Account(txs[i].target) \in code

\* Why transactions of one key stay apart, an executed batch is not sent again,
\* and a receipt is worth what the caller takes it for (client.go:217-291).
Accounted ==
  /\ MinedInOrder
  /\ Rotates
  /\ TurnsCounted
  /\ TurnsApart
  /\ BatchesHold
  /\ CallsAreTold
  /\ ReceiptsHold

-----------------------------------------------------------------------------
(* Liveness.                                                                *)

\* Every call returns, except that without a deadline Prefund and DeployAccount
\* wait for as long as their transaction is not mined: for good, if it was dropped
\* or replaced (client.go:277, 290).
CallsReturn ==
  /\ \A g \in Deadlined : Calling(g) ~> ~Calling(g)
  /\ \A g \in Goroutines :
       Calling(g) ~> (~Calling(g) \/ (At(g, "wait") /\ txs[call[g].tx].status \notin Mined))

-----------------------------------------------------------------------------
(* What the repository's texts say and the code does not do.                *)

\* client.go:280 "DeployAccount deploys the smart account": the account whose
\* address it is given has code when it returns a receipt that tells success.
AccountIsDeployed ==
  \A g \in Goroutines :
    /\ Finished(g, "DeployAccount") /\ call[g].target = Account(Owner)
    /\ txs[call[g].tx].status = "success"
    => Account(Owner) \in code
=============================================================================
