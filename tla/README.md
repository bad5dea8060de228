# TLA+ models of aa-sdk-go

`aasdk` is a Go SDK for ERC-4337 account abstraction. A program creates a
`Client` from a `Config` and an optional LRU cache, builds `UserOperation`
objects, and lets the client fill, sign and send them to a bundler over
JSON-RPC, or execute them directly through the EntryPoint contract with keys
from a pool of executor signers. This directory holds TLA+ models of the SDK
and of the event functions of its generated contract bindings, TLC
configurations that check them on small instances, and proofs that TLAPS checks
for every value of the constants.

To reproduce: `tlc -config UserOpsRetry.cfg MCUserOps` and likewise for the
other configurations below, and `tlapm` with each of `UserOpsProofs.tla`,
`UserOpsRefinement.tla`, `SignerProviderProofs.tla`, `ExecutorProofs.tla`,
`WaitOpProofs.tla`, `AccountsProofs.tla`, `EncodingProofs.tla`,
`EventsProofs.tla`.

## 1. Inventory of the system

| Part (source) | State it keeps | Operations | Talks to |
|---|---|---|---|
| Filling, signing, sending (`client.go` 109-207, `bundler.go` 97-124, 147-181, `paymaster.go`, `sign.go`, `types.go`, `utils.go`) | the fields of the caller's `UserOperation`, written in place; `Client.id`, an atomic request counter | `FillAndSign`, `SignUserOp`, `SendUserOp`, `GetUserOpHash`, `ToBody`, `call` | node (nonce, code), bundler (HTTP) |
| Executor signer rotation (`rotator.go`) | `signers`, `index`, an `RWMutex` | `Next`, `Add`, `Count` | called by the direct execution |
| Direct execution (`client.go` 210-264) | none of its own | `HandleOps`, `HandleAtomicOps` | rotation, node (transactions) |
| Receipt polling (`bundler.go` 21-34, 126-145) | a ticker, a deadline, the caller's context | `GetUserOpReceipt`, `WaitForUserOperation` | bundler |
| JSON-RPC decoding (`bundler.go`, `types.go` 134-185) | none | the typed responses, `errorResponse` | bundler |
| Address lookup (`client.go` 83-97, `cache.go`) | an LRU cache that the caller may hand to several clients | `GetAccount`, `Get`, `Set` | node (`getAddress`) |
| Deposits and deployment (`client.go` 266-291) | none | `Prefund`, `DeployAccount` | node (transaction, receipt) |
| Packing (`utils.go`, `paymaster.go`) | none, pure functions | `HexToBigInt`, `PackInt`, `PackPaymasterAndData`, `PackUserOperation`, ... | used by filling and execution |
| Construction and accessors (`client.go` 30-80, 293-311) | constant after `NewClient` | | |
| Bindings: events (`bindings/`, generated by abigen) | an iterator's channel, `done` and `fail`; a watching goroutine and the event it holds | for each of 16 events `FilterX` with `Next`, `Error`, `Close`; `WatchX`; `ParseX` | node (logs), go-ethereum's `bind` and `event` |
| Bindings: calls (`bindings/`) | none | one wrapper per contract method | node |

What makes each part hard, and what makes it correct:

- *Filling and sending.* `FillAndSign` is not atomic: it reads the nonce, then
  the account's code, then signs twice, and everything it has written stays in
  the object when a later step fails. An error from `SendUserOp` does not mean
  that the bundler did not accept the operation, so callers retry; the object
  they retry with is half filled, filled, or already executed, and the account
  may have been deployed or used by another operation meanwhile. Correct means:
  no object executes twice, a superseded one never executes later, both
  signatures cover what is sent, and the hash the caller holds is the one to
  look up.
- *Rotation.* Many goroutines take turns and add keys under a read-write mutex,
  `HandleOps` tests `Count` in one critical section and calls `Next` in
  another, and the slice the provider keeps belongs to its caller. Correct
  means a fair round robin, no nil key, and no lock left behind.
- *Direct execution, deposits, deployment.* A call estimates its gas on the
  present state, reads the pending nonce of its key and sends, in three
  exchanges with the node; other goroutines do the same with the same keys, and
  the chain moves on between any two. A transaction may be mined, revert, be
  refused, replaced or dropped, and the answer to sending it may be lost.
  Correct means that the rotation keeps the keys' transactions apart, and that
  what a call returns is true of the chain.
- *Events.* Logs come through a bounded channel, their end or failure through
  another, and a select takes either first; the caller closes at any moment, or
  stops to receive. Correct means that the caller gets exactly the events it
  asked for, in order, that it learns when some are missing, and that no
  goroutine stays behind.
- *Polling.* Two timers, a cancellable context, a select that chooses at
  random, and an HTTP exchange that none of them interrupts. Correct means that
  no receipt is missed that was there in time, and that the call ends, soon
  after its context does.
- *Address lookup.* Check-then-set across a remote call on a shared cache with
  eviction. Correct means that a cached answer is the node's answer.
- *Packing.* Fixed-width fields and hex strings; correct means that the reader
  gets back what was packed.

The full list, each hazard at its line with the properties that look for it, is
in `PROJECT.json` under `hazards`.

## 2. Modules

| Module | Models | Composes / extends |
|---|---|---|
| `UserOps` | filling, signing, sending, and the bundler and chain around them | refines `OpLedger` |
| `OpLedger` | what a program may rely on when it sends and retries objects | |
| `UserOpsProofs`, `UserOpsRefinement` | theorems about `UserOps`; that it implements `OpLedger` | `UserOps`, `TLAPS` |
| `Rotation` | the abstract round robin that the `Rotator` interface promises | |
| `SignerProvider` | `RoundRobinSignerProvider` and its use by `HandleOps` | refines `Rotation` |
| `SignerProviderProofs` | theorems about `SignerProvider`; that it implements `Rotation` | `SignerProvider`, `TLAPS` |
| `Executor` | `HandleOps`, `HandleAtomicOps`, `Prefund`, `DeployAccount`, the node's pool and the chain | extends `Rotation` |
| `ExecutorProofs` | theorems about `Executor` | `Executor`, `TLAPS` |
| `WaitOp` | `WaitForUserOperation` in discrete time | |
| `WaitOpProofs` | theorems about `WaitOp` | `WaitOp`, `TLAPS` |
| `Accounts` | `GetAccount` and the LRU cache | |
| `AccountsProofs` | theorems about `Accounts` | `Accounts`, `TLAPS` |
| `Responses` | the decoding of the bundler's responses by each method | |
| `Encoding` | hex, integer and paymaster packing | extends `Responses` |
| `EncodingProofs` | theorems about the conversions and the responses | `Encoding`, `TLAPS` |
| `EventBindings` | the 16 events: their ABIs, and the rules and fields of their generated code | |
| `Events` | the generated iterators, watching goroutines and parsers | extends `EventBindings` |
| `EventsProofs` | theorems about `Events` | `Events`, `TLAPS` |
| `MC*` | small instances of each for TLC | |

### UserOps

`userOp[o]` holds the fields of object `o` that `FillAndSign` writes (nonce,
`InitCode`, the factory pair, paymaster data, signature); `call[o]` is the
position of the one SDK call in progress with it. The steps follow the remote
calls: `Start` and `StartWithoutSender` (client.go 109-113), `FillNonce` (the
EntryPoint's `getNonce`), `FillInitCode` (`CodeAt` and the init code), `Sign`
(client.go 134-191 is local and so one step), `Post`, `Receive`. `NodeFails`,
`SignPanics` and `CallFails` are the error paths; `CallFails` covers every loss
between the written request and the decoded response, and does not undo the
request. The bundler, EntryPoint, HTTP and other users of the account are
external actions: `Deliver`, `ProxyAnswers`, `Include`, `Drop`,
`AccountDeployed`.

Data: a hash is the record of what it covers and a signature the hash it signs.
The gas fields, call data and chain never change between fills, so the object's
name stands for them. `BundlerHash` computes the hash from the request body as
ERC-4337 prescribes: init code is factory and factory data, and
`paymasterAndData` is empty without the paymaster field. The node answers from
its current state. The nonce key is the object's salt (client.go 114), by
which the account's address is derived as well (121): objects of one account are
taken to have that account's salt, so that an account has one sequence of nonces.
Objects that name another salt for an account that has code would have a sequence
of their own and are outside the model. A panic (nil `VerifyingSigner`) is assumed to be recovered by the
program, which may call again. An object is driven by one goroutine at a time;
concurrent calls with one pointer are a data race by the caller and are outside
the model. Different objects, of one account or of several, interleave freely.

`OpLedger` is the abstraction: an account executes objects of its own one after
the other, none twice, and an object is lost only when another one of its
account executes, and then for good. The mapping reads the objects off the
ledger, and calls an object lost when its nonce is taken and it has not
executed (`Order`, `Lost`); everything else is a stutter.

### SignerProvider, Rotation

Every access to `p.mu`, `p.index` and `p.signers` is a step: `Lock`, `Load`,
`Store`, `Pick` for `Next` (rotator.go 35-44), `AppendSigner` for `Add`,
`RLock`, `ReadLen` for `Count`. `HandleOps` and `HandleAtomicOps` run `Count`
and then `Next` with the lock free in between, and panic on an empty provider.
`Rotation` says what the interface comment promises without an index: signers
`waiting` for their turn in this round and those that `passed`. The refinement
cuts `signers` at the cursor, taken before the step in progress until `Pick`.

### Executor

The rotation is the abstract one: `SignerProvider` is shown to implement it, and
`HandleOps` uses it through `Count` and `Next` only. Any key may be in it, at the
start or by `Add`: one that is there already, the verifying signer's and an
owner's too, as neither `rotator.go` nor `Config` keeps them apart. A program is a
sequence of requests, each made by any goroutine. Each call goes through
`Begin` (with the panics for an empty rotation, missing `ExecutorSigners` and a
nil `VerifyingSigner`, `Panics`), `Rotate`, and the three steps
that go-ethereum's `bind` takes for a transaction without gas limit and nonce:
`Estimate`, `ReadNonce`, `Send`. `Prefund` and `DeployAccount` use fixed keys
and then wait (`TakeReceipt`, `ContextEnds`). The node is external: it counts
pending nonces, refuses or replaces a transaction whose nonce is taken
(`Refuse`, `Send`), mines in nonce order and drops. `Send` may lose the answer.
Any transaction may revert when it is mined: gas, the paymaster's deposit,
validity windows, accounts created meanwhile and the operations' own calls are
left out, and with them the causes. Only what a success needs is kept, that the
EntryPoint accepts the nonces of a batch (`Validates`), and what an estimate
refuses, an operation that was executed before it (`Simulates`).
A transaction carries what the properties need to know of its call: its number,
the turn of its key and the length of the round, and, once mined, how many calls
had begun by then.

### WaitOp

Countdowns instead of clocks: `toTick`, `toDeadline`, and `age` of the exchange.
`Tick` passes one unit of time and is disabled by anything that is due
(`Urgent`), so a ready select case is taken at that instant; what is due at the
same instant happens in any order, which is how Go's random choice and the
scheduler appear. `channel` is `ticker.C` with its capacity of one. An exchange
takes up to `latency`, or hangs (`Hang`): `http.DefaultClient` has no timeout, and
from then on only time passes. `available`
and `overdue` are history variables for the properties.

### Accounts

An address is the record `[factory, owner, salt]` that CREATE2 derives it from.
`GetAccount` looks up, queries and stores in three steps; the cache is an LRU
sequence that several goroutines and clients share.

### Responses

A response is not JSON or an object whose fields are missing, null, of the
struct's type or of another; `encoding/json` is modelled by which of these the
Go types accept (null fits a pointer or a slice and not a `common.Hash`; a
`[]byte` wants base64). `Response` is what each of the four methods returns.

### Encoding

`HexToBigInt`, `PackInt` and `PackPaymasterAndData`, on which `PackUserOperation`
and the fields of `EstimateUserOpGas` rest, as functions on sequences of
digits and bytes; each is called once with every argument of the instance.
`Base` (16 in the code), `HalfWidth` (16) and the width of an address are small
here: the code's behaviour depends only on whether a value fits half a word and
on the parity of the digits, and both sides of each occur: what is said of a number
too wide, or of an odd number of digits, is what is lost. The methods of
`Responses` are called in the same way, with every response. `NumberOf`, the
number that digits write, stands for `big.Int.SetBytes` on bytes; the properties
use it on hex digits.

### EventBindings, Events

abigen writes the same text for every event, up to the names, the indexed
arguments and the struct: the generated blocks of the three bindings were
compared with that text, and none differs otherwise. `Events` models the text
once, from the block of `UserOperationEvent`, and `EventBindings` has a row for
every event with what varies: the event's arguments in the ABI, the rules in
the order in which the code hands them over, the fields of the struct. A row
stands for its whole block, which is why it maps to it. In a behaviour one event
is filtered, watched or parsed, by one caller, over a chain of logs that
include those of another contract, of another event, and one that does not
decode. `NextTakes`, `NextCompletes`, `NextFindsNothing` and `NextFailed` are
the exits of `Next`; `WatchTakes`, `Forward`, `WatchFails` and `WatchQuits`
the cases of the two selects of `WatchX`. The goroutine that fills the channel
(`Push`) and the end of the node's subscription are external. A caller that
does not receive is one that takes no `Forward` step. A log on its way is its
place on the chain, so that equal logs are told apart: `Expected` and `Bad` are
the places of the logs the caller asked for, with and without those that do not
decode, and `Got` says that the events delivered are those at some places, each
once and in order.

## 3. Runs

Runs that pass:

| Run | States | What it shows |
|---|---|---|
| `user_ops_retry` | 1.0 million | Two interchangeable objects of one account and one without a sender, two calls with each, every configuration, an account deployed at the start or not, any loss and delay. `ImplementsOpLedger` (and with it `AtMostOnce`), `PaymasterCoversOp`, `HashStableOnceDeployed`, `ReturnedHashIsExecuted`, and the inductive invariants `FilledOnce` and `OneExecutionHash` hold. |
| `signer_provider` | 404 thousand | Two goroutines, a provider created empty or with two signers, six operations of any kind: it implements `Rotation`; `EvenShare` bounds every signer's turns, counted from the round in which it joined, also across Adds; `HandleOps` never gets a nil key; every operation returns (liveness). |
| `executor` | 792 thousand | Two goroutines, no or one key and one that joins, which may be the same, two or three calls, clients with and without signers: transactions clash only when the rotation has gone round, if their key is in it once and signs nothing else (`ClashOnlyIfLapped`); a batch that was executed is sent again by no later call (`ExecutedIsNotResent`); a call sends once, also when it does not learn of it (`SentOncePerCall`); a receipt is that of the call's own transaction, and deposits and accounts are what the successful ones made (`PrefundIsThere`, `OwnerIsDeployed`); every call returns, except those that wait without a deadline for a transaction that is not mined (liveness). `Accounted` is the inductive invariant. |
| `wait_op` | 185 thousand | 96 settings of interval, timeout and latency, and exchanges that hang: `NoReceiptMissed`, `ReturnsInTime`, and `Returns` (liveness), the last two unless the exchange hangs. `PollsKeepUp` is the inductive invariant. |
| `accounts` | 4.5 thousand | Two clients of one factory with one cache entry for two keys, and one of another factory without a cache: `AnswersAreRight`. |
| `encoding` | 154 thousand | Every argument of the instance: which digits of an estimate are read (`EstimateReadsPairs`), which packed values read back and which do not (`PackIntSplits`, `PaymasterFieldsSplit`), that errors of the bundler are reported and when with its message (`ErrorIsReported`), and what is returned otherwise (`AnswerIsTheirs`). |
| `events` | 724 thousand | All 16 events: the caller gets the events it asked for, in order (`DeliversInOrder`); when `Next` returns false, `Error` tells whether any are missing (`FalseTellsTheTruth`); a failure is final; `Next` returns, and `Close` and `Unsubscribe` release the goroutine (liveness). |

Runs that end in a violation, each of one statement made by the repository's
own texts (section 5): `user_ops_stale_factory`, `user_ops_no_paymaster`,
`accounts_two_factories`, `executor_deploy`, `encoding_quantity`.

Bounds, and why they are enough:

- `MaxCalls = 2` calls per object, two objects of one account. A second call is
  a retry; two objects are the least that compete for a nonce. The theorems
  below hold for any number of both. Accounts do not interact, so one account is checked. The request
  counter `id` and the requests under way are bounded by the calls.
- `MaxOps = 6` operations over a behaviour of `SignerProvider`: enough for a
  full round of three signers with an Add inside it. With fairness the bounded run stops; deadlock checking is off for that
  reason, and `OperationsReturn` looks for the stuck goroutine instead.
- `Executor`: two goroutines and three calls are the least for a clash and a
  retry after it; a rotation of one key makes every second turn a new round, and
  the second key, which joins between any two steps, changes the length of the
  round under a call. The key that the rotation starts with may join a second
  time, and is the verifying signer's and the owner's too, the other only joins:
  so there are keys of the rotation alone and shared ones. The programs
  (`Repeats`) repeat a batch while one with an operation in common is under way,
  and a deposit around a batch, and let a deployment meet a batch or a deposit on
  its key.
- `Events`: three logs, a channel of two: full and empty channels, a log that
  does not decode before, between and after others. The rules ask for one
  argument at a time, with one value that is asked for and one that is not:
  the code treats arguments and values alike.
- `WaitOp` needs no bound: countdowns are finite, and the history counters stop
  at the timeout and just over the latency. Settings have the interval below,
  at and above the latency, and timeouts that are and are not its multiples.
- Two clients on the cache in `Accounts` have one factory, so that a cached address
  is good for both; the third has another, so that an answer from the wrong
  factory would show. `Capacity = 1` and two keys in `Accounts` make every second lookup an
  eviction; `MaxCalls = 4` lets a call miss, be overtaken, be evicted and be
  asked again.
- `MaxDigits = 7`, `MaxData = 2`, numbers 0..40 with half words of two bytes of
  four values (0..15 fit, 16..40 do not): see section 2.

Deadlock checking is off in all runs: each bound lets the system stop, as a
program does that makes no more calls.

## 4. Fairness

Four runs need fairness.

- `SignerProvider!FairSpec`: a running goroutine is scheduled (weak fairness of
  its steps), and a goroutine that waits for the mutex gets it (strong fairness
  of `RLock` and `Lock`): Go's mutex hands itself to the longest waiter after a
  millisecond, and a waiting writer holds off later readers. Nothing makes a
  goroutine start an operation.
- `WaitOp!FairSpec`: time passes and timers fire; the goroutine runs; an
  exchange that has not hung ends with an answer or an error; and `GiveUp`
  is strongly fair because Go picks at random among ready cases of a select, so
  it does not pass over `ctx.Done` for ever, even when polls are so slow that a
  tick is always waiting. That an exchange ends is not assumed: it may hang at any
  moment, and then the call never returns, which `Returns` excepts.
- `Executor!FairSpec`: a goroutine in a call runs, which includes that the node
  answers or fails, and the context of a caller in `Deadlined` ends. Nothing is
  assumed of the chain, which need not mine, or of the other contexts, which need
  not end: `CallsReturn` says which calls then wait.
- `Events!FairSpec`: the goroutines of `bind`, of the iterator's caller inside
  `Next`, and of `WatchX` run, and a `WatchX` whose `quit` is closed sees that
  (weak fairness: `quit` stays closed, and each round of its loop waits for it).
  The node need not fail, the caller need neither call `Next` again, nor
  receive, nor close.

The other runs use no fairness.

## 5. Findings

Each is a run in which TLC finds the behaviour; the quotes are in
`PROJECT.json`.

1. *Stale factory* (client.go 131). For an account with code `FillAndSign`
   empties `InitCode` only. An object first filled before the account was
   deployed keeps its factory, sends it, and is refused on every retry.
2. *No paymaster address* (client.go 143, documented as optional). The
   signature covers 52 bytes and the paymaster data; the request omits them.
3. *Cache key without factory* (client.go 87). Two clients with different
   factories on one cache get each other's addresses.
4. *DeployAccount's account* (client.go 286) is used as an owner.
5. *Odd hex quantities* (utils.go 80) lose their last digit.

Seen while modelling, in the models or plain from the code, and without a run of
their own:

- a nil `VerifyingSigner`, documented as optional, panics on every fill
  (`SignPanics`) and in `Prefund`, and missing `ExecutorSigners`, optional as well,
  panic in `HandleOps` and `HandleAtomicOps` (`Panics` in `Executor`);
- `PackInt` panics on one nil argument where its comment
  promises zero padding (`PackInt` in `Encoding`);
- a JSON object without result and error makes `SendUserOp` return the zero hash
  and a nil error (`ProxyAnswers` in `UserOps`, `Answer` in `Responses`);
- return data of an even number of bytes makes a receipt undecodable
  (`ReturnDataDecodes`);
- an error beside a null result, which does not decode as a hash, makes
  `SendUserOp` report its own decoding in place of the bundler's message
  (bundler.go 109, `ErrorIsReported`);
- a gas value of more than 16 bytes is packed without an error and lost, the
  fields behind it shifted (`PackIntSplits`, `PaymasterFieldsSplit`);
- an HTTP exchange that never ends keeps `WaitForUserOperation` past its deadline
  and the caller's cancellation (`Hang`);
- a key that was added to the rotation twice, or that verifies or owns accounts as
  well, may clash within one round: a transaction is refused, or replaced although
  its hash was returned;
- the receipt of a reverted transaction comes with a nil error (`TakeReceipt`), and
  a `Prefund` repeated after a lost answer deposits twice (`PrefundIsThere` says
  one deposit for each call);
- an account deployed by a request whose answer was lost: the object, filled again
  by `GetUserOpHash`, has another hash than the one executed;
- a transaction that is dropped or replaced keeps `Prefund` and `DeployAccount`
  waiting until their context ends (`CallsReturn`);
- `HandleOps` returns `HashedUserOp` of its operations (client.go 229), the
  inner hash without EntryPoint and chain id, by which no receipt is found;
- the rotation keeps the caller's slice (rotator.go 30): with spare capacity two
  providers made from it would append into one cell. A slice literal, as in the
  tests and examples, has none.

## 6. Proofs

`UserOpsProofs`, for any sets of objects, accounts and configurations, any
assignment of senders and any bound on calls, from `UserOpsAssumption` alone
(`Nil` is none of the values, `Sender` and `Configs` have their types):

- `TypeCorrect`: `Spec => []TypeOK`. `TypeOK` includes how far an object is
  filled at each point of its call, which later proofs need to know that a sent
  body has a nonce and both signatures.
- `FillInvariant`: `Spec => []FilledOnce`, the inductive invariant. `AtMostOnce`
  is not inductive: it must be known that all bodies of an object under way
  carry one nonce, the one in the object (`NoncePinned`), and that an account's
  ledger holds its objects in the order of these nonces (`LedgerInNonceOrder`).
  Then a second execution of an object would need its nonce to be both an old
  index of the ledger and its length. `SignedTogether` and `EmptyMeansDeployed`
  tie the signatures to the fields, for the paymaster and hash properties.
- From it `ExecutesAtMostOnce`, `LostNonceIsFinal` (`SupersededNeverExecutes`,
  an action property), `PaymasterCovers` and `StableHash`
  (`HashStableOnceDeployed`, an action property).

`UserOpsRefinement`: `UserOpsImplementsOpLedger`, `Spec => ImplementsOpLedger`,
for the same parameters. Only `Include` is more than a stutter (`LedgerGrows`).
`IncludeExecutes` shows that it is an abstract `Execute`: by `FilledOnce` the
object has not executed and is not lost, since its nonce is the length of the
ledger, and what becomes lost in the step belongs to the same account.
`QuietKeepsLost` shows that no other step loses or regains an object: a nonce
once written stays (`NonceStays`), and a nonce is written with the ledger's
length of that moment (`NonceIsFresh`).

`WaitOpProofs`, for every positive interval and timeout and any latency, from
`WaitAssumption`: `PollInvariant` (`PollsKeepUp`, with `Ranges` for the
countdowns), and from it `NoMissedReceipt` and `InTime`. `PollsKeepUp` relates
the time the receipt has been there to the poll under way, or to how long the
ticker has run since; with exchanges shorter than the interval it also says
that a poll starts at its tick, so that no second tick is waiting when the
context ends.

`HashInvariant` and `ReturnedHash` (`UserOpsProofs`): the hash that `SendUserOp`
returned is the one under which the object executes. The obstacle is a retry: an
object that was sent may be filled again after its account was deployed, and
then has another hash. `OneExecutionHash` says why this does no harm:
`ExecutionHash(o)` is the hash of the object with the factory that it holds now.
Whatever an account has executed was executed under it (`ExecutedAsFilled`); a body
under way can execute under no other, since one that carries another factory than
its signature covers is refused (`SentAsFilled`); and the answers about the object
(`AnswersMatch`) and the result of its last call (`ReturnedAsFilled`) carry it.

`SignerProviderProofs`, for any goroutines, signers and initial rotation, from
`ProviderAssumption`:

- `TypeCorrect`: `TypeOK` holds the mutex discipline (a writer is alone, readers
  are those inside), without which a step between two accesses of `Next` could
  not be excluded.
- `RoundRobinInvariant`: what a goroutine read under the lock is still so
  (`IndexIsCurrent`, `CountedStay`), and every signer's turns are determined by
  its side of the cursor (`TurnsByCursor`). `SharesAreEven` is arithmetic from
  there, and `HandleOpsIsServed` follows because signers are never removed.
- `ProviderImplementsRotation`: `Spec => ImplementsRotation`. `PickTakesTurn` and
  `AppendJoins` are the two steps that are not stutters; the cursor is taken as
  before the step in progress from `Store` to `Pick`.

`ExecutorProofs`, for any goroutines, keys, uses of keys, accounts, batches and
programs, from `ExecutorAssumption`, which gives the constants their types and
nothing more. `AccountedInvariant` (`Accounted`) is the inductive invariant; with
`TypeOK` it gives the five properties:

- `ClashesAreLapped`. Two transactions clash only if they have a key and a nonce
  in common. `KeepsPlace` says that whoever took turn `t` of a round of `n` keys
  finds its key not before turn `t + n` again, although keys join in between
  (`TurnOrder`, `JoinOrder`, `PlaceKept`), if the key is in the rotation once: so
  two holders of it are a round apart (`TurnsApart`), and `ClashStep` finds the
  holder that took the nonce, which by `Dedicated` is no deposit or deployment. A
  key's mined nonces have no gap (`MinedInOrder`), and there is a pending nonce
  at all, by `FirstFree`, an application of the pigeonhole principle.
- `ExecutedBatchesStay`. An operation that was executed has used its nonce, and
  nonces only grow (`ChainGrows`), so an estimate made later refuses it; a call
  that has passed its estimate had therefore begun before the operation was
  executed (`BatchesHold`).
- `CallsSendOnce`. Calls are told apart by their number, which a transaction
  carries, and one that has yet to send has sent nothing (`CallsAreTold`).
- `PrefundsCount` and `OwnerGetsAccount`. Whoever waits, waits for a transaction
  of its own, which does what it asked for, and the chain has what the successful
  transactions did (`ReceiptsHold`). By `CallsSendOnce` transactions and the calls
  that sent them are equally many.

`AccountsProofs`, for any goroutines, clients, keys and capacity, from
`AccountsAssumption`: `TypeCorrect` (no key twice, no more entries than the
capacity) and `PeersAnswer` (`AnswersComeFromPeers`, the inductive invariant): whatever is in the cache, is about to be stored, or
was returned, is the address that some client of that cache computes. This holds
for any factories. `AnswersRight`, that the answer is the caller's own, has the
hypothesis that the clients of the cache have one factory; the code does not see
to that, and the run `accounts_two_factories` shows that it is needed.

`EncodingProofs`, for every base, width, number and length, from
`EncodingAssumption`:

- `ErrorsAreReported` and `AnswersAreTheirs`, by cases over the forms of a response
  (`ErrorKinds`, `ResultKinds`) and the methods. The first also says when the
  bundler's message gets lost, the second for which methods a missing result passes
  for the zero value.
- `EstimatesAreExact`, `IntsSplit` and `PaymastersSplit` rest on what the recursive
  functions compute, which needs induction. The library's induction theorems take
  an operator and cannot be used; `Induction` states it of a set of numbers and
  is proved by counting: if a number were missing, the numbers below the gap would
  be one fewer than they are. `BigBytes` and the function in `NumberOf` exist and
  are unique (`BytesExist`, `BytesOnce`, `WritesExists`, `WritesOnce`), so that
  they may be unfolded (`BigBytesIs`, `NumberOfMore`).
- `RoundTrip`: `SetBytes` undoes `BigBytes`; zeros in front do not count
  (`NumberOfPadded`), and the cuts fall where the parts meet (`Front`, `Between`,
  `Behind`). What is cut from a number that does not fit has at most half a word,
  and so is another number, since bytes never write a number with a longer text
  than they are (`Shorter`): `ReadFits`, and from it `HalvesRead`, `JoinedParts`
  and `JoinedIs`, which hold for numbers of any size and a paymaster address of
  any length.
- `PairsWrite`: pairs of digits are digits of the squared base. `PairsAre`: the
  pairs that `Hex2Bytes` keeps are the longest run of good ones.

`EventsProofs`, for all 16 events, any logs on the chain and any buffer, from
`EventsAssumption`:

- `Table` goes through the rows of `EventBindings`: each has its rules in the
  order of its topics and a field for each argument. Hence the node's filter
  gives what the caller asked for (`MatchesAsked`), and a log becomes an event
  with every argument in its place (`EventOfLog`).
- `StreamsInvariant`: what is still to come, whether in the channel, held or not
  yet pushed (`Remaining`), comes in the order of the chain (`InOrder`), and as
  long as the use goes on, everything else was delivered (`NothingIsLost`).
  `DeliversInOrder` alone is not inductive: it does not say that the next event
  is behind the last. `Progress` reduces the 15 actions to four cases: nothing
  happens to the stream, it stops, it opens, or its least element is taken.
- `Delivery` and `FalseIsTrue` follow: an iterator that is done without an error
  and was not closed has an empty channel and nothing to be pushed
  (`EndsAfterLast`), so everything was delivered. `FailuresAreFinal` is an
  action property.

`WaitOpProofs!TypeCorrect` gives the ranges of timers and channel as well.

The proofs that an invariant is kept have one step per action, or per group of
actions that change the same variables. The runs check the inductive invariants
`FilledOnce`, `OneExecutionHash`, `PollsKeepUp` and `Accounted`; `RoundRobin`,
`Streams` and `AnswersComeFromPeers` stand behind `EvenShare`, `DeliversInOrder`
and `AnswersAreRight`, which the runs check, and hold as well when they are added
to `SignerProvider.cfg`, `Events.cfg` and `Accounts.cfg`.

Only model-checked: everything under fairness (`Returns`, `OperationsReturn`,
`CallsReturn`, `NextReturns`, `CloseReleases`), which is out of the prover's
reach.

## 7. Not modelled

- The wrappers of the bindings that hand one call, with its arguments, to
  `bind.BoundContract` (`Call`, `Transact`), their session variants, and the
  constructors: they have no state and no path of their own. Of the SDK's five
  (`getNonce`, `getAddress`, `handleOps` and its atomic form, `depositTo`,
  `createAccount`) the effects are actions of `UserOps`, `Accounts` and
  `Executor`.
- `NewClient`, the accessors and `GetAccountBalance`: no state changes after
  construction, and one answer of the node is passed on. `PackTransferData` and
  ABI encoding, Keccak and ECDSA: libraries, represented by what they
  distinguish.
- The operation hashes that `HandleOps` and `HandleAtomicOps` return: functions of
  the arguments (see section 5).
- The examples: straight-line programs, on one goroutine, over calls that the
  modules model.
- `PackUserOperation`, field by field: it puts each field of an operation into its
  place with `PackInt` and `PackPaymasterAndData`, which are modelled.
- Why a transaction reverts: gas, the EntryPoint's deposits of accounts and
  paymasters, validity windows, senders created meanwhile, operations whose own
  call fails in an atomic batch; and nonces moved by the bundler or by others. The
  properties of `Executor` hold for whatever reverts.
- The caller's backing array behind the rotation (see section 5), and a salt of
  more than 192 bits or none, which is used as the nonce key (client.go 114).
- Objects of one account with several salts, and so several nonce sequences.
- Nodes that answer from an old block, and chain reorganisations: the SDK reads
  the latest state and has no code for either.

## 8. Plan

Every safety property that a passing run checks is proved. What may follow:

1. an abstract specification of an event stream (the events asked for come one by
   one, and then an end or a failure), with `Events` shown to implement it, for
   the iterator and for the watching goroutine;
2. an abstract specification of a wait (a receipt in time is returned, and an
   error only after the deadline or a failed poll), implemented by `WaitOp`;
3. action properties of `Executor` and `Accounts` from the invariants there are:
   what a transaction carries never changes, and a cached address neither;
4. `HexText`, the text of a number, with the lemma that it is read back exactly
   when it has an even number of digits (`encoding_quantity` shows the others).
