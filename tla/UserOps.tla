------------------------------ MODULE UserOps ------------------------------
(***************************************************************************)
(* The life of UserOperation objects in the SDK: FillAndSign (client.go),   *)
(* which fills the caller's object in place around two node reads and signs *)
(* it twice, SendUserOp and GetUserOpHash (bundler.go), which call it, and   *)
(* the JSON-RPC exchange with the bundler.  Each object is driven by one    *)
(* goroutine at a time; goroutines of different objects, the bundler and    *)
(* the chain interleave between any two remote calls.                       *)
(*                                                                         *)
(* Data is abstracted to what the hashes tell apart: the gas fields and the *)
(* call data of an object never change after NewUserOpWithDefault, so the   *)
(* object itself stands for them; a Keccak hash is the record of what it    *)
(* covers; a signature is the hash it signs.                                *)
(***************************************************************************)
EXTENDS Naturals, Sequences

CONSTANTS
  Ops,       (* the UserOperation objects the program creates               *)
  Accounts,  (* smart accounts: an owner and a salt                         *)
  Sender,    (* Sender[o]: the account of object o, Nil if left empty       *)
  Configs,   (* the configurations a client may be created with             *)
  MaxCalls,  (* bound: SDK calls made with one object                       *)
  Nil        (* a nil pointer, an empty byte string, the zero hash          *)

Code == {"none", "create"}  \* init code: absent, or factory ++ createAccount(...)

PaymasterHash == [op : Ops, nonce : Nat, initCode : Code]

UserOpHash == [op : Ops, nonce : Nat, initCode : Code,
               paymasterData : PaymasterHash \cup {Nil}]

ASSUME UserOpsAssumption ==
  /\ Nil \notin Nat \cup Accounts \cup PaymasterHash \cup UserOpHash
  /\ Sender \in [Ops -> Accounts \cup {Nil}]
  /\ Configs \subseteq [paymaster : BOOLEAN, verifyingSigner : BOOLEAN]
  /\ MaxCalls \in Nat

VARIABLES
  config,    \* Config: is a paymaster address set, is a VerifyingSigner set
  userOp,    \* userOp[o]: the fields of object o that FillAndSign writes
  call,      \* call[o]: the SDK call in progress with object o
  result,    \* result[o]: what the last finished call with o returned
  calls,     \* calls[o]: number of calls made with o (bounds the model)
  id,        \* Client.id, the atomic JSON-RPC request counter
  wire,      \* eth_sendUserOperation requests the bundler has not yet read
  replies,   \* HTTP responses not yet read by the goroutine that waits
  pool,      \* bodies accepted by the bundler
  deployed,  \* accounts that have code
  ledger     \* ledger[a]: hashes executed by the EntryPoint for account a

clientVars  == <<userOp, call, result, calls>>
networkVars == <<id, wire, replies>>
chainVars   == <<deployed, ledger>>
vars == <<config, clientVars, networkVars, pool, chainVars>>

Methods == {"SendUserOp", "GetUserOpHash"}

Blank == [nonce |-> Nil, initCode |-> "none", factory |-> "none",
          paymasterData |-> Nil, signature |-> Nil]

Idle == [pc |-> "idle", method |-> "none", id |-> 0]

NoResult == [method |-> "none", status |-> "none", hash |-> Nil]

Init ==
  /\ config \in Configs
  /\ userOp = [o \in Ops |-> Blank]
  /\ call = [o \in Ops |-> Idle]
  /\ result = [o \in Ops |-> NoResult]
  /\ calls = [o \in Ops |-> 0]
  /\ id = 0
  /\ wire = {}
  /\ replies = {}
  /\ pool = {}
  /\ deployed \in SUBSET Accounts
  /\ ledger = [a \in Accounts |-> <<>>]

-----------------------------------------------------------------------------
(* Returning from a call.                                                   *)

Return(o, status, hash) ==
  /\ call' = [call EXCEPT ![o] = Idle]
  /\ result' = [result EXCEPT ![o] =
                  [method |-> call[o].method, status |-> status, hash |-> hash]]

At(o, pc) == call[o].pc = pc

Goto(o, pc) == call' = [call EXCEPT ![o].pc = pc]

-----------------------------------------------------------------------------
(* FillAndSign.                                                             *)

\* Faulty variants: the nonce is fetched on every fill, or never.
AlwaysFetchNonce(o) == TRUE
NeverFetchNonce(o) == FALSE

\* A nonce is fetched only into an object that has none.
NeedsNonce(o) == userOp[o].nonce = Nil

Start(o, method) ==
  /\ At(o, "idle")
  /\ calls[o] < MaxCalls
  /\ Sender[o] # Nil
  /\ calls' = [calls EXCEPT ![o] = @ + 1]
  /\ call' = [call EXCEPT ![o] =
       [pc |-> IF NeedsNonce(o) THEN "nonce" ELSE "initCode",
        method |-> method, id |-> 0]]
  /\ UNCHANGED <<config, userOp, result, networkVars, pool, chainVars>>

\* The early return for an empty sender.
StartWithoutSender(o, method) ==
  /\ At(o, "idle")
  /\ calls[o] < MaxCalls
  /\ Sender[o] = Nil
  /\ calls' = [calls EXCEPT ![o] = @ + 1]
  /\ result' = [result EXCEPT ![o] =
                  [method |-> method, status |-> "error", hash |-> Nil]]
  /\ UNCHANGED <<config, userOp, call, networkVars, pool, chainVars>>

\* The next sequence number of a nonce key, which is the object's salt.  Objects of
\* one account are taken to have the account's salt, and so one sequence
\* (external: EntryPoint.getNonce, client.go:114).
NextNonce(a) == Len(ledger[a])

FillNonce(o) ==
  /\ At(o, "nonce")
  /\ userOp' = [userOp EXCEPT ![o].nonce = NextNonce(Sender[o])]
  /\ Goto(o, "initCode")
  /\ UNCHANGED <<config, result, calls, networkVars, pool, chainVars>>

\* Faulty variant: the test of the returned byte code is inverted.
IsAccountMissing(a) == a \notin deployed

IsAccountDeployed(a) == a \in deployed

\* IsAccountDeployed and getInitCodeData.  For a deployed account only
\* InitCode is written: Factory and FactoryData keep what they held.
FillInitCode(o) ==
  /\ At(o, "initCode")
  /\ userOp' = IF IsAccountDeployed(Sender[o])
               THEN [userOp EXCEPT ![o].initCode = "none"]
               ELSE [userOp EXCEPT ![o].initCode = "create",
                                   ![o].factory = "create"]
  /\ Goto(o, "sign")
  /\ UNCHANGED <<config, result, calls, networkVars, pool, chainVars>>

\* GetNonce or CodeAt fails: the error is returned and what is filled stays.
NodeFails(o) ==
  /\ At(o, "nonce") \/ At(o, "initCode")
  /\ Return(o, "error", Nil)
  /\ UNCHANGED <<config, userOp, calls, networkVars, pool, chainVars>>

\* Faulty variant: paymaster data left by an earlier fill is used again.
ReusedPaymasterHash(o) ==
  IF userOp[o].paymasterData # Nil
  THEN userOp[o].paymasterData
  ELSE [op |-> o, nonce |-> userOp[o].nonce, initCode |-> userOp[o].initCode]

GetPaymasterHash(o) ==
  [op |-> o, nonce |-> userOp[o].nonce, initCode |-> userOp[o].initCode]

GetUserOpHash(o, paymasterData) ==
  [op |-> o, nonce |-> userOp[o].nonce, initCode |-> userOp[o].initCode,
   paymasterData |-> paymasterData]

\* The paymaster signature first, then the owner's signature over an object
\* that contains it.  Both packings include the paymaster data whether or not
\* a paymaster address is configured.
Sign(o) ==
  /\ At(o, "sign")
  /\ config.verifyingSigner
  /\ LET paymasterData == GetPaymasterHash(o)
         hash == GetUserOpHash(o, paymasterData)
     IN  /\ userOp' = [userOp EXCEPT ![o].paymasterData = paymasterData,
                                     ![o].signature = hash]
         /\ IF call[o].method = "SendUserOp"
            THEN Goto(o, "send") /\ UNCHANGED result
            ELSE Return(o, "ok", hash)
  /\ UNCHANGED <<config, calls, networkVars, pool, chainVars>>

\* crypto.Sign dereferences a nil VerifyingSigner.
SignPanics(o) ==
  /\ At(o, "sign")
  /\ ~config.verifyingSigner
  /\ Return(o, "panic", Nil)
  /\ UNCHANGED <<config, userOp, calls, networkVars, pool, chainVars>>

-----------------------------------------------------------------------------
(* SendUserOp: the request and its response.                                *)

\* The fields of the request body.  InitCode is not one of them.
ToBody(o) ==
  [op |-> o, nonce |-> userOp[o].nonce, factory |-> userOp[o].factory,
   paymasterData |-> userOp[o].paymasterData,
   signature |-> userOp[o].signature]

Post(o) ==
  /\ At(o, "send")
  /\ id' = id + 1
  /\ wire' = wire \cup {[id |-> id + 1, body |-> ToBody(o)]}
  /\ call' = [call EXCEPT ![o].pc = "await", ![o].id = id + 1]
  /\ UNCHANGED <<config, userOp, result, calls, replies, pool, chainVars>>

\* The response body decodes.  Neither the HTTP status nor the response's
\* "id" is looked at, and an absent "result" leaves the zero hash.
Receive(o) ==
  /\ At(o, "await")
  /\ \E r \in replies :
       /\ r.id = call[o].id
       /\ IF r.kind = "error"
          THEN Return(o, "error", Nil)
          ELSE Return(o, "ok", r.hash)
       /\ replies' = replies \ {r}
  /\ UNCHANGED <<config, userOp, calls, id, wire, pool, chainVars>>

\* The HTTP exchange or the decoding fails, at any point after the request
\* was written; the request itself may still reach the bundler.
CallFails(o) ==
  /\ At(o, "await")
  /\ Return(o, "error", Nil)
  /\ replies' = {r \in replies : r.id # call[o].id}
  /\ UNCHANGED <<config, userOp, calls, id, wire, pool, chainVars>>

-----------------------------------------------------------------------------
(* External: the bundler and the EntryPoint, as the SDK relies on them.      *)

\* The hash the bundler computes from a body: init code is factory ++ data,
\* and without a "paymaster" field paymasterAndData is empty.
BundlerHash(b) ==
  [op |-> b.op, nonce |-> b.nonce, initCode |-> b.factory,
   paymasterData |-> IF config.paymaster THEN b.paymasterData ELSE Nil]

\* What EntryPoint validation requires of an operation now.
Executable(b) ==
  /\ b.signature = BundlerHash(b)
  /\ b.nonce = NextNonce(Sender[b.op])
  /\ b.factory = "create" <=> Sender[b.op] \notin deployed

Awaited(r) == call[r.body.op].pc = "await" /\ call[r.body.op].id = r.id

\* A response goes back only if the goroutine still waits for it.
Respond(r, kind, hash) ==
  replies' = IF Awaited(r)
             THEN replies \cup {[id |-> r.id, kind |-> kind, hash |-> hash]}
             ELSE replies

\* The bundler reads a request, simulates it and answers.
Deliver(r) ==
  /\ wire' = wire \ {r}
  /\ IF Executable(r.body)
     THEN /\ pool' = pool \cup {r.body}
          /\ Respond(r, "result", BundlerHash(r.body))
     ELSE /\ Respond(r, "error", Nil)
          /\ UNCHANGED pool
  /\ UNCHANGED <<config, clientVars, id, chainVars>>

\* A proxy answers in the bundler's place with a JSON object that has neither
\* "result" nor "error"; the request goes no further.
ProxyAnswers(r) ==
  /\ Awaited(r)
  /\ wire' = wire \ {r}
  /\ Respond(r, "unframed", Nil)
  /\ UNCHANGED <<config, clientVars, id, pool, chainVars>>

\* The bundler has the EntryPoint execute an accepted operation.
Include(b) ==
  /\ Executable(b)
  /\ pool' = pool \ {b}
  /\ ledger' = [ledger EXCEPT ![Sender[b.op]] = Append(@, b.signature)]
  /\ deployed' = deployed \cup {Sender[b.op]}
  /\ UNCHANGED <<config, clientVars, networkVars>>

\* The bundler forgets an accepted operation.
Drop(b) ==
  /\ pool' = pool \ {b}
  /\ UNCHANGED <<config, clientVars, networkVars, chainVars>>

\* DeployAccount, or anyone else's createAccount transaction, is mined.
AccountDeployed(a) ==
  /\ a \notin deployed
  /\ deployed' = deployed \cup {a}
  /\ UNCHANGED <<config, clientVars, networkVars, pool, ledger>>

-----------------------------------------------------------------------------

SdkStep(o) ==
  \/ \E m \in Methods : Start(o, m) \/ StartWithoutSender(o, m)
  \/ FillNonce(o) \/ FillInitCode(o) \/ NodeFails(o)
  \/ Sign(o) \/ SignPanics(o)
  \/ Post(o) \/ Receive(o) \/ CallFails(o)

ExternalStep ==
  \/ \E r \in wire : Deliver(r) \/ ProxyAnswers(r)
  \/ \E b \in pool : Include(b) \/ Drop(b)
  \/ \E a \in Accounts : AccountDeployed(a)

Next == (\E o \in Ops : SdkStep(o)) \/ ExternalStep

Spec == Init /\ [][Next]_vars

-----------------------------------------------------------------------------
(* Properties.                                                              *)

Body == [op : {o \in Ops : Sender[o] # Nil}, nonce : Nat, factory : Code,
         paymasterData : PaymasterHash, signature : UserOpHash]

FieldTypes == [nonce : Nat \cup {Nil}, initCode : Code, factory : Code,
               paymasterData : PaymasterHash \cup {Nil},
               signature : UserOpHash \cup {Nil}]

CallTypes == [pc : {"idle", "nonce", "initCode", "sign", "send", "await"},
              method : Methods \cup {"none"}, id : Nat]

ResultTypes == [method : Methods \cup {"none"},
                status : {"none", "ok", "error", "panic"},
                hash : UserOpHash \cup {Nil}]

ReplyTypes == [id : Nat, kind : {"result", "error", "unframed"},
               hash : UserOpHash \cup {Nil}]

\* A call past FillNonce has a nonce, one past Sign has both signatures.
FilledSoFar(o) ==
  /\ ~At(o, "idle") => Sender[o] # Nil
  /\ call[o].pc \in {"initCode", "sign", "send", "await"} => userOp[o].nonce # Nil
  /\ call[o].pc \in {"send", "await"} =>
       userOp[o].paymasterData # Nil /\ userOp[o].signature # Nil

\* Every variable has its type, and the fields of an object are filled as far
\* as its call has come (client.go FillAndSign, bundler.go SendUserOp).
TypeOK ==
  /\ config \in Configs
  /\ userOp \in [Ops -> FieldTypes]
  /\ call \in [Ops -> CallTypes]
  /\ result \in [Ops -> ResultTypes]
  /\ calls \in [Ops -> 0 .. MaxCalls]
  /\ id \in Nat
  /\ wire \subseteq [id : Nat, body : Body]
  /\ replies \subseteq ReplyTypes
  /\ pool \subseteq Body
  /\ deployed \subseteq Accounts
  /\ ledger \in [Accounts -> Seq(UserOpHash)]
  /\ \A o \in Ops : FilledSoFar(o)

Sent == pool \cup {r.body : r \in wire}

\* However often an object is sent again after an error, a lost response or a
\* success, and whatever request is still under way, it executes at most once
\* (client.go:113 keeps the nonce of the first fill).
AtMostOnce ==
  \A a, b \in Accounts : \A i \in DOMAIN ledger[a], j \in DOMAIN ledger[b] :
    ledger[a][i].op = ledger[b][j].op => a = b /\ i = j

Executed(o) == \E a \in Accounts : \E i \in DOMAIN ledger[a] : ledger[a][i].op = o

\* Another operation took the nonce this object holds.
Superseded(o) ==
  /\ Sender[o] # Nil
  /\ userOp[o].nonce # Nil
  /\ userOp[o].nonce < NextNonce(Sender[o])
  /\ ~Executed(o)

\* An object that lost its nonce to another operation has lost it for good: no
\* retry gives it a new one and no delayed request executes it, so it is safe
\* to issue its call again in a new object (client.go:113).
SupersededNeverExecutes ==
  [][\A o \in Ops : Superseded(o) => Superseded(o)']_vars

\* The ledger of objects behind the calls, requests and retries: an account
\* executes each of its objects at most once, and an object is lost only to
\* another that executes in its place (client.go:113).
Order == [a \in Accounts |-> [i \in DOMAIN ledger[a] |-> ledger[a][i].op]]

Lost == {o \in Ops : Superseded(o)}

Abstract == INSTANCE OpLedger WITH order <- Order, lost <- Lost

ImplementsOpLedger == Abstract!LedgerSpec

\* The paymaster signature in a request covers the nonce and the init code the
\* owner signed, after every refill (client.go:145-167 runs on each call).
PaymasterCoversOp ==
  \A b \in Sent : b.paymasterData = [op |-> b.op, nonce |-> b.nonce,
                                     initCode |-> b.signature.initCode]

\* Once an object was signed for a deployed account its hash never changes:
\* every later fill, retry or GetUserOpHash gives the same hash, the one to
\* look a receipt up by after a lost response (client.go:113-177).
HashStableOnceDeployed ==
  [][\A o \in Ops :
       userOp[o].signature # Nil /\ userOp[o].signature.initCode = "none"
         => userOp'[o].signature = userOp[o].signature]_vars

\* If the last call with an object was a SendUserOp that returned a hash and the
\* object executed, it executed under that hash, not under the hash of another
\* attempt (bundler.go:97-116 returns the bundler's hash).
ReturnedHashIsExecuted ==
  \A o \in Ops :
    At(o, "idle") /\ result[o].method = "SendUserOp" /\ result[o].status = "ok" /\ result[o].hash # Nil
      => \A a \in Accounts : \A i \in DOMAIN ledger[a] :
           ledger[a][i].op = o => ledger[a][i] = result[o].hash

-----------------------------------------------------------------------------
(* The inductive invariant behind the safety properties: what the fields of  *)
(* an object, the bodies under way and the ledger have to do with each other.*)

\* The nonce is written once: into an object that has none, before any body.
NoncePinned ==
  /\ \A o \in Ops : At(o, "nonce") => userOp[o].nonce = Nil
  /\ \A o \in Ops : userOp[o].signature # Nil => userOp[o].nonce # Nil
  /\ \A b \in Sent : userOp[b.op].nonce = b.nonce

\* The ledger of an account holds its objects in the order of their nonces.
LedgerInNonceOrder ==
  \A a \in Accounts : \A i \in DOMAIN ledger[a] :
    LET h == ledger[a][i] IN
    Sender[h.op] = a /\ h.nonce = i - 1 /\ userOp[h.op].nonce = i - 1

\* Between Sign and Post an object carries both signatures of its fields.
SignedTogether ==
  \A o \in Ops : At(o, "send") =>
    /\ userOp[o].paymasterData = GetPaymasterHash(o)
    /\ userOp[o].signature = GetUserOpHash(o, GetPaymasterHash(o))

\* Empty init code is signed only once the account has code, and then for good.
EmptyMeansDeployed ==
  \A o \in Ops :
    /\ At(o, "sign") /\ userOp[o].initCode = "none" => Sender[o] \in deployed
    /\ userOp[o].signature # Nil /\ userOp[o].signature.initCode = "none" =>
         /\ Sender[o] \in deployed
         /\ userOp[o].initCode = "none"
         /\ userOp[o].signature = GetUserOpHash(o, GetPaymasterHash(o))

\* The nonce of an object never moves once a request carries it, the ledger
\* follows the nonces, and both signatures in a request belong to one fill
\* (client.go:113-177, types.go:84-132): what the theorems rest on.
FilledOnce ==
  /\ NoncePinned
  /\ LedgerInNonceOrder
  /\ SignedTogether
  /\ EmptyMeansDeployed
  /\ PaymasterCoversOp

\* The hash under which an object can execute, if at all: the bundler takes the
\* init code from the factory fields, and those stay once they are filled.
ExecutionHash(o) ==
  [op |-> o, nonce |-> userOp[o].nonce, initCode |-> userOp[o].factory,
   paymasterData |-> [op |-> o, nonce |-> userOp[o].nonce,
                      initCode |-> userOp[o].factory]]

\* Every hash in a ledger is the one its object still has.
ExecutedAsFilled ==
  \A a \in Accounts : \A i \in DOMAIN ledger[a] :
    a \in deployed /\ ledger[a][i] = ExecutionHash(ledger[a][i].op)

\* A body whose signature agrees with its factory was signed for that hash.
SentAsFilled ==
  \A b \in Sent :
    /\ b.signature.initCode = "none" => Sender[b.op] \in deployed
    /\ b.signature.initCode = b.factory => b.signature = ExecutionHash(b.op)

\* A request id belongs to one call, and the response to a call is about the
\* object as it was posted.
AnswersMatch ==
  /\ \A r \in wire \cup replies : r.id <= id
  /\ \A o \in Ops : At(o, "await") =>
       /\ call[o].id <= id
       /\ \A r \in wire : r.id = call[o].id => r.body = ToBody(o)
       /\ \A r \in replies :
            r.id = call[o].id /\ r.hash # Nil => r.hash = ExecutionHash(o)

\* A call that returned with a hash has left the object unchanged.
ReturnedAsFilled ==
  \A o \in Ops :
    At(o, "idle") /\ result[o].method = "SendUserOp" /\ result[o].status = "ok" /\ result[o].hash # Nil
      => result[o].hash = ExecutionHash(o)

\* Of all the hashes an object is signed for on its way through refills, at
\* most one can execute, and it is the one the bundler's answers and the caller
\* have (client.go:124-141, bundler.go:97-116).
OneExecutionHash == ExecutedAsFilled /\ SentAsFilled /\ AnswersMatch /\ ReturnedAsFilled

-----------------------------------------------------------------------------
(* What the repository's texts say and the code does not do.                *)

\* client.go:108 "FillAndSign fills the user operation with default values and
\* signs it": the operation in a request is the one that was signed.
SignedAsSent == \A b \in Sent : b.signature = BundlerHash(b)
=============================================================================
