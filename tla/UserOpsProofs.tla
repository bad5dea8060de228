---------------------------- MODULE UserOpsProofs ----------------------------
(***************************************************************************)
(* Theorems about UserOps for any set of objects and accounts, any number   *)
(* of calls and any configuration.                                          *)
(***************************************************************************)
EXTENDS UserOps, TLAPS

\* Type correctness: every variable keeps its type, a call that is past the
\* nonce step holds a nonce and one past Sign both signatures.
THEOREM TypeCorrect == Spec => []TypeOK
<1>1. Init => TypeOK
  BY UserOpsAssumption DEF Init, TypeOK, FieldTypes, CallTypes, ResultTypes,
     FilledSoFar, At, Blank, Idle, NoResult, Code, Methods
<1>2. TypeOK /\ [Next]_vars => TypeOK'
  <2> SUFFICES ASSUME TypeOK, [Next]_vars
               PROVE  TypeOK'
    OBVIOUS
  <2> USE UserOpsAssumption DEF TypeOK
  <2>1. ASSUME NEW o \in Ops, NEW m \in Methods, Start(o, m)
        PROVE  TypeOK'
    BY <2>1 DEF Start, NeedsNonce, CallTypes, FilledSoFar, At, networkVars, chainVars
  <2>2. ASSUME NEW o \in Ops, NEW m \in Methods, StartWithoutSender(o, m)
        PROVE  TypeOK'
    BY <2>2 DEF StartWithoutSender, ResultTypes, FilledSoFar, At, networkVars, chainVars
  <2>3. ASSUME NEW o \in Ops, FillNonce(o)
        PROVE  TypeOK'
    <3> USE <2>3 DEF FillNonce, Goto, networkVars, chainVars
    <3>1. NextNonce(Sender[o]) \in Nat
      BY DEF NextNonce, FilledSoFar, At
    <3>2. userOp' \in [Ops -> FieldTypes]
      BY <3>1 DEF FieldTypes
    <3>3. call' \in [Ops -> CallTypes]
      BY DEF CallTypes
    <3>4. \A p \in Ops : FilledSoFar(p)'
      BY <3>1 DEF FilledSoFar, At, FieldTypes, CallTypes
    <3> QED
      BY <3>2, <3>3, <3>4
  <2>4. ASSUME NEW o \in Ops, FillInitCode(o)
        PROVE  TypeOK'
    <3> USE <2>4 DEF FillInitCode, Goto, networkVars, chainVars
    <3>1. userOp' \in [Ops -> FieldTypes]
      <4>1. CASE IsAccountDeployed(Sender[o])
        <5>1. userOp' = [userOp EXCEPT ![o].initCode = "none"]
          BY <4>1
        <5>2. userOp \in [Ops -> FieldTypes] /\ "none" \in Code
          BY DEF Code
        <5> QED
          BY ONLY <5>1, <5>2 DEF FieldTypes
      <4>2. CASE ~IsAccountDeployed(Sender[o])
        <5>1. userOp' = [userOp EXCEPT ![o].initCode = "create",
                                       ![o].factory = "create"]
          BY <4>2
        <5>2. userOp \in [Ops -> FieldTypes] /\ "create" \in Code
          BY DEF Code
        <5> QED
          BY ONLY <5>1, <5>2 DEF FieldTypes
      <4> QED
        BY <4>1, <4>2
    <3>2. call' \in [Ops -> CallTypes]
      BY DEF CallTypes
    <3>3. \A p \in Ops : FilledSoFar(p)'
      BY DEF FilledSoFar, At, FieldTypes, CallTypes
    <3> QED
      BY <3>1, <3>2, <3>3
  <2>5. ASSUME NEW o \in Ops, NodeFails(o)
        PROVE  TypeOK'
    BY <2>5 DEF NodeFails, Return, Idle, CallTypes, ResultTypes, FilledSoFar, At,
                networkVars, chainVars
  <2>6. ASSUME NEW o \in Ops, Sign(o)
        PROVE  TypeOK'
    <3> DEFINE pay == GetPaymasterHash(o)
               hash == GetUserOpHash(o, pay)
    <3>1. pay \in PaymasterHash /\ hash \in UserOpHash
      BY <2>6 DEF Sign, GetPaymasterHash, GetUserOpHash, PaymasterHash, UserOpHash,
                  FilledSoFar, At, FieldTypes
    <3>2. /\ At(o, "sign")
          /\ userOp' = [userOp EXCEPT ![o].paymasterData = pay, ![o].signature = hash]
          /\ \/ Goto(o, "send") /\ UNCHANGED result
             \/ Return(o, "ok", hash)
          /\ UNCHANGED <<config, calls, networkVars, pool, chainVars>>
      BY <2>6 DEF Sign
    <3> HIDE DEF pay, hash
    <3>3. userOp' \in [Ops -> FieldTypes]
      <4>1. userOp \in [Ops -> FieldTypes]
        OBVIOUS
      <4> QED
        BY ONLY <3>1, <3>2, <4>1 DEF FieldTypes
    <3>4. call' \in [Ops -> CallTypes] /\ result' \in [Ops -> ResultTypes]
      <4>1. CASE Goto(o, "send") /\ UNCHANGED result
        BY <4>1 DEF CallTypes, Goto
      <4>2. CASE Return(o, "ok", hash)
        BY <3>1, <4>2 DEF CallTypes, ResultTypes, Return, Idle
      <4> QED
        BY <3>2, <4>1, <4>2
    <3>5. \A p \in Ops : FilledSoFar(p)'
      <4>1. CASE Goto(o, "send") /\ UNCHANGED result
        BY <3>1, <3>2, <4>1 DEF Goto, FilledSoFar, At, FieldTypes, CallTypes
      <4>2. CASE Return(o, "ok", hash)
        BY <3>1, <3>2, <4>2 DEF Return, Idle, FilledSoFar, At, FieldTypes, CallTypes
      <4> QED
        BY <3>2, <4>1, <4>2
    <3> QED
      BY <3>2, <3>3, <3>4, <3>5 DEF networkVars, chainVars
  <2>7. ASSUME NEW o \in Ops, SignPanics(o)
        PROVE  TypeOK'
    BY <2>7 DEF SignPanics, Return, Idle, CallTypes, ResultTypes, FilledSoFar, At,
                networkVars, chainVars
  <2>8. ASSUME NEW o \in Ops, Post(o)
        PROVE  TypeOK'
    <3> USE <2>8 DEF Post, chainVars
    <3>1. ToBody(o) \in Body
      BY DEF ToBody, Body, FilledSoFar, At, FieldTypes
    <3>2. wire' \subseteq [id : Nat, body : Body]
      BY <3>1
    <3>3. call' \in [Ops -> CallTypes]
      <4>1. id + 1 \in Nat /\ call' = [call EXCEPT ![o].pc = "await", ![o].id = id + 1]
        OBVIOUS
      <4>2. call \in [Ops -> CallTypes]
        OBVIOUS
      <4> QED
        BY ONLY <4>1, <4>2 DEF CallTypes
    <3>4. \A p \in Ops : FilledSoFar(p)'
      BY DEF FilledSoFar, At, CallTypes
    <3> QED
      BY <3>2, <3>3, <3>4
  <2>9. ASSUME NEW o \in Ops, Receive(o)
        PROVE  TypeOK'
    <3>1. PICK r \in replies : /\ replies' = replies \ {r}
                              /\ \/ Return(o, "error", Nil)
                                 \/ Return(o, "ok", r.hash)
      BY <2>9 DEF Receive
    <3>2. r.hash \in UserOpHash \cup {Nil}
      BY DEF ReplyTypes
    <3>3. call' \in [Ops -> CallTypes] /\ result' \in [Ops -> ResultTypes]
      <4>1. CASE Return(o, "error", Nil)
        BY <4>1 DEF Return, Idle, CallTypes, ResultTypes
      <4>2. CASE Return(o, "ok", r.hash)
        BY <3>2, <4>2 DEF Return, Idle, CallTypes, ResultTypes
      <4> QED
        BY <3>1, <4>1, <4>2
    <3>4. \A p \in Ops : FilledSoFar(p)'
      BY <2>9, <3>1 DEF Receive, Return, Idle, FilledSoFar, At, CallTypes
    <3> QED
      BY <2>9, <3>1, <3>3, <3>4 DEF Receive, chainVars
  <2>10. ASSUME NEW o \in Ops, CallFails(o)
         PROVE  TypeOK'
    BY <2>10 DEF CallFails, Return, Idle, CallTypes, ResultTypes, FilledSoFar, At, chainVars
  <2>11. ASSUME NEW r \in wire, Deliver(r)
         PROVE  TypeOK'
    <3> USE <2>11 DEF Deliver, clientVars, chainVars
    <3>1. r.id \in Nat /\ r.body \in Body /\ BundlerHash(r.body) \in UserOpHash
      BY DEF BundlerHash, Body, UserOpHash
    <3>2. replies' \subseteq ReplyTypes
      BY <3>1 DEF Respond, ReplyTypes
    <3>3. pool' \subseteq Body
      BY <3>1
    <3>4. \A p \in Ops : FilledSoFar(p)'
      BY DEF FilledSoFar, At
    <3> QED
      BY <3>2, <3>3, <3>4
  <2>12. ASSUME NEW r \in wire, ProxyAnswers(r)
         PROVE  TypeOK'
    BY <2>12 DEF ProxyAnswers, Respond, ReplyTypes, FilledSoFar, At, clientVars, chainVars
  <2>13. ASSUME NEW b \in pool, Include(b)
         PROVE  TypeOK'
    <3> USE <2>13 DEF Include, clientVars, networkVars
    <3>1. b.signature \in UserOpHash /\ Sender[b.op] \in Accounts
      BY DEF Body
    <3>2. ledger' \in [Accounts -> Seq(UserOpHash)]
      <4>1. ledger' = [ledger EXCEPT ![Sender[b.op]] = Append(@, b.signature)]
        OBVIOUS
      <4> QED
        BY <3>1, <4>1
    <3>3. deployed' \subseteq Accounts
      BY <3>1
    <3>4. \A p \in Ops : FilledSoFar(p)'
      BY DEF FilledSoFar, At
    <3> QED
      BY <3>2, <3>3, <3>4
  <2>14. ASSUME NEW b \in pool, Drop(b)
         PROVE  TypeOK'
    BY <2>14 DEF Drop, FilledSoFar, At, clientVars, networkVars, chainVars
  <2>15. ASSUME NEW a \in Accounts, AccountDeployed(a)
         PROVE  TypeOK'
    BY <2>15 DEF AccountDeployed, FilledSoFar, At, clientVars, networkVars
  <2>16. CASE UNCHANGED vars
    BY <2>16 DEF vars, clientVars, networkVars, chainVars, FilledSoFar, At
  <2> QED
    BY <2>1, <2>2, <2>3, <2>4, <2>5, <2>6, <2>7, <2>8, <2>9, <2>10, <2>11,
       <2>12, <2>13, <2>14, <2>15, <2>16 DEF Next, SdkStep, ExternalStep
<1>3. QED
  BY <1>1, <1>2, PTL DEF Spec

-----------------------------------------------------------------------------
(* The inductive invariant.                                                 *)

\* A step that writes no field of an object, posts no body and executes
\* nothing keeps the invariant.
LEMMA QuietStep ==
  ASSUME TypeOK, FilledOnce,
         UNCHANGED <<userOp, ledger>>, deployed \subseteq deployed', Sent' \subseteq Sent,
         \A o \in Ops : At(o, "nonce")' => userOp[o].nonce = Nil,
         \A o \in Ops : At(o, "sign")' => At(o, "sign"),
         \A o \in Ops : At(o, "send")' => At(o, "send")
  PROVE  FilledOnce'
<1>1. NoncePinned'
  BY DEF FilledOnce, NoncePinned
<1>2. LedgerInNonceOrder'
  BY DEF FilledOnce, LedgerInNonceOrder
<1>3. SignedTogether'
  BY DEF FilledOnce, SignedTogether, GetUserOpHash, GetPaymasterHash
<1>4. EmptyMeansDeployed'
  BY DEF FilledOnce, EmptyMeansDeployed, GetUserOpHash, GetPaymasterHash
<1>5. PaymasterCoversOp'
  BY DEF FilledOnce, PaymasterCoversOp
<1> QED
  BY <1>1, <1>2, <1>3, <1>4, <1>5 DEF FilledOnce

\* The bodies under way and the executed hashes belong to objects of the
\* program.
LEMMA SentTypes ==
  ASSUME TypeOK
  PROVE  /\ Sent \subseteq Body
         /\ \A a \in Accounts : \A i \in DOMAIN ledger[a] : ledger[a][i] \in UserOpHash
BY DEF TypeOK, Sent

LEMMA FilledOnceStep ==
  ASSUME TypeOK, FilledOnce, [Next]_vars
  PROVE  FilledOnce'
<1> USE UserOpsAssumption
<1>1. ASSUME NEW o \in Ops, NEW m \in Methods, Start(o, m)
      PROVE  FilledOnce'
  <2>1. \A p \in Ops : /\ At(p, "nonce")' => userOp[p].nonce = Nil
                       /\ At(p, "sign")' => At(p, "sign")
                       /\ At(p, "send")' => At(p, "send")
    BY <1>1 DEF Start, NeedsNonce, TypeOK, CallTypes, At, FilledOnce, NoncePinned
  <2> QED
    BY <1>1, <2>1, QuietStep DEF Start, networkVars, chainVars, Sent
<1>2. ASSUME NEW o \in Ops, NEW m \in Methods, StartWithoutSender(o, m)
      PROVE  FilledOnce'
  BY <1>2, QuietStep
     DEF StartWithoutSender, networkVars, chainVars, Sent, At, FilledOnce, NoncePinned
<1>3. ASSUME NEW o \in Ops, FillNonce(o)
      PROVE  FilledOnce'
  <2>1. /\ At(o, "nonce") /\ userOp[o].nonce = Nil /\ userOp[o].signature = Nil
        /\ userOp' = [userOp EXCEPT ![o].nonce = NextNonce(Sender[o])]
        /\ call' = [call EXCEPT ![o].pc = "initCode"]
        /\ UNCHANGED <<ledger, deployed>> /\ Sent' = Sent
    BY <1>3 DEF FillNonce, Goto, networkVars, chainVars, Sent, FilledOnce, NoncePinned
  <2>2. \A b \in Sent : b.op # o
    BY <2>1, SentTypes DEF FilledOnce, NoncePinned, Body
  <2>3. \A a \in Accounts : \A i \in DOMAIN ledger[a] : ledger[a][i].op # o
    BY <2>1, SentTypes DEF FilledOnce, LedgerInNonceOrder, TypeOK
  <2>4. \A p \in Ops : p # o => userOp'[p] = userOp[p] /\ call'[p] = call[p]
    BY <2>1 DEF TypeOK
  <2>5. /\ userOp'[o] = [userOp[o] EXCEPT !.nonce = NextNonce(Sender[o])]
        /\ userOp'[o].signature = Nil
        /\ call'[o].pc = "initCode"
    BY <2>1 DEF TypeOK, FieldTypes, CallTypes
  <2>6. NoncePinned'
    BY <2>1, <2>2, <2>4, <2>5, SentTypes DEF FilledOnce, NoncePinned, At, Body
  <2>7. LedgerInNonceOrder'
    BY <2>1, <2>3, <2>4, SentTypes DEF FilledOnce, LedgerInNonceOrder, UserOpHash
  <2>8. SignedTogether'
    BY <2>1, <2>4, <2>5 DEF FilledOnce, SignedTogether, GetUserOpHash, GetPaymasterHash, At
  <2>9. EmptyMeansDeployed'
    BY <2>1, <2>4, <2>5 DEF FilledOnce, EmptyMeansDeployed, GetUserOpHash, GetPaymasterHash, At
  <2>10. PaymasterCoversOp'
    BY <2>1 DEF FilledOnce, PaymasterCoversOp
  <2> QED
    BY <2>6, <2>7, <2>8, <2>9, <2>10 DEF FilledOnce
<1>4. ASSUME NEW o \in Ops, FillInitCode(o)
      PROVE  FilledOnce'
  <2>1. /\ At(o, "initCode")
        /\ call' = [call EXCEPT ![o].pc = "sign"]
        /\ UNCHANGED <<ledger, deployed>> /\ Sent' = Sent
    BY <1>4 DEF FillInitCode, Goto, networkVars, chainVars, Sent
  <2>2. \A p \in Ops : p # o => userOp'[p] = userOp[p] /\ call'[p] = call[p]
    BY <1>4, <2>1 DEF FillInitCode, TypeOK
  <2>3. /\ userOp'[o].nonce = userOp[o].nonce
        /\ userOp'[o].signature = userOp[o].signature
        /\ userOp'[o].initCode = IF Sender[o] \in deployed THEN "none" ELSE "create"
        /\ call'[o].pc = "sign"
    <3>1. CASE IsAccountDeployed(Sender[o])
      BY <1>4, <2>1, <3>1 DEF FillInitCode, IsAccountDeployed, TypeOK, FieldTypes, CallTypes
    <3>2. CASE ~IsAccountDeployed(Sender[o])
      <4>1. userOp' = [userOp EXCEPT ![o].initCode = "create", ![o].factory = "create"]
        BY <1>4, <3>2 DEF FillInitCode
      <4>2. call'[o].pc = "sign" /\ Sender[o] \notin deployed
        BY <2>1, <3>2 DEF IsAccountDeployed, TypeOK, CallTypes
      <4> QED
        BY <4>1, <4>2 DEF TypeOK, FieldTypes
    <3> QED
      BY <3>1, <3>2
  <2>4. \A p \in Ops : userOp'[p].nonce = userOp[p].nonce
    BY <2>2, <2>3
  <2>5. NoncePinned'
    BY <2>1, <2>2, <2>3, <2>4, SentTypes DEF FilledOnce, NoncePinned, At, Body
  <2>6. LedgerInNonceOrder'
    BY <2>1, <2>4, SentTypes DEF FilledOnce, LedgerInNonceOrder, UserOpHash
  <2>7. SignedTogether'
    BY <2>1, <2>2, <2>3 DEF FilledOnce, SignedTogether, GetUserOpHash, GetPaymasterHash, At
  <2>8. EmptyMeansDeployed'
    <3>1. ASSUME NEW p \in Ops, p # o
          PROVE  /\ At(p, "sign")' /\ userOp'[p].initCode = "none" => Sender[p] \in deployed'
                 /\ userOp'[p].signature # Nil /\ userOp'[p].signature.initCode = "none" =>
                      /\ Sender[p] \in deployed'
                      /\ userOp'[p].initCode = "none"
                      /\ userOp'[p].signature = GetUserOpHash(p, GetPaymasterHash(p))'
      BY <2>1, <2>2, <3>1 DEF FilledOnce, EmptyMeansDeployed, GetUserOpHash, GetPaymasterHash, At
    <3>2. /\ At(o, "sign")' /\ userOp'[o].initCode = "none" => Sender[o] \in deployed'
          /\ userOp'[o].signature # Nil /\ userOp'[o].signature.initCode = "none" =>
               /\ Sender[o] \in deployed'
               /\ userOp'[o].initCode = "none"
               /\ userOp'[o].signature = GetUserOpHash(o, GetPaymasterHash(o))'
      BY <2>1, <2>3 DEF FilledOnce, EmptyMeansDeployed, GetUserOpHash, GetPaymasterHash
    <3> QED
      BY <3>1, <3>2 DEF EmptyMeansDeployed
  <2>9. PaymasterCoversOp'
    BY <2>1 DEF FilledOnce, PaymasterCoversOp
  <2> QED
    BY <2>5, <2>6, <2>7, <2>8, <2>9 DEF FilledOnce
<1>5. ASSUME NEW o \in Ops, NodeFails(o) \/ SignPanics(o)
      PROVE  FilledOnce'
  <2>1. call' = [call EXCEPT ![o] = Idle]
    BY <1>5 DEF NodeFails, SignPanics, Return
  <2>2. \A p \in Ops : /\ At(p, "nonce")' => At(p, "nonce")
                       /\ At(p, "sign")' => At(p, "sign")
                       /\ At(p, "send")' => At(p, "send")
    BY <2>1 DEF Idle, TypeOK, At
  <2> QED
    BY <1>5, <2>2, QuietStep
       DEF NodeFails, SignPanics, networkVars, chainVars, Sent, FilledOnce, NoncePinned
<1>6. ASSUME NEW o \in Ops, Sign(o)
      PROVE  FilledOnce'
  <2> DEFINE pay == GetPaymasterHash(o)
             hash == GetUserOpHash(o, pay)
  <2>1. /\ At(o, "sign")
        /\ userOp' = [userOp EXCEPT ![o].paymasterData = pay, ![o].signature = hash]
        /\ \/ Goto(o, "send")
           \/ call' = [call EXCEPT ![o] = Idle]
        /\ UNCHANGED <<ledger, deployed>> /\ Sent' = Sent
    BY <1>6 DEF Sign, Return, networkVars, chainVars, Sent
  <2> HIDE DEF pay, hash
  <2>2. \A p \in Ops : p # o => userOp'[p] = userOp[p] /\ call'[p] = call[p]
    BY <2>1 DEF Goto, TypeOK
  <2>3. /\ userOp'[o].nonce = userOp[o].nonce
        /\ userOp'[o].initCode = userOp[o].initCode
        /\ userOp'[o].paymasterData = pay
        /\ userOp'[o].signature = hash
    <3>1. userOp \in [Ops -> FieldTypes]
      BY DEF TypeOK
    <3>2. userOp'[o] = [userOp[o] EXCEPT !.paymasterData = pay, !.signature = hash]
      BY <2>1, <3>1
    <3>3. userOp[o] \in FieldTypes
      BY <3>1
    <3> QED
      BY ONLY <3>2, <3>3 DEF FieldTypes
  <2>4. call'[o].pc \in {"send", "idle"}
    BY <2>1 DEF Goto, Idle, TypeOK, CallTypes
  <2>5. \A p \in Ops : userOp'[p].nonce = userOp[p].nonce
    BY <2>2, <2>3
  <2>6. userOp[o].nonce # Nil
    BY <2>1 DEF TypeOK, FilledSoFar, At
  <2>7. NoncePinned'
    <3>1. \A p \in Ops : At(p, "nonce")' => userOp'[p].nonce = Nil
      BY <2>2, <2>4 DEF FilledOnce, NoncePinned, At
    <3>2. \A p \in Ops : userOp'[p].signature # Nil => userOp'[p].nonce # Nil
      BY <2>2, <2>3, <2>6 DEF FilledOnce, NoncePinned
    <3>3. \A b \in Sent : userOp'[b.op].nonce = b.nonce
      BY <2>5, SentTypes DEF FilledOnce, NoncePinned, Body
    <3> QED
      BY <2>1, <3>1, <3>2, <3>3 DEF NoncePinned
  <2>8. LedgerInNonceOrder'
    <3>1. ledger' = ledger
      BY <2>1
    <3>2. \A a \in Accounts : \A i \in DOMAIN ledger[a] :
            userOp'[ledger[a][i].op].nonce = userOp[ledger[a][i].op].nonce
      BY <2>5, SentTypes DEF UserOpHash
    <3> QED
      BY <3>1, <3>2 DEF FilledOnce, LedgerInNonceOrder
  <2>9. GetPaymasterHash(o)' = pay /\ GetUserOpHash(o, GetPaymasterHash(o))' = hash
    BY <2>3 DEF GetPaymasterHash, GetUserOpHash, pay, hash
  <2>10. SignedTogether'
    <3>1. ASSUME NEW p \in Ops, p # o, At(p, "send")'
          PROVE  /\ userOp'[p].paymasterData = GetPaymasterHash(p)'
                 /\ userOp'[p].signature = GetUserOpHash(p, GetPaymasterHash(p))'
      BY <2>2, <3>1 DEF FilledOnce, SignedTogether, GetUserOpHash, GetPaymasterHash, At
    <3> QED
      BY <2>3, <2>9, <3>1 DEF SignedTogether
  <2>11. EmptyMeansDeployed'
    <3>1. ASSUME NEW p \in Ops, p # o
          PROVE  /\ At(p, "sign")' /\ userOp'[p].initCode = "none" => Sender[p] \in deployed'
                 /\ userOp'[p].signature # Nil /\ userOp'[p].signature.initCode = "none" =>
                      /\ Sender[p] \in deployed'
                      /\ userOp'[p].initCode = "none"
                      /\ userOp'[p].signature = GetUserOpHash(p, GetPaymasterHash(p))'
      BY <2>1, <2>2, <3>1 DEF FilledOnce, EmptyMeansDeployed, GetUserOpHash, GetPaymasterHash, At
    <3>2. ~At(o, "sign")'
      BY <2>4 DEF At
    <3>3. userOp'[o].signature.initCode = "none" =>
            Sender[o] \in deployed' /\ userOp'[o].initCode = "none"
      <4>1. hash.initCode = userOp[o].initCode
        BY DEF hash, GetUserOpHash
      <4> QED
        BY <2>1, <2>3, <4>1 DEF FilledOnce, EmptyMeansDeployed
    <3> QED
      BY <2>3, <2>9, <3>1, <3>2, <3>3 DEF EmptyMeansDeployed
  <2>12. PaymasterCoversOp'
    BY <2>1 DEF FilledOnce, PaymasterCoversOp
  <2> QED
    BY <2>7, <2>8, <2>10, <2>11, <2>12 DEF FilledOnce
<1>7. ASSUME NEW o \in Ops, Post(o)
      PROVE  FilledOnce'
  <2>1. /\ At(o, "send")
        /\ call' = [call EXCEPT ![o].pc = "await", ![o].id = id + 1]
        /\ UNCHANGED <<userOp, ledger, deployed>>
        /\ \A b \in Sent' : b \in Sent \/ b = ToBody(o)
    <3>1. wire' = wire \cup {[id |-> id + 1, body |-> ToBody(o)]} /\ pool' = pool
      BY <1>7 DEF Post
    <3>2. \A b \in Sent' : b \in Sent \/ b = ToBody(o)
      BY <3>1 DEF Sent
    <3> QED
      BY <1>7, <3>2 DEF Post, chainVars
  <2>2. \A p \in Ops : /\ At(p, "nonce")' => At(p, "nonce")
                       /\ At(p, "sign")' => At(p, "sign")
                       /\ At(p, "send")' => At(p, "send")
    BY <2>1 DEF At, TypeOK, CallTypes
  <2>3. NoncePinned'
    BY <2>1, <2>2 DEF FilledOnce, NoncePinned, ToBody
  <2>4. LedgerInNonceOrder'
    BY <2>1 DEF FilledOnce, LedgerInNonceOrder
  <2>5. SignedTogether'
    BY <2>1, <2>2 DEF FilledOnce, SignedTogether, GetUserOpHash, GetPaymasterHash
  <2>6. EmptyMeansDeployed'
    BY <2>1, <2>2 DEF FilledOnce, EmptyMeansDeployed, GetUserOpHash, GetPaymasterHash
  <2>7. PaymasterCoversOp'
    <3>1. /\ ToBody(o).op = o
          /\ ToBody(o).nonce = userOp[o].nonce
          /\ ToBody(o).paymasterData = GetPaymasterHash(o)
          /\ ToBody(o).signature.initCode = userOp[o].initCode
      <4>1. /\ userOp[o].paymasterData = GetPaymasterHash(o)
            /\ userOp[o].signature = GetUserOpHash(o, GetPaymasterHash(o))
        BY <2>1 DEF FilledOnce, SignedTogether
      <4>2. GetUserOpHash(o, GetPaymasterHash(o)).initCode = userOp[o].initCode
        BY DEF GetUserOpHash
      <4> QED
        BY <4>1, <4>2 DEF ToBody
    <3> QED
      BY <2>1, <3>1 DEF FilledOnce, PaymasterCoversOp, GetPaymasterHash
  <2> QED
    BY <2>3, <2>4, <2>5, <2>6, <2>7 DEF FilledOnce
<1>8. ASSUME NEW o \in Ops, Receive(o) \/ CallFails(o)
      PROVE  FilledOnce'
  <2>1. call' = [call EXCEPT ![o] = Idle] /\ UNCHANGED <<userOp, wire, pool, chainVars>>
    BY <1>8 DEF Receive, CallFails, Return
  <2>2. \A p \in Ops : /\ At(p, "nonce")' => At(p, "nonce")
                       /\ At(p, "sign")' => At(p, "sign")
                       /\ At(p, "send")' => At(p, "send")
    BY <2>1 DEF Idle, TypeOK, At
  <2> QED
    BY <2>1, <2>2, QuietStep DEF chainVars, Sent, FilledOnce, NoncePinned
<1>9. ASSUME NEW r \in wire, Deliver(r) \/ ProxyAnswers(r)
      PROVE  FilledOnce'
  <2>1. UNCHANGED <<userOp, call, ledger, deployed>> /\ Sent' \subseteq Sent
    BY <1>9 DEF Deliver, ProxyAnswers, clientVars, chainVars, Sent
  <2> QED
    BY <2>1, QuietStep DEF At, FilledOnce, NoncePinned
<1>10. ASSUME NEW b \in pool, Include(b)
       PROVE  FilledOnce'
  <2> DEFINE a == Sender[b.op]
  <2>1. /\ b \in Sent /\ a \in Accounts /\ b.op \in Ops
        /\ b.signature = BundlerHash(b) /\ b.nonce = Len(ledger[a])
        /\ ledger' = [ledger EXCEPT ![a] = Append(@, b.signature)]
        /\ UNCHANGED <<userOp, call>> /\ deployed \subseteq deployed'
        /\ Sent' \subseteq Sent
    BY <1>10 DEF Include, Executable, NextNonce, clientVars, networkVars, Sent, TypeOK, Body
  <2>2. /\ b.signature.op = b.op
        /\ b.signature.nonce = Len(ledger[a])
        /\ userOp[b.op].nonce = Len(ledger[a])
    BY <2>1 DEF BundlerHash, FilledOnce, NoncePinned
  <2>3. LedgerInNonceOrder'
    <3> SUFFICES ASSUME NEW c \in Accounts, NEW i \in DOMAIN ledger'[c]
                 PROVE  /\ Sender[ledger'[c][i].op] = c
                        /\ ledger'[c][i].nonce = i - 1
                        /\ userOp[ledger'[c][i].op].nonce = i - 1
      BY <2>1 DEF LedgerInNonceOrder
    <3>1. ledger[c] \in Seq(UserOpHash) /\ b.signature \in UserOpHash
      BY <2>1, SentTypes DEF TypeOK, Body
    <3>2. CASE i \in DOMAIN ledger[c]
      <4>1. ledger'[c][i] = ledger[c][i]
        BY <2>1, <3>1, <3>2 DEF TypeOK
      <4> QED
        BY <3>2, <4>1 DEF FilledOnce, LedgerInNonceOrder
    <3>3. CASE i \notin DOMAIN ledger[c]
      <4>1. c = a /\ i = Len(ledger[a]) + 1 /\ ledger'[c][i] = b.signature
        BY <2>1, <3>1, <3>3 DEF TypeOK
      <4> QED
        BY <2>1, <2>2, <3>1, <4>1
    <3> QED
      BY <3>2, <3>3
  <2>4. NoncePinned'
    BY <2>1 DEF FilledOnce, NoncePinned, At
  <2>5. SignedTogether'
    BY <2>1 DEF FilledOnce, SignedTogether, GetUserOpHash, GetPaymasterHash, At
  <2>6. EmptyMeansDeployed'
    BY <2>1 DEF FilledOnce, EmptyMeansDeployed, GetUserOpHash, GetPaymasterHash, At
  <2>7. PaymasterCoversOp'
    BY <2>1 DEF FilledOnce, PaymasterCoversOp
  <2> QED
    BY <2>3, <2>4, <2>5, <2>6, <2>7 DEF FilledOnce
<1>11. ASSUME NEW b \in pool, Drop(b)
       PROVE  FilledOnce'
  BY <1>11, QuietStep
     DEF Drop, clientVars, networkVars, chainVars, Sent, At, FilledOnce, NoncePinned
<1>12. ASSUME NEW a \in Accounts, AccountDeployed(a)
       PROVE  FilledOnce'
  BY <1>12, QuietStep
     DEF AccountDeployed, clientVars, networkVars, Sent, At, FilledOnce, NoncePinned
<1>13. CASE UNCHANGED vars
  BY <1>13, QuietStep
     DEF vars, clientVars, networkVars, chainVars, Sent, At, FilledOnce, NoncePinned
<1> QED
  BY <1>1, <1>2, <1>3, <1>4, <1>5, <1>6, <1>7, <1>8, <1>9, <1>10, <1>11, <1>12, <1>13
     DEF Next, SdkStep, ExternalStep

\* The nonce of an object never moves once a request carries it, each account
\* executes its objects in nonce order, and the two signatures of a request
\* come from one fill.
THEOREM FillInvariant == Spec => [](TypeOK /\ FilledOnce)
<1>1. Init => FilledOnce
  BY UserOpsAssumption
     DEF Init, FilledOnce, NoncePinned, LedgerInNonceOrder, SignedTogether,
         EmptyMeansDeployed, PaymasterCoversOp, Sent, Blank, Idle, At
<1>2. TypeOK /\ FilledOnce /\ [Next]_vars => FilledOnce'
  BY FilledOnceStep
<1> QED
  BY <1>1, <1>2, TypeCorrect, PTL DEF Spec

-----------------------------------------------------------------------------
(* The safety properties.                                                   *)

\* However often an object is sent, it executes at most once.
THEOREM ExecutesAtMostOnce == Spec => []AtMostOnce
<1>1. TypeOK /\ FilledOnce => AtMostOnce
  <2> SUFFICES ASSUME TypeOK, FilledOnce,
                      NEW a \in Accounts, NEW b \in Accounts,
                      NEW i \in DOMAIN ledger[a], NEW j \in DOMAIN ledger[b],
                      ledger[a][i].op = ledger[b][j].op
               PROVE  a = b /\ i = j
    BY DEF AtMostOnce
  <2>1. i \in Nat /\ j \in Nat
    BY DEF TypeOK
  <2> QED
    BY <2>1 DEF FilledOnce, LedgerInNonceOrder
<1> QED
  BY <1>1, FillInvariant, PTL

\* A nonce once written stays.
LEMMA NonceStays ==
  ASSUME TypeOK, FilledOnce, Next, NEW o \in Ops, userOp[o].nonce # Nil
  PROVE  userOp'[o].nonce = userOp[o].nonce
<1>1. CASE UNCHANGED userOp
  BY <1>1
<1>2. ASSUME NEW p \in Ops, FillNonce(p)
      PROVE  userOp'[o].nonce = userOp[o].nonce
  <2>1. p # o
    BY <1>2 DEF FillNonce, FilledOnce, NoncePinned
  <2> QED
    BY <1>2, <2>1 DEF FillNonce, TypeOK
<1>3. ASSUME NEW p \in Ops, FillInitCode(p)
      PROVE  userOp'[o].nonce = userOp[o].nonce
  <2>1. \/ userOp' = [userOp EXCEPT ![p].initCode = "none"]
        \/ userOp' = [userOp EXCEPT ![p].initCode = "create", ![p].factory = "create"]
    BY <1>3 DEF FillInitCode
  <2>2. CASE userOp' = [userOp EXCEPT ![p].initCode = "none"]
    BY <2>2 DEF TypeOK, FieldTypes
  <2>3. CASE userOp' = [userOp EXCEPT ![p].initCode = "create", ![p].factory = "create"]
    BY <2>3 DEF TypeOK, FieldTypes
  <2> QED
    BY <2>1, <2>2, <2>3
<1>4. ASSUME NEW p \in Ops, Sign(p)
      PROVE  userOp'[o].nonce = userOp[o].nonce
  <2> DEFINE pay == GetPaymasterHash(p)
             hash == GetUserOpHash(p, pay)
  <2>1. userOp' = [userOp EXCEPT ![p].paymasterData = pay, ![p].signature = hash]
    BY <1>4 DEF Sign
  <2> HIDE DEF pay, hash
  <2> QED
    BY <2>1 DEF TypeOK, FieldTypes
<1> QED
  BY <1>1, <1>2, <1>3, <1>4
     DEF Next, SdkStep, ExternalStep, Start, StartWithoutSender, NodeFails, SignPanics,
         Post, Receive, CallFails, Deliver, ProxyAnswers, Include, Drop,
         AccountDeployed, clientVars

\* An execution appends one hash to the ledger of one account, and nothing else
\* touches a ledger.
LEMMA LedgerGrows ==
  ASSUME TypeOK, Next
  PROVE  \/ UNCHANGED ledger
         \/ \E b \in pool :
              /\ Include(b)
              /\ ledger' = [ledger EXCEPT ![Sender[b.op]] = Append(@, b.signature)]
BY DEF Next, SdkStep, ExternalStep, Start, StartWithoutSender, FillNonce,
       FillInitCode, NodeFails, Sign, SignPanics, Post, Receive, CallFails, Deliver,
       ProxyAnswers, Include, Drop, AccountDeployed, chainVars

\* An object that lost its nonce to another operation keeps the lost nonce and
\* does not execute.
LEMMA LostStaysLost ==
  ASSUME TypeOK, FilledOnce, Next, NEW o \in Ops, Superseded(o)
  PROVE  Superseded(o)'
<1>1. userOp'[o].nonce = userOp[o].nonce
  BY NonceStays DEF Superseded
<1>2. CASE UNCHANGED ledger
  BY <1>1, <1>2 DEF Superseded, Executed, NextNonce
<1>3. ASSUME NEW b \in pool, Include(b),
             ledger' = [ledger EXCEPT ![Sender[b.op]] = Append(@, b.signature)]
      PROVE  Superseded(o)'
  <2>1. /\ b \in Sent /\ b \in Body /\ b.signature = BundlerHash(b)
        /\ b.nonce = Len(ledger[Sender[b.op]])
    BY <1>3 DEF Include, Executable, NextNonce, Sent, TypeOK
  <2>2. b.op # o
    BY <2>1 DEF FilledOnce, NoncePinned, Superseded, NextNonce, Body, TypeOK
  <2>3. b.signature \in UserOpHash /\ b.signature.op = b.op
    BY <2>1 DEF Body, BundlerHash
  <2>4. \A a \in Accounts : ledger[a] \in Seq(UserOpHash)
    BY DEF TypeOK
  <2>5. ~Executed(o)'
    <3> SUFFICES ASSUME NEW a \in Accounts, NEW i \in DOMAIN ledger'[a],
                        ledger'[a][i].op = o
                 PROVE  FALSE
      BY DEF Executed
    <3>1. i \in DOMAIN ledger[a] /\ ledger[a][i].op = o
      BY <1>3, <2>2, <2>3, <2>4 DEF TypeOK
    <3> QED
      BY <3>1 DEF Superseded, Executed
  <2>6. Sender[o] \in Accounts /\ userOp[o].nonce \in Nat
    BY UserOpsAssumption DEF Superseded, TypeOK, FieldTypes
  <2>7. Len(ledger[Sender[o]]) <= Len(ledger'[Sender[o]])
    BY <1>3, <2>3, <2>4, <2>6 DEF TypeOK
  <2>8. Len(ledger[Sender[o]]) \in Nat /\ Len(ledger'[Sender[o]]) \in Nat
    BY <1>3, <2>3, <2>4, <2>6 DEF TypeOK
  <2> QED
    BY <1>1, <2>5, <2>6, <2>7, <2>8 DEF Superseded, NextNonce
<1> QED
  BY <1>2, <1>3, LedgerGrows

\* An object that lost its nonce to another operation has lost it for good.
THEOREM LostNonceIsFinal == Spec => SupersededNeverExecutes
<1>1. TypeOK /\ FilledOnce /\ [Next]_vars
        => [\A o \in Ops : Superseded(o) => Superseded(o)']_vars
  BY LostStaysLost DEF vars
<1> QED
  BY <1>1, FillInvariant, PTL DEF Spec, SupersededNeverExecutes

\* The paymaster signature in a request covers what the owner signed.
THEOREM PaymasterCovers == Spec => []PaymasterCoversOp
<1>1. FilledOnce => PaymasterCoversOp
  BY DEF FilledOnce
<1> QED
  BY <1>1, FillInvariant, PTL

\* An object signed for a deployed account keeps its hash for good.
THEOREM StableHash == Spec => HashStableOnceDeployed
<1> DEFINE Kept == \A o \in Ops :
             userOp[o].signature # Nil /\ userOp[o].signature.initCode = "none"
               => userOp'[o].signature = userOp[o].signature
<1>1. TypeOK /\ FilledOnce /\ [Next]_vars => [Kept]_vars
  <2> SUFFICES ASSUME TypeOK, FilledOnce, Next, NEW o \in Ops,
                      userOp[o].signature # Nil, userOp[o].signature.initCode = "none"
               PROVE  userOp'[o].signature = userOp[o].signature
    BY DEF vars
  <2>1. CASE UNCHANGED userOp
    BY <2>1
  <2>2. ASSUME NEW p \in Ops, FillNonce(p)
        PROVE  userOp'[o].signature = userOp[o].signature
    BY <2>2 DEF FillNonce, TypeOK, FieldTypes
  <2>3. ASSUME NEW p \in Ops, FillInitCode(p)
        PROVE  userOp'[o].signature = userOp[o].signature
    <3>1. \/ userOp' = [userOp EXCEPT ![p].initCode = "none"]
          \/ userOp' = [userOp EXCEPT ![p].initCode = "create", ![p].factory = "create"]
      BY <2>3 DEF FillInitCode
    <3>2. CASE userOp' = [userOp EXCEPT ![p].initCode = "none"]
      BY <3>2 DEF TypeOK, FieldTypes
    <3>3. CASE userOp' = [userOp EXCEPT ![p].initCode = "create", ![p].factory = "create"]
      BY <3>3 DEF TypeOK, FieldTypes
    <3> QED
      BY <3>1, <3>2, <3>3
  <2>4. ASSUME NEW p \in Ops, Sign(p)
        PROVE  userOp'[o].signature = userOp[o].signature
    <3> DEFINE pay == GetPaymasterHash(p)
               hash == GetUserOpHash(p, pay)
    <3>1. userOp' = [userOp EXCEPT ![p].paymasterData = pay, ![p].signature = hash]
      BY <2>4 DEF Sign
    <3>2. p = o => hash = userOp[o].signature
      BY DEF FilledOnce, EmptyMeansDeployed
    <3> HIDE DEF pay, hash
    <3> QED
      BY <3>1, <3>2 DEF TypeOK, FieldTypes
  <2> QED
    BY <2>1, <2>2, <2>3, <2>4 DEF Next, SdkStep, ExternalStep, Start, StartWithoutSender,
       NodeFails, SignPanics, Post, Receive, CallFails, Deliver, ProxyAnswers, Include,
       Drop, AccountDeployed, clientVars
<1> HIDE DEF Kept
<1>2. Spec => [][Kept]_vars
  BY <1>1, FillInvariant, PTL DEF Spec
<1> QED
  BY <1>2 DEF HashStableOnceDeployed, Kept

-----------------------------------------------------------------------------
(* The hash that the caller has and the hash that executes.                 *)

\* Only the nonce and the factory of an object say under which hash it can
\* execute.
LEMMA HashKept ==
  ASSUME NEW o, userOp'[o].nonce = userOp[o].nonce, userOp'[o].factory = userOp[o].factory
  PROVE  ExecutionHash(o)' = ExecutionHash(o)
BY DEF ExecutionHash

\* Steps that leave the objects, or their nonces and factories, as they are.
LEMMA QuietHash ==
  ASSUME TypeOK, OneExecutionHash, UNCHANGED ledger, deployed \subseteq deployed', Sent' \subseteq Sent,
         \A o \in Ops : userOp'[o].nonce = userOp[o].nonce /\ userOp'[o].factory = userOp[o].factory
  PROVE  ExecutedAsFilled' /\ SentAsFilled'
<1>1. \A o \in Ops : ExecutionHash(o)' = ExecutionHash(o)
  BY HashKept
<1>2. \A b \in Sent : b.op \in Ops
  BY SentTypes DEF Body
<1>3. \A a \in Accounts : \A i \in DOMAIN ledger[a] : ledger[a][i].op \in Ops
  BY SentTypes DEF UserOpHash
<1>4. ExecutedAsFilled'
  BY <1>1, <1>3 DEF OneExecutionHash, ExecutedAsFilled
<1>5. SentAsFilled'
  BY <1>1, <1>2 DEF OneExecutionHash, SentAsFilled
<1> QED
  BY <1>4, <1>5

\* A step of a call that neither posts nor returns a hash, on objects that are
\* not waiting for an answer.
LEMMA QuietCalls ==
  ASSUME TypeOK, OneExecutionHash, UNCHANGED <<id, wire>>, replies' \subseteq replies,
         \A o \in Ops : At(o, "await")' =>
           At(o, "await") /\ call'[o].id = call[o].id /\ userOp'[o] = userOp[o],
         \A o \in Ops : At(o, "idle")' /\ result'[o].method = "SendUserOp" /\ result'[o].status = "ok" =>
           At(o, "idle") /\ result'[o] = result[o] /\ userOp'[o] = userOp[o]
  PROVE  AnswersMatch' /\ ReturnedAsFilled'
<1>1. \A o \in Ops : userOp'[o] = userOp[o] =>
        ExecutionHash(o)' = ExecutionHash(o) /\ ToBody(o)' = ToBody(o)
  BY DEF ExecutionHash, ToBody
<1>2. AnswersMatch'
  BY <1>1 DEF OneExecutionHash, AnswersMatch
<1>3. ReturnedAsFilled'
  BY <1>1 DEF OneExecutionHash, ReturnedAsFilled
<1> QED
  BY <1>2, <1>3

LEMMA OneExecutionHashStep ==
  ASSUME TypeOK, FilledOnce, OneExecutionHash, [Next]_vars
  PROVE  OneExecutionHash'
<1> USE UserOpsAssumption
<1>1. ASSUME NEW o \in Ops, NEW m \in Methods, Start(o, m)
      PROVE  OneExecutionHash'
  <2>1. /\ UNCHANGED <<userOp, ledger, deployed, id, wire, replies, pool, result>>
        /\ call'[o].pc \in {"nonce", "initCode"}
        /\ \A p \in Ops : p # o => call'[p] = call[p]
    BY <1>1 DEF Start, networkVars, chainVars, TypeOK
  <2>2. ExecutedAsFilled' /\ SentAsFilled'
    BY <2>1, QuietHash DEF Sent
  <2>3. AnswersMatch' /\ ReturnedAsFilled'
    BY <2>1, QuietCalls DEF At
  <2> QED
    BY <2>2, <2>3 DEF OneExecutionHash
<1>2. ASSUME NEW o \in Ops, NEW m \in Methods, StartWithoutSender(o, m)
      PROVE  OneExecutionHash'
  <2>1. /\ UNCHANGED <<userOp, ledger, deployed, id, wire, replies, pool, call>>
        /\ result'[o].status = "error"
        /\ \A p \in Ops : p # o => result'[p] = result[p]
    BY <1>2 DEF StartWithoutSender, networkVars, chainVars, TypeOK
  <2>2. ExecutedAsFilled' /\ SentAsFilled'
    BY <2>1, QuietHash DEF Sent
  <2>3. AnswersMatch' /\ ReturnedAsFilled'
    BY <2>1, QuietCalls DEF At
  <2> QED
    BY <2>2, <2>3 DEF OneExecutionHash
<1>3. ASSUME NEW o \in Ops, FillNonce(o)
      PROVE  OneExecutionHash'
  <2>1. /\ userOp[o].nonce = Nil /\ userOp[o].signature = Nil
        /\ \A p \in Ops : p # o => userOp'[p] = userOp[p] /\ call'[p] = call[p]
        /\ call'[o].pc = "initCode"
        /\ UNCHANGED <<ledger, deployed, id, wire, replies, pool, result>> /\ Sent' = Sent
    BY <1>3 DEF FillNonce, Goto, At, TypeOK, CallTypes, networkVars, chainVars, Sent,
                FilledOnce, NoncePinned
  <2>2. \A b \in Sent : b.op # o
    BY <2>1, SentTypes DEF FilledOnce, NoncePinned, Body
  <2>3. \A a \in Accounts : \A i \in DOMAIN ledger[a] : ledger[a][i].op # o
    BY <2>1, SentTypes DEF FilledOnce, LedgerInNonceOrder, TypeOK
  <2>4. \A p \in Ops : p # o => ExecutionHash(p)' = ExecutionHash(p)
    BY <2>1, HashKept
  <2>5. ExecutedAsFilled'
    BY <2>1, <2>3, <2>4, SentTypes DEF OneExecutionHash, ExecutedAsFilled, UserOpHash
  <2>6. SentAsFilled'
    BY <2>1, <2>2, <2>4, SentTypes DEF OneExecutionHash, SentAsFilled, Body
  <2>7. AnswersMatch' /\ ReturnedAsFilled'
    BY <2>1, QuietCalls DEF At
  <2> QED
    BY <2>5, <2>6, <2>7 DEF OneExecutionHash
<1>4. ASSUME NEW o \in Ops, FillInitCode(o)
      PROVE  OneExecutionHash'
  <2>1. /\ \A p \in Ops : p # o => userOp'[p] = userOp[p] /\ call'[p] = call[p]
        /\ call'[o].pc = "sign"
        /\ UNCHANGED <<ledger, deployed, id, wire, replies, pool, result>> /\ Sent' = Sent
    BY <1>4 DEF FillInitCode, Goto, At, TypeOK, CallTypes, networkVars, chainVars, Sent
  <2>2. AnswersMatch' /\ ReturnedAsFilled'
    BY <2>1, QuietCalls DEF At
  <2>3. CASE Sender[o] \in deployed
    <3>1. userOp'[o].nonce = userOp[o].nonce /\ userOp'[o].factory = userOp[o].factory
      BY <1>4, <2>3 DEF FillInitCode, IsAccountDeployed, TypeOK, FieldTypes
    <3> QED
      BY <2>1, <2>2, <3>1, QuietHash DEF OneExecutionHash
  <2>4. CASE Sender[o] \notin deployed
    <3>1. userOp'[o].nonce = userOp[o].nonce /\ userOp'[o].factory = "create"
      <4>1. userOp' = [userOp EXCEPT ![o].initCode = "create", ![o].factory = "create"]
        BY <1>4, <2>4 DEF FillInitCode, IsAccountDeployed
      <4> QED
        BY <4>1 DEF TypeOK, FieldTypes
    <3>2. \A p \in Ops : p # o => ExecutionHash(p)' = ExecutionHash(p)
      BY <2>1, HashKept
    <3>3. \A a \in Accounts : \A i \in DOMAIN ledger[a] : ledger[a][i].op # o
      BY <2>4 DEF FilledOnce, LedgerInNonceOrder, OneExecutionHash, ExecutedAsFilled
    <3>4. ExecutedAsFilled'
      BY <2>1, <3>2, <3>3, SentTypes DEF OneExecutionHash, ExecutedAsFilled, UserOpHash
    <3>5. ASSUME NEW b \in Sent, b.op = o, b.signature.initCode = b.factory
          PROVE  b.signature = ExecutionHash(o)'
      <4>1. b.signature = ExecutionHash(o) /\ b.factory # "none" /\ b.factory \in Code
        BY <2>4, <3>5, SentTypes DEF OneExecutionHash, SentAsFilled, Body
      <4>2. userOp[o].factory = "create"
        BY <3>5, <4>1 DEF ExecutionHash, Code
      <4> QED
        BY <3>1, <4>1, <4>2, HashKept
    <3>6. SentAsFilled'
      BY <2>1, <3>2, <3>5, SentTypes DEF OneExecutionHash, SentAsFilled, Body
    <3> QED
      BY <2>2, <3>4, <3>6 DEF OneExecutionHash
  <2> QED
    BY <2>3, <2>4
<1>5. ASSUME NEW o \in Ops, NodeFails(o) \/ SignPanics(o)
      PROVE  OneExecutionHash'
  <2>1. /\ UNCHANGED <<userOp, ledger, deployed, id, wire, replies, pool>>
        /\ call'[o].pc = "idle" /\ result'[o].status # "ok"
        /\ \A p \in Ops : p # o => call'[p] = call[p] /\ result'[p] = result[p]
    BY <1>5 DEF NodeFails, SignPanics, Return, Idle, networkVars, chainVars, TypeOK
  <2>2. ExecutedAsFilled' /\ SentAsFilled'
    BY <2>1, QuietHash DEF Sent
  <2>3. AnswersMatch' /\ ReturnedAsFilled'
    BY <2>1, QuietCalls DEF At
  <2> QED
    BY <2>2, <2>3 DEF OneExecutionHash
<1>6. ASSUME NEW o \in Ops, Sign(o)
      PROVE  OneExecutionHash'
  <2> DEFINE pay == GetPaymasterHash(o)
             hash == GetUserOpHash(o, pay)
  <2>1. /\ userOp' = [userOp EXCEPT ![o].paymasterData = pay, ![o].signature = hash]
        /\ \/ Goto(o, "send") /\ UNCHANGED result
           \/ call[o].method # "SendUserOp" /\ Return(o, "ok", hash)
        /\ UNCHANGED <<ledger, deployed, id, wire, replies, pool>>
    BY <1>6 DEF Sign, networkVars, chainVars
  <2> HIDE DEF pay, hash
  <2>2. \A p \in Ops : userOp'[p].nonce = userOp[p].nonce /\ userOp'[p].factory = userOp[p].factory
    BY <2>1 DEF TypeOK, FieldTypes
  <2>3. \A p \in Ops : p # o =>
          userOp'[p] = userOp[p] /\ call'[p] = call[p] /\ result'[p] = result[p]
    BY <2>1 DEF Goto, Return, TypeOK
  <2>4. \/ call'[o].pc = "send"
        \/ call'[o].pc = "idle" /\ result'[o].method # "SendUserOp"
    BY <2>1 DEF Goto, Return, Idle, TypeOK, CallTypes
  <2>5. ExecutedAsFilled' /\ SentAsFilled'
    BY <2>1, <2>2, QuietHash DEF Sent
  <2>6. AnswersMatch' /\ ReturnedAsFilled'
    BY <2>1, <2>3, <2>4, QuietCalls DEF At
  <2> QED
    BY <2>5, <2>6 DEF OneExecutionHash
<1>7. ASSUME NEW o \in Ops, Post(o)
      PROVE  OneExecutionHash'
  <2> DEFINE new == [id |-> id + 1, body |-> ToBody(o)]
  <2>1. /\ At(o, "send") /\ id' = id + 1 /\ id \in Nat
        /\ wire' = wire \cup {new}
        /\ call'[o].pc = "await" /\ call'[o].id = id + 1
        /\ \A p \in Ops : p # o => call'[p] = call[p]
        /\ UNCHANGED <<userOp, ledger, deployed, replies, pool, result>>
    BY <1>7 DEF Post, chainVars, TypeOK, CallTypes
  <2>2. \A b \in Sent' : b \in Sent \/ b = ToBody(o)
    BY <2>1 DEF Sent
  <2>3. \A p : ExecutionHash(p)' = ExecutionHash(p) /\ ToBody(p)' = ToBody(p)
    BY <2>1 DEF ExecutionHash, ToBody
  <2>4. ExecutedAsFilled'
    BY <2>1, <2>3 DEF OneExecutionHash, ExecutedAsFilled
  <2>5. /\ ToBody(o).op = o
        /\ ToBody(o).signature.initCode = "none" => Sender[o] \in deployed
        /\ ToBody(o).signature.initCode = ToBody(o).factory => ToBody(o).signature = ExecutionHash(o)
    <3>1. /\ ToBody(o).op = o /\ ToBody(o).factory = userOp[o].factory
          /\ ToBody(o).signature = userOp[o].signature
      BY DEF ToBody
    <3>2. userOp[o].signature = GetUserOpHash(o, GetPaymasterHash(o)) /\ userOp[o].signature # Nil
      BY <2>1 DEF FilledOnce, SignedTogether, At, TypeOK, FilledSoFar
    <3>3. userOp[o].signature.initCode = userOp[o].initCode
      BY <3>2 DEF GetUserOpHash
    <3>4. userOp[o].initCode = userOp[o].factory => userOp[o].signature = ExecutionHash(o)
      BY <3>2 DEF GetUserOpHash, GetPaymasterHash, ExecutionHash
    <3> QED
      BY <3>1, <3>2, <3>3, <3>4 DEF FilledOnce, EmptyMeansDeployed
  <2>6. SentAsFilled'
    BY <2>1, <2>2, <2>3, <2>5 DEF OneExecutionHash, SentAsFilled
  <2>7. \A r \in wire \cup replies : r.id \in Nat /\ r.id <= id
    BY DEF TypeOK, ReplyTypes, OneExecutionHash, AnswersMatch
  <2>8. \A p \in Ops : p # o /\ At(p, "await") => call[p].id \in Nat /\ call[p].id <= id
    BY DEF TypeOK, CallTypes, OneExecutionHash, AnswersMatch
  <2>9. AnswersMatch'
    <3>1. \A r \in (wire \cup replies)' : r.id <= id'
      BY <2>1, <2>7
    <3>2. ASSUME NEW p \in Ops, p # o, At(p, "await")'
          PROVE  /\ call'[p].id <= id'
                 /\ \A r \in wire' : r.id = call'[p].id => r.body = ToBody(p)
                 /\ \A r \in replies : r.id = call'[p].id /\ r.hash # Nil => r.hash = ExecutionHash(p)
      <4>1. At(p, "await") /\ call'[p].id = call[p].id /\ new.id = id + 1
        BY <2>1, <3>2 DEF At
      <4>2. new.id # call'[p].id
        BY <2>1, <2>8, <3>2, <4>1
      <4> HIDE DEF new
      <4> QED
        BY <2>1, <2>8, <3>2, <4>1, <4>2 DEF OneExecutionHash, AnswersMatch
    <3>3. /\ call'[o].id <= id'
          /\ \A r \in wire' : r.id = call'[o].id => r.body = ToBody(o)
          /\ \A r \in replies : r.id # call'[o].id
      BY <2>1, <2>7
    <3> HIDE DEF new
    <3> QED
      BY <2>1, <2>3, <3>1, <3>2, <3>3 DEF AnswersMatch
  <2>10. ReturnedAsFilled'
    BY <2>1, <2>3 DEF OneExecutionHash, ReturnedAsFilled, At
  <2> QED
    BY <2>4, <2>6, <2>9, <2>10 DEF OneExecutionHash
<1>8. ASSUME NEW o \in Ops, Receive(o) \/ CallFails(o)
      PROVE  OneExecutionHash'
  <2>1. /\ At(o, "await") /\ call'[o].pc = "idle"
        /\ \A p \in Ops : p # o => call'[p] = call[p] /\ result'[p] = result[p]
        /\ UNCHANGED <<userOp, ledger, deployed, id, wire, pool>> /\ replies' \subseteq replies
    BY <1>8 DEF Receive, CallFails, Return, Idle, chainVars, TypeOK
  <2>2. result'[o].status = "ok" /\ result'[o].hash # Nil => result'[o].hash = ExecutionHash(o)
    <3>1. ASSUME NEW r \in replies, r.id = call[o].id, Return(o, "ok", r.hash)
          PROVE  result'[o].hash # Nil => result'[o].hash = ExecutionHash(o)
      BY <2>1, <3>1 DEF Return, TypeOK, OneExecutionHash, AnswersMatch
    <3>2. CASE Return(o, "error", Nil)
      BY <3>2 DEF Return, TypeOK
    <3> QED
      BY <1>8, <3>1, <3>2 DEF Receive, CallFails
  <2>3. \A p : ExecutionHash(p)' = ExecutionHash(p) /\ ToBody(p)' = ToBody(p)
    BY <2>1 DEF ExecutionHash, ToBody
  <2>4. ExecutedAsFilled' /\ SentAsFilled'
    BY <2>1, QuietHash DEF Sent
  <2>5. AnswersMatch'
    BY <2>1, <2>3 DEF OneExecutionHash, AnswersMatch, At
  <2>6. ReturnedAsFilled'
    BY <2>1, <2>2, <2>3 DEF OneExecutionHash, ReturnedAsFilled, At
  <2> QED
    BY <2>4, <2>5, <2>6 DEF OneExecutionHash
<1>9. ASSUME NEW r \in wire, Deliver(r) \/ ProxyAnswers(r)
      PROVE  OneExecutionHash'
  <2>1. /\ UNCHANGED <<userOp, call, result, id, ledger, deployed>>
        /\ wire' \subseteq wire /\ Sent' \subseteq Sent
    BY <1>9 DEF Deliver, ProxyAnswers, clientVars, chainVars, Sent
  <2>2. \A q \in replies' : q \in replies \/
          /\ q.id = r.id
          /\ q.hash # Nil => r.body.signature = BundlerHash(r.body) /\ q.hash = BundlerHash(r.body)
    BY <1>9 DEF Deliver, ProxyAnswers, Respond, Executable
  <2>3. \A p : ExecutionHash(p)' = ExecutionHash(p) /\ ToBody(p)' = ToBody(p)
    BY <2>1 DEF ExecutionHash, ToBody
  <2>4. ExecutedAsFilled' /\ SentAsFilled'
    BY <2>1, QuietHash
  <2>5. ASSUME NEW p \in Ops, At(p, "await"), call[p].id = r.id,
               r.body.signature = BundlerHash(r.body)
        PROVE  BundlerHash(r.body) = ExecutionHash(p)
    <3>1. r.body = ToBody(p) /\ r.body \in Sent
      BY <2>5 DEF OneExecutionHash, AnswersMatch, Sent
    <3>2. r.body.op = p /\ r.body.signature.initCode = r.body.factory
      BY <2>5, <3>1 DEF ToBody, BundlerHash
    <3> QED
      BY <2>5, <3>1, <3>2 DEF OneExecutionHash, SentAsFilled
  <2>6. AnswersMatch'
    <3>1. \A q \in (wire \cup replies)' : q.id <= id'
      BY <2>1, <2>2 DEF OneExecutionHash, AnswersMatch
    <3>2. ASSUME NEW p \in Ops, At(p, "await")', NEW q \in replies', q.id = call[p].id, q.hash # Nil
          PROVE  q.hash = ExecutionHash(p)
      BY <2>1, <2>2, <2>5, <3>2 DEF OneExecutionHash, AnswersMatch, At
    <3> QED
      BY <2>1, <2>3, <3>1, <3>2 DEF OneExecutionHash, AnswersMatch, At
  <2>7. ReturnedAsFilled'
    BY <2>1, <2>3 DEF OneExecutionHash, ReturnedAsFilled, At
  <2> QED
    BY <2>4, <2>6, <2>7 DEF OneExecutionHash
<1>10. ASSUME NEW b \in pool, Include(b)
       PROVE  OneExecutionHash'
  <2> DEFINE a == Sender[b.op]
  <2>1. /\ b \in Sent /\ a \in Accounts /\ b.op \in Ops
        /\ b.signature = BundlerHash(b) /\ b.signature \in UserOpHash
        /\ ledger' = [ledger EXCEPT ![a] = Append(@, b.signature)]
        /\ deployed' = deployed \cup {a} /\ Sent' \subseteq Sent
        /\ UNCHANGED <<userOp, call, result, id, wire, replies>>
    BY <1>10 DEF Include, Executable, clientVars, networkVars, Sent, TypeOK, Body
  <2>2. \A p : ExecutionHash(p)' = ExecutionHash(p) /\ ToBody(p)' = ToBody(p)
    BY <2>1 DEF ExecutionHash, ToBody
  <2>3. b.signature = ExecutionHash(b.op) /\ b.signature.op = b.op
    BY <2>1 DEF OneExecutionHash, SentAsFilled, BundlerHash
  <2>4. ASSUME NEW c \in Accounts, NEW i \in DOMAIN ledger'[c]
        PROVE  c \in deployed' /\ ledger'[c][i] = ExecutionHash(ledger'[c][i].op)
    <3>1. ledger[c] \in Seq(UserOpHash)
      BY DEF TypeOK
    <3>2. CASE i \in DOMAIN ledger[c]
      <4>1. ledger'[c][i] = ledger[c][i]
        BY <2>1, <3>1, <3>2 DEF TypeOK
      <4> QED
        BY <2>1, <3>2, <4>1 DEF OneExecutionHash, ExecutedAsFilled
    <3>3. CASE i \notin DOMAIN ledger[c]
      <4>1. c = a /\ ledger'[c][i] = b.signature
        BY <2>1, <3>1, <3>3 DEF TypeOK
      <4> QED
        BY <2>1, <2>3, <4>1
    <3> QED
      BY <3>2, <3>3
  <2>5. ExecutedAsFilled'
    BY <2>2, <2>4 DEF ExecutedAsFilled
  <2>6. SentAsFilled'
    BY <2>1, <2>2 DEF OneExecutionHash, SentAsFilled
  <2>7. AnswersMatch' /\ ReturnedAsFilled'
    BY <2>1, QuietCalls DEF At
  <2> QED
    BY <2>5, <2>6, <2>7 DEF OneExecutionHash
<1>11. ASSUME NEW b \in pool, Drop(b)
       PROVE  OneExecutionHash'
  BY <1>11, QuietHash, QuietCalls
     DEF Drop, clientVars, networkVars, chainVars, Sent, At, OneExecutionHash
<1>12. ASSUME NEW a \in Accounts, AccountDeployed(a)
       PROVE  OneExecutionHash'
  BY <1>12, QuietHash, QuietCalls
     DEF AccountDeployed, clientVars, networkVars, Sent, At, OneExecutionHash
<1>13. CASE UNCHANGED vars
  BY <1>13, QuietHash, QuietCalls
     DEF vars, clientVars, networkVars, chainVars, Sent, At, OneExecutionHash
<1> QED
  BY <1>1, <1>2, <1>3, <1>4, <1>5, <1>6, <1>7, <1>8, <1>9, <1>10, <1>11, <1>12, <1>13
     DEF Next, SdkStep, ExternalStep

\* At most one of the hashes an object is signed for can execute, and answers
\* and results carry that one.
THEOREM HashInvariant == Spec => []OneExecutionHash
<1>1. Init => OneExecutionHash
  BY UserOpsAssumption
     DEF Init, OneExecutionHash, ExecutedAsFilled, SentAsFilled, AnswersMatch,
         ReturnedAsFilled, Sent, Idle, NoResult, At
<1>2. TypeOK /\ FilledOnce /\ OneExecutionHash /\ [Next]_vars => OneExecutionHash'
  BY OneExecutionHashStep
<1> QED
  BY <1>1, <1>2, FillInvariant, PTL DEF Spec

\* The hash that SendUserOp returned is the hash under which the object
\* executes, whatever was signed and sent before.
THEOREM ReturnedHash == Spec => []ReturnedHashIsExecuted
<1>1. TypeOK /\ OneExecutionHash => ReturnedHashIsExecuted
  BY DEF OneExecutionHash, ExecutedAsFilled, ReturnedAsFilled, ReturnedHashIsExecuted
<1> QED
  BY <1>1, HashInvariant, TypeCorrect, PTL
=============================================================================
