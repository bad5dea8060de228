-------------------------- MODULE UserOpsRefinement --------------------------
(***************************************************************************)
(* UserOps implements OpLedger: behind any calls, retries, lost responses    *)
(* and delayed requests there is a ledger of objects in which each executes  *)
(* at most once and is lost only to another.                                *)
(***************************************************************************)
EXTENDS UserOpsProofs

\* The refinement mapping forgets no execution.
LEMMA ExecutedInOrder ==
  ASSUME TypeOK
  PROVE  \A o \in Ops : Abstract!HasExecuted(o) <=> Executed(o)
BY DEF TypeOK, Abstract!HasExecuted, Executed, Order

\* A nonce that is written is the account's next one at that time.
LEMMA NonceIsFresh ==
  ASSUME TypeOK, Next, NEW o \in Ops, userOp[o].nonce = Nil, userOp'[o].nonce # Nil
  PROVE  userOp'[o].nonce = NextNonce(Sender[o]) /\ UNCHANGED ledger
<1>1. CASE UNCHANGED userOp
  BY <1>1
<1>2. ASSUME NEW p \in Ops, FillNonce(p)
      PROVE  userOp'[o].nonce = NextNonce(Sender[o]) /\ UNCHANGED ledger
  BY <1>2 DEF FillNonce, TypeOK, FieldTypes, chainVars
<1>3. ASSUME NEW p \in Ops, FillInitCode(p)
      PROVE  userOp'[o].nonce = userOp[o].nonce
  <2>1. \/ userOp' = [userOp EXCEPT ![p].initCode = "none"]
        \/ userOp' = [userOp EXCEPT ![p].initCode = "create", ![p].factory = "create"]
    BY <1>3 DEF FillInitCode
  <2>2. CASE userOp' = [userOp EXCEPT ![p].initCode = "none"]
    BY <2>2 DEF TypeOK, FieldTypes
  <2>3. CASE userOp' = [userOp EXCEPT ![p].initCode = "create", ![p].factory = "create"]
    BY <2>3 DEF TypeOK, FieldTypes
  <2> QED
    BY <2>1, <2>2, <2>3
<1>4. ASSUME NEW p \in Ops, Sign(p)
      PROVE  userOp'[o].nonce = userOp[o].nonce
  <2> DEFINE pay == GetPaymasterHash(p)
             hash == GetUserOpHash(p, pay)
  <2>1. userOp' = [userOp EXCEPT ![p].paymasterData = pay, ![p].signature = hash]
    BY <1>4 DEF Sign
  <2> HIDE DEF pay, hash
  <2> QED
    BY <2>1 DEF TypeOK, FieldTypes
<1> QED
  BY <1>1, <1>2, <1>3, <1>4
     DEF Next, SdkStep, ExternalStep, Start, StartWithoutSender, NodeFails, SignPanics,
         Post, Receive, CallFails, Deliver, ProxyAnswers, Include, Drop,
         AccountDeployed, clientVars

\* A step that executes nothing loses no object.
LEMMA QuietKeepsLost ==
  ASSUME TypeOK, FilledOnce, Next, UNCHANGED ledger
  PROVE  Lost' = Lost
<1>1. ASSUME NEW o \in Ops, Superseded(o)'
      PROVE  Superseded(o)
  <2>1. CASE userOp[o].nonce = Nil
    <3>1. userOp'[o].nonce = Len(ledger[Sender[o]])
      BY <1>1, <2>1, NonceIsFresh DEF Superseded, NextNonce
    <3>2. Len(ledger[Sender[o]]) \in Nat
      BY <1>1, UserOpsAssumption DEF Superseded, TypeOK
    <3> QED
      BY <1>1, <3>1, <3>2 DEF Superseded, NextNonce
  <2>2. CASE userOp[o].nonce # Nil
    BY <1>1, <2>2, NonceStays DEF Superseded, Executed, NextNonce
  <2> QED
    BY <2>1, <2>2
<1> QED
  BY <1>1, LostStaysLost DEF Lost

\* The objects whose hashes a ledger holds.
OpsIn(hashes) == [i \in DOMAIN hashes |-> hashes[i].op]

\* Appending a hash appends its object.
LEMMA AppendedOp ==
  ASSUME NEW s \in Seq(UserOpHash), NEW h \in UserOpHash
  PROVE  OpsIn(Append(s, h)) = Append(OpsIn(s), h.op)
<1> DEFINE n == Len(s)
           t == OpsIn(s)
<1>1. n \in Nat /\ DOMAIN s = 1 .. n
  OBVIOUS
<1>2. Append(s, h) \in Seq(UserOpHash) /\ DOMAIN Append(s, h) = 1 .. n + 1
  OBVIOUS
<1>3. t = [i \in 1 .. n |-> s[i].op]
  BY <1>1 DEF OpsIn
<1>4. \A i \in 1 .. n : s[i].op \in Ops
  <2>1. \A i \in 1 .. n : s[i] \in UserOpHash
    BY <1>1
  <2>2. \A g \in UserOpHash : g.op \in Ops
    BY DEF UserOpHash
  <2> QED
    BY <2>1, <2>2
<1>5. t \in Seq(Ops) /\ Len(t) = n
  BY <1>1, <1>3, <1>4
<1>6. h.op \in Ops
  BY DEF UserOpHash
<1>7. Append(t, h.op) = [i \in 1 .. n + 1 |-> IF i = n + 1 THEN h.op ELSE t[i]]
  BY <1>1, <1>5, <1>6
<1>8. OpsIn(Append(s, h)) = [i \in 1 .. n + 1 |-> Append(s, h)[i].op]
  BY <1>2 DEF OpsIn
<1>9. \A i \in 1 .. n + 1 : Append(s, h)[i].op = IF i = n + 1 THEN h.op ELSE t[i]
  BY <1>1, <1>3
<1> QED
  BY <1>7, <1>8, <1>9

\* Including an object executes it in the abstract ledger and loses those of its
\* account that hold the same nonce.
LEMMA IncludeExecutes ==
  ASSUME TypeOK, FilledOnce, Next, NEW b \in pool, Include(b)
  PROVE  Abstract!LedgerNext
<1> DEFINE o == b.op
           a == Sender[o]
<1>1. /\ b \in Sent /\ b.signature \in UserOpHash /\ b.signature.op = o
      /\ o \in Ops /\ a \in Accounts
      /\ b.nonce = Len(ledger[a]) /\ userOp[o].nonce = b.nonce
      /\ ledger' = [ledger EXCEPT ![a] = Append(@, b.signature)]
      /\ UNCHANGED userOp
  <2>1. b \in Body /\ b \in Sent
    BY DEF TypeOK, Sent
  <2> QED
    <3>1. /\ b.signature = BundlerHash(b) /\ b.nonce = Len(ledger[a])
          /\ ledger' = [ledger EXCEPT ![a] = Append(@, b.signature)]
          /\ UNCHANGED userOp
      BY DEF Include, Executable, NextNonce, clientVars
    <3>2. b.signature \in UserOpHash /\ o \in Ops /\ a \in Accounts
      BY <2>1, UserOpsAssumption DEF Body
    <3>3. b.signature.op = o
      BY <3>1 DEF BundlerHash
    <3>4. userOp[o].nonce = b.nonce
      BY <2>1 DEF FilledOnce, NoncePinned
    <3> QED
      BY <2>1, <3>1, <3>2, <3>3, <3>4
<1>2. \A c \in Accounts : ledger[c] \in Seq(UserOpHash)
  BY DEF TypeOK
<1>3. ~Executed(o)
  <2> SUFFICES ASSUME NEW c \in Accounts, NEW i \in DOMAIN ledger[c], ledger[c][i].op = o
               PROVE  FALSE
    BY DEF Executed
  <2>1. c = a /\ userOp[o].nonce = i - 1
    BY DEF FilledOnce, LedgerInNonceOrder
  <2>2. ledger[a] \in Seq(UserOpHash) /\ i \in DOMAIN ledger[a]
    BY <1>2, <2>1
  <2>3. i \in 1 .. Len(ledger[a]) /\ Len(ledger[a]) \in Nat
    BY <2>2
  <2> QED
    BY <1>1, <2>1, <2>3
<1>4. o \notin Lost
  <2>1. Len(ledger[a]) \in Nat
    BY <1>1, <1>2
  <2> QED
    <3>1. Superseded(o) => userOp[o].nonce < Len(ledger[a])
      BY DEF Superseded, NextNonce
    <3>2. ~Superseded(o)
      BY <1>1, <2>1, <3>1
    <3> QED
      BY <3>2 DEF Lost
<1>5. Executed(o)'
  <2>1. /\ Len(ledger[a]) + 1 \in DOMAIN ledger'[a]
        /\ ledger'[a][Len(ledger[a]) + 1] = b.signature
    BY <1>1, <1>2 DEF TypeOK
  <2> QED
    BY <1>1, <2>1 DEF Executed
<1>6. Order' = [Order EXCEPT ![a] = Append(@, o)]
  <2>1. ASSUME NEW c \in Accounts, c # a
        PROVE  Order'[c] = Order[c]
    BY <1>1, <2>1 DEF Order, TypeOK
  <2>2. Order'[a] = Append(Order[a], o)
    <3>1. ledger'[a] = Append(ledger[a], b.signature)
      BY <1>1 DEF TypeOK
    <3>2. Order'[a] = OpsIn(ledger'[a]) /\ Order[a] = OpsIn(ledger[a])
      BY <1>1 DEF Order, OpsIn
    <3> QED
      BY <1>1, <1>2, <3>1, <3>2, AppendedOp
  <2> QED
    BY <1>1, <2>1, <2>2 DEF Order
<1>7. Lost' = Lost \cup (Lost' \ Lost)
  BY LostStaysLost DEF Lost
<1>8. ASSUME NEW p \in Lost' \ Lost
      PROVE  p # o /\ Sender[p] = a /\ ~Executed(p)
  <2>1. p \in Ops /\ Superseded(p)' /\ ~Superseded(p)
    BY DEF Lost
  <2>2. p # o
    BY <1>5, <2>1 DEF Superseded
  <2>3. ~Executed(p)
    <3> SUFFICES ASSUME NEW c \in Accounts, NEW i \in DOMAIN ledger[c], ledger[c][i].op = p
                 PROVE  FALSE
      BY DEF Executed
    <3>1. i \in DOMAIN ledger'[c] /\ ledger'[c][i] = ledger[c][i]
      BY <1>1, <1>2 DEF TypeOK
    <3> QED
      BY <2>1, <3>1 DEF Superseded, Executed
  <2>4. Sender[p] = a
    <3> SUFFICES ASSUME Sender[p] # a PROVE FALSE
      OBVIOUS
    <3>1. Sender[p] \in Accounts /\ ledger'[Sender[p]] = ledger[Sender[p]]
      BY <1>1, <2>1, UserOpsAssumption DEF Superseded, TypeOK
    <3> QED
      BY <1>1, <2>1, <2>3, <3>1 DEF Superseded, NextNonce
  <2> QED
    BY <2>2, <2>3, <2>4
<1>9. Abstract!Execute(a, o, Lost' \ Lost)
  <2>1. \A p \in Lost' \ Lost : p \in Ops
    BY DEF Lost
  <2> QED
    BY <1>1, <1>3, <1>4, <1>6, <1>7, <1>8, <2>1, ExecutedInOrder DEF Abstract!Execute
<1>10. Lost' \ Lost \in SUBSET Ops
  BY DEF Lost
<1> HIDE DEF o, a
<1> QED
  BY <1>1, <1>9, <1>10 DEF Abstract!LedgerNext

\* Retries, lost responses, delayed requests and races for a nonce behind a
\* ledger that executes each object at most once and loses one only to another.
THEOREM UserOpsImplementsOpLedger == Spec => ImplementsOpLedger
<1>1. Init => Abstract!LedgerInit
  <2> SUFFICES ASSUME Init PROVE Abstract!LedgerInit
    OBVIOUS
  <2>1. \A a \in Accounts : Order[a] = <<>>
    BY DEF Init, Order
  <2>2. Lost = {}
    BY DEF Init, Lost, Superseded, Blank
  <2> QED
    BY <2>1, <2>2 DEF Abstract!LedgerInit, Order
<1>2. TypeOK /\ FilledOnce /\ [Next]_vars
        => [Abstract!LedgerNext]_(Abstract!ledgerVars)
  <2> SUFFICES ASSUME TypeOK, FilledOnce, [Next]_vars
               PROVE  [Abstract!LedgerNext]_(Abstract!ledgerVars)
    OBVIOUS
  <2>1. CASE UNCHANGED vars
    BY <2>1 DEF vars, clientVars, chainVars, Abstract!ledgerVars, Order, Lost,
                Superseded, Executed, NextNonce
  <2>2. CASE Next /\ UNCHANGED ledger
    BY <2>2, QuietKeepsLost DEF Abstract!ledgerVars, Order
  <2>3. ASSUME Next, NEW b \in pool, Include(b)
        PROVE  Abstract!LedgerNext
    BY <2>3, IncludeExecutes
  <2> QED
    BY <2>1, <2>2, <2>3, LedgerGrows
<1> QED
  BY <1>1, <1>2, FillInvariant, PTL DEF Spec, ImplementsOpLedger, Abstract!LedgerSpec
=============================================================================
