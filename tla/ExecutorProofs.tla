--------------------------- MODULE ExecutorProofs ---------------------------
(***************************************************************************)
(* Theorems about Executor for any goroutines, any keys and accounts, any   *)
(* rotation to begin with and any program.                                  *)
(***************************************************************************)
EXTENDS Executor, FiniteSetTheorems, SequenceTheorems, TLAPS

-----------------------------------------------------------------------------
(* The node's answer: the first free nonce.                                 *)

\* Behind a finite set of numbers there is a first free one at or after a, and
\* the numbers before it are in the set.
LEMMA FirstFree ==
  ASSUME NEW S, S \subseteq Nat, IsFiniteSet(S), NEW a \in Nat
  PROVE  \E n \in a .. a + Cardinality(S) : n \notin S /\ a .. n - 1 \subseteq S
<1> DEFINE c == Cardinality(S)
           P == {n \in a .. a + c : a .. n - 1 \subseteq S}
           d == Cardinality(P)
           n == a + d - 1
<1>1. c \in Nat
  BY FS_CardinalityType
<1> HIDE DEF c
<1>2. /\ IsFiniteSet(P) /\ d \in Nat
      /\ \A i \in a .. a + c, j \in a .. a + c : i <= j /\ j \in P => i \in P
      /\ a \in P /\ P \subseteq a .. a + c
      /\ \A i \in a .. a + c : i \in P <=> a .. i - 1 \subseteq S
  <2>1. IsFiniteSet(P)
    <3>1. IsFiniteSet(a .. a + c) /\ P \in SUBSET (a .. a + c)
      BY <1>1, FS_Interval
    <3> QED
      BY ONLY <3>1, FS_Subset
  <2>2. a \in P
    BY <1>1
  <2>3. \A i \in a .. a + c, j \in a .. a + c : i <= j /\ j \in P => i \in P
    <3> SUFFICES ASSUME NEW i \in a .. a + c, NEW j \in a .. a + c, i <= j, j \in P
                 PROVE  a .. i - 1 \subseteq S
      OBVIOUS
    <3>1. a .. i - 1 \subseteq a .. j - 1
      BY <1>1
    <3> QED
      BY <3>1
  <2> QED
    BY <2>1, <2>2, <2>3, FS_CardinalityType
<1> HIDE DEF P
<1>3. \A k \in Int : P \subseteq a .. k => d <= IF a > k THEN 0 ELSE k - a + 1
  <2> SUFFICES ASSUME NEW k \in Int, P \subseteq a .. k
               PROVE  d <= IF a > k THEN 0 ELSE k - a + 1
    OBVIOUS
  <2>1. /\ IsFiniteSet(a .. k) /\ P \in SUBSET (a .. k)
        /\ Cardinality(a .. k) = IF a > k THEN 0 ELSE k - a + 1
    BY FS_Interval
  <2>2. Cardinality(P) <= Cardinality(a .. k)
    BY ONLY <2>1, FS_Subset
  <2> QED
    BY <2>1, <2>2
<1>4. \A k \in Int : a <= k /\ a .. k \subseteq P => k - a + 1 <= d
  <2> SUFFICES ASSUME NEW k \in Int, a <= k, a .. k \subseteq P
               PROVE  k - a + 1 <= d
    OBVIOUS
  <2>1. Cardinality(a .. k) = k - a + 1
    BY FS_Interval
  <2>2. Cardinality(a .. k) <= Cardinality(P)
    BY ONLY <1>2, a .. k \subseteq P, FS_Subset
  <2> QED
    BY <2>1, <2>2
<1> HIDE DEF d
<1>5. n \in P
  <2>1. d >= 1
    BY <1>2, <1>4
  <2>2. ASSUME n \notin P
        PROVE  FALSE
    <3>1. P \subseteq a .. n - 1
      <4> SUFFICES ASSUME NEW j \in P, j >= n
                   PROVE  FALSE
        <5>1. n \in Int
          BY <1>2
        <5> QED
          BY <5>1, <1>1, <1>2
      <4>1. j \in a .. a + c /\ n \in a .. a + c
        BY <1>1, <1>2, <2>1
      <4> QED
        BY <4>1, <1>2, <2>2
    <3>2. d <= IF a > n - 1 THEN 0 ELSE (n - 1) - a + 1
      <4>1. n - 1 \in Int
        BY <1>2
      <4> QED
        BY ONLY <4>1, <3>1, <1>3
    <3> QED
      BY <3>2, <2>1, <1>2
  <2> QED
    BY <2>2
<1>6. n \notin S
  <2> SUFFICES ASSUME n \in S
               PROVE  FALSE
    OBVIOUS
  <2>1. n \in a .. a + c /\ a .. n - 1 \subseteq S
    BY <1>2, <1>5
  <2>2. a .. n \subseteq S
    BY <2>1
  <2>3. n - a + 1 <= c
    <3>1. n \in Int /\ a <= n
      BY <2>1
    <3>2. Cardinality(a .. n) = n - a + 1
      BY ONLY <3>1, a \in Nat, FS_Interval
    <3>3. Cardinality(a .. n) <= Cardinality(S)
      BY ONLY <2>2, IsFiniteSet(S), FS_Subset
    <3> QED
      BY <3>2, <3>3 DEF c
  <2>4. n + 1 \in a .. a + c
    BY <2>1, <2>3, <1>1, <1>2
  <2>5. n + 1 \in P
    BY <2>2, <2>4, <1>1, <1>2
  <2>6. a .. n + 1 \subseteq P
    BY <2>4, <2>5, <1>1, <1>2
  <2>7. n \in Int /\ n + 1 \in Int /\ a <= n + 1
    BY <1>2, <2>4
  <2>8. (n + 1) - a + 1 <= d
    BY <2>6, <2>7, <1>4
  <2> QED
    BY <2>8, <1>2
<1> QED
  BY <1>2, <1>5, <1>6 DEF c

-----------------------------------------------------------------------------
(* Transactions.                                                            *)

\* What the type invariant says of one transaction.
LEMMA TxFacts ==
  ASSUME TypeOK
  PROVE  /\ Len(txs) \in Nat /\ DOMAIN txs = 1 .. Len(txs)
         /\ \A i \in DOMAIN txs :
              /\ txs[i].kind \in Kinds /\ txs[i] \in TxTypes(txs[i].kind)
              /\ txs[i] \in Transactions
              /\ txs[i].nonce \in Nat /\ txs[i].nonce < i
<1>1. txs \in Seq(Transactions) /\ \A i \in DOMAIN txs : txs[i].nonce < i
  BY DEF TypeOK
<1>2. Len(txs) \in Nat /\ DOMAIN txs = 1 .. Len(txs)
  BY <1>1, LenProperties
<1>3. \A i \in DOMAIN txs : txs[i] \in Transactions
  BY <1>1, <1>2, ElementOfSeq
<1>4. \A x \in Transactions : x.kind \in Kinds /\ x \in TxTypes(x.kind) /\ x.nonce \in Nat
  BY DEF Transactions, TxTypes, Kinds, HandleKinds
<1> QED
  BY <1>1, <1>2, <1>3, <1>4

\* The transactions of a key in some statuses are finitely many.
LEMMA OfKeyFinite ==
  ASSUME TypeOK, NEW k, NEW statuses
  PROVE  /\ IsFiniteSet(OfKey(k, statuses)) /\ Cardinality(OfKey(k, statuses)) \in Nat
         /\ OfKey(k, statuses) \in SUBSET (1 .. Len(txs))
<1>1. OfKey(k, statuses) \in SUBSET (1 .. Len(txs)) /\ Len(txs) \in Nat
  BY TxFacts DEF OfKey
<1>2. IsFiniteSet(1 .. Len(txs))
  BY <1>1, FS_Interval
<1>3. IsFiniteSet(OfKey(k, statuses))
  BY ONLY <1>1, <1>2, FS_Subset
<1> QED
  BY <1>1, <1>3, FS_CardinalityType

\* The pending nonce of a key is free in the pool, not used up, and at most the
\* number of transactions so far.
LEMMA PendingIsFree ==
  ASSUME TypeOK, NEW k
  PROVE  /\ PendingNonce(k) \in Nat /\ PendingNonce(k) <= Len(txs)
         /\ PendingNonce(k) >= MinedNonce(k)
         /\ InPool(k, PendingNonce(k)) = {}
<1> DEFINE pool == OfKey(k, {"pool"})
           mined == OfKey(k, Mined)
           S == {txs[i].nonce : i \in pool}
           f == [i \in pool |-> txs[i].nonce]
<1>1. /\ Len(txs) \in Nat
      /\ IsFiniteSet(pool) /\ Cardinality(pool) \in Nat /\ pool \in SUBSET (1 .. Len(txs))
      /\ IsFiniteSet(mined) /\ Cardinality(mined) \in Nat /\ mined \in SUBSET (1 .. Len(txs))
  BY OfKeyFinite, TxFacts
<1>2. Cardinality(pool) + Cardinality(mined) <= Len(txs)
  <2>1. pool \cap mined = {}
    BY DEF OfKey, Mined
  <2>2. Cardinality(pool \cup mined) = Cardinality(pool) + Cardinality(mined) - Cardinality(pool \cap mined)
    BY ONLY <1>1, FS_Union
  <2>3. Cardinality(pool \cap mined) = 0
    BY <2>1, FS_EmptySet
  <2>4. IsFiniteSet(1 .. Len(txs)) /\ Cardinality(1 .. Len(txs)) = Len(txs)
    <3>1. 1 \in Int /\ Len(txs) \in Int
      BY <1>1
    <3>2. /\ IsFiniteSet(1 .. Len(txs))
          /\ Cardinality(1 .. Len(txs)) = IF 1 > Len(txs) THEN 0 ELSE Len(txs) - 1 + 1
      BY ONLY <3>1, FS_Interval
    <3> QED
      BY <1>1, <3>2
  <2>5. pool \cup mined \in SUBSET (1 .. Len(txs))
    BY <1>1
  <2>6. Cardinality(pool \cup mined) <= Cardinality(1 .. Len(txs))
    BY ONLY <2>4, <2>5, FS_Subset
  <2> HIDE DEF pool, mined
  <2> QED
    BY <1>1, <2>2, <2>3, <2>4, <2>6
<1>3. /\ IsFiniteSet(S) /\ Cardinality(S) \in Nat /\ Cardinality(S) <= Cardinality(pool)
      /\ S \subseteq Nat
  <2>1. f \in Surjection(pool, S)
    BY DEF Surjection
  <2>2. IsFiniteSet(S) /\ Cardinality(S) <= Cardinality(pool)
    BY ONLY <2>1, <1>1, FS_Surjection
  <2>3. S \subseteq Nat
    BY TxFacts DEF OfKey
  <2> QED
    BY <2>2, <2>3, FS_CardinalityType
<1>4. \A n : n \in S <=> InPool(k, n) # {}
  BY DEF InPool
<1> DEFINE M == MinedNonce(k)
           Free(n) == InPool(k, n) = {} /\ \A m \in M .. n - 1 : InPool(k, m) # {}
<1>5. M \in Nat /\ M = Cardinality(mined)
  BY <1>1 DEF MinedNonce
<1> HIDE DEF S, M, pool, mined
<1>6. \E n \in M .. M + Len(txs) : Free(n)
  <2>1. PICK n \in M .. M + Cardinality(S) : n \notin S /\ M .. n - 1 \subseteq S
    BY <1>3, <1>5, FirstFree
  <2>2. n \in M .. M + Len(txs)
    BY <1>1, <1>2, <1>3, <1>5
  <2> QED
    BY <2>1, <2>2, <1>4
<1> DEFINE p == PendingNonce(k)
<1>7. p = CHOOSE n \in M .. M + Len(txs) : Free(n)
  BY DEF PendingNonce, M
<1> HIDE DEF p
<1>8. p \in M .. M + Len(txs) /\ Free(p)
  BY <1>6, <1>7
<1>9. M .. p - 1 \subseteq S
  BY <1>4, <1>8
<1>10. p - M <= Cardinality(S)
  <2>1. p - 1 \in Int /\ p \in Nat /\ p >= M
    BY <1>1, <1>5, <1>8
  <2>2. Cardinality(M .. p - 1) = IF M > p - 1 THEN 0 ELSE p - 1 - M + 1
    <3>1. M \in Int
      BY <1>5
    <3> QED
      BY ONLY <3>1, <2>1, FS_Interval
  <2>3. Cardinality(M .. p - 1) <= Cardinality(S)
    BY ONLY <1>3, <1>9, FS_Subset
  <2> QED
    BY <2>1, <2>2, <2>3, <1>3, <1>5
<1>11. p \in Nat /\ p <= Len(txs) /\ p >= M
  BY <1>1, <1>2, <1>3, <1>5, <1>8, <1>10
<1> QED
  BY <1>8, <1>11 DEF p, M

-----------------------------------------------------------------------------
(* Types.                                                                   *)

AllCalls ==
  CallTypes("HandleOps") \cup CallTypes("HandleAtomicOps")
  \cup CallTypes("Prefund") \cup CallTypes("DeployAccount")

\* What TypeOK says of one call, of the calls T there are, behind n transactions.
CallOK(c, n, T) ==
  c = Idle \/
    /\ c \in T
    /\ c.pc = "rotate" => c.kind \in HandleKinds
    /\ c.pc \in {"estimate", "nonce", "send", "wait"} => c.key # Nil
    /\ c.pc = "send" => c.nonce <= n
    /\ c.tx <= n

\* A call has the type that its kind has.
LEMMA CallKinds ==
  \A c : c \in AllCalls <=> c.kind \in Kinds /\ c \in CallTypes(c.kind)
<1>1. \A kind, c : c \in CallTypes(kind) => c.kind = kind
  BY DEF CallTypes
<1> HIDE DEF CallTypes
<1> QED
  BY <1>1 DEF AllCalls, Kinds, HandleKinds

\* TypeOK, with the calls typed alike.
Typed ==
  /\ waiting \in Seq(Signers) /\ passed \in Seq(Signers)
  /\ config \in Configs
  /\ requests \in Programs
  /\ nonces \in [Senders -> Nat]
  /\ deposit \in [Senders -> Nat]
  /\ code \subseteq {Account(o) : o \in {Owner, Account(Owner)}}
  /\ calls \in 0 .. Len(requests)
  /\ turns \in 0 .. calls
  /\ txs \in Seq(Transactions)
  /\ \A i \in DOMAIN txs : txs[i].nonce < i
  /\ DOMAIN call = Goroutines
  /\ \A g \in Goroutines : CallOK(call[g], Len(txs), AllCalls)

LEMMA TypeOKByCall == TypeOK <=> Typed
  BY CallKinds DEF TypeOK, CallOK, At, Typed

\* Calls are numbered.
LEMMA Numbers ==
  ASSUME TypeOK
  PROVE  /\ Len(requests) \in Nat /\ calls \in Nat /\ calls <= Len(requests)
         /\ turns \in Nat /\ turns <= calls
         /\ \A i \in 1 .. Len(requests) :
              requests[i].kind \in Kinds /\ requests[i].target \in Targets(requests[i].kind)
  BY ExecutorAssumption DEF TypeOK

\* What was of its type stays so when more calls have begun.
LEMMA TypesGrow ==
  ASSUME TypeOK, config' = config, calls' \in Nat, calls <= calls'
  PROVE  /\ AllCalls \subseteq AllCalls' /\ Transactions \subseteq Transactions'
         /\ \A x \in Seq(Transactions) : x \in Seq(Transactions')
         /\ \A c, n : CallOK(c, n, AllCalls) => CallOK(c, n, AllCalls')
<1>1. 1 .. calls \subseteq 1 .. calls' /\ 0 .. calls \subseteq 0 .. calls'
  BY Numbers
<1>2. AllCalls \subseteq AllCalls'
  <2>1. ASSUME NEW kind \in Kinds
        PROVE  CallTypes(kind) \subseteq CallTypes(kind)'
    <3>1. KeysOf(kind)' = KeysOf(kind)
      BY DEF KeysOf
    <3> QED
      BY <1>1, <3>1 DEF CallTypes
  <2> QED
    BY <2>1 DEF AllCalls, Kinds, HandleKinds
<1>3. Transactions \subseteq Transactions'
  BY <1>1 DEF Transactions, TxTypes, KeysOf
<1> HIDE DEF AllCalls, Transactions
<1>4. ASSUME NEW x \in Seq(Transactions)
      PROVE  x \in Seq(Transactions')
  <2>1. Len(x) \in Nat /\ x = [i \in 1 .. Len(x) |-> x[i]] /\ \A i \in 1 .. Len(x) : x[i] \in Transactions
    BY LenProperties, ElementOfSeq
  <2>2. \A i \in 1 .. Len(x) : x[i] \in Transactions'
    BY <1>3, <2>1
  <2> QED
    BY <2>1, <2>2, IsASeq
<1> QED
  BY <1>2, <1>3, <1>4 DEF CallOK

\* A call under way, or returned, has all its fields.
LEMMA CallFacts ==
  ASSUME TypeOK, NEW g \in Goroutines, call[g].pc # "idle"
  PROVE  /\ call[g] \in CallTypes(call[g].kind) /\ call[g].kind \in Kinds
         /\ CallOK(call[g], Len(txs), AllCalls) /\ call[g] # Idle
         /\ call[g].pc \in {"rotate", "estimate", "nonce", "send", "wait", "done"}
         /\ call[g].turn \in Nat /\ call[g].size \in Nat /\ call[g].nonce \in Nat
         /\ call[g].tx \in Nat /\ call[g].attempt \in 1 .. calls
<1>1. call[g] # Idle
  BY DEF Idle
<1>2. CallOK(call[g], Len(txs), AllCalls)
  BY TypeOKByCall DEF Typed
<1>3. call[g] \in CallTypes(call[g].kind) /\ call[g].kind \in Kinds
  BY <1>1, <1>2, CallKinds DEF CallOK
<1> QED
  BY <1>1, <1>2, <1>3 DEF CallTypes

\* A call that changes alone keeps its type if its new value has it.
LEMMA CallTypeStep ==
  ASSUME TypeOK, NEW g \in Goroutines, NEW c, call' = [call EXCEPT ![g] = c],
         config' = config, calls' \in Nat, calls <= calls',
         CallOK(c, Len(txs'), AllCalls'), Len(txs') \in Nat, Len(txs) <= Len(txs')
  PROVE  DOMAIN call' = Goroutines /\ \A h \in Goroutines : CallOK(call'[h], Len(txs'), AllCalls')
<1>1. DOMAIN call' = Goroutines /\ call'[g] = c /\ \A h \in Goroutines : h # g => call'[h] = call[h]
  BY DEF TypeOK
<1>2. ASSUME NEW h \in Goroutines, h # g
      PROVE  CallOK(call[h], Len(txs'), AllCalls')
  <2>1. CASE call[h] = Idle
    BY <2>1 DEF CallOK
  <2>2. CASE call[h] # Idle
    <3>1. CallOK(call[h], Len(txs), AllCalls) /\ Len(txs) \in Nat
      BY TxFacts, TypeOKByCall DEF Typed
    <3>2. call[h].kind \in Kinds /\ call[h] \in CallTypes(call[h].kind)
      BY <2>2, <3>1, CallKinds DEF CallOK
    <3>3. call[h].nonce \in Nat /\ call[h].tx \in Nat
      BY <3>2 DEF CallTypes
    <3>4. CallOK(call[h], Len(txs'), AllCalls)
      BY <3>1, <3>3 DEF CallOK
    <3> QED
      BY <3>4, TypesGrow
  <2> QED
    BY <2>1, <2>2
<1> QED
  BY <1>1, <1>2

\* What a transaction that succeeds does to the chain; the operations of a batch
\* have used their nonces.
LEMMA Effects ==
  ASSUME TypeOK, NEW i \in DOMAIN txs, Executes(txs[i])
  PROVE  /\ txs[i].kind = "Prefund" =>
              /\ txs[i].target \in Senders
              /\ deposit' = [deposit EXCEPT ![txs[i].target] = @ + 1]
              /\ UNCHANGED <<nonces, code>>
         /\ txs[i].kind = "DeployAccount" =>
              /\ txs[i].target \in {Owner, Account(Owner)}
              /\ code' = code \cup {Account(txs[i].target)}
              /\ UNCHANGED <<nonces, deposit>>
         /\ txs[i].kind \in HandleKinds =>
              /\ UNCHANGED <<deposit, code>>
              /\ \A k \in DOMAIN txs[i].target :
                   txs[i].target[k].nonce < nonces'[txs[i].target[k].sender]
         /\ nonces' \in [Senders -> Nat] /\ \A s \in Senders : nonces[s] <= nonces'[s]
<1>1. txs[i].kind \in Kinds /\ txs[i] \in TxTypes(txs[i].kind)
  BY TxFacts
<1>2. txs[i].target \in Targets(txs[i].kind)
  BY <1>1 DEF TxTypes
<1>3. nonces \in [Senders -> Nat]
  BY DEF TypeOK
<1>4. CASE txs[i].kind = "Prefund"
  <2>1. txs[i].target \in Senders
    BY <1>2, <1>4 DEF Targets, HandleKinds
  <2> QED
    BY <2>1, <1>3, <1>4 DEF Executes, HandleKinds
<1>5. CASE txs[i].kind = "DeployAccount"
  <2>1. txs[i].target \in {Owner, Account(Owner)}
    BY <1>2, <1>5 DEF Targets, HandleKinds
  <2> QED
    BY <2>1, <1>3, <1>5 DEF Executes, HandleKinds
<1>6. CASE txs[i].kind \in HandleKinds
  <2>1. txs[i].target \in Seq(Ops)
    BY <1>2, <1>6 DEF Targets, HandleKinds
  <2> DEFINE ops == txs[i].target
             Of(s) == {k \in DOMAIN ops : ops[k].sender = s}
             Before(k) == {j \in 1 .. k - 1 : ops[j].sender = ops[k].sender}
  <2>2. Len(ops) \in Nat /\ DOMAIN ops = 1 .. Len(ops)
        /\ \A k \in 1 .. Len(ops) : ops[k] \in Ops
    BY <2>1, LenProperties, ElementOfSeq
  <2>3. ASSUME NEW s
        PROVE  IsFiniteSet(Of(s)) /\ Cardinality(Of(s)) \in Nat
    <3>1. IsFiniteSet(1 .. Len(ops)) /\ Of(s) \in SUBSET (1 .. Len(ops))
      BY <2>2, FS_Interval
    <3>2. IsFiniteSet(Of(s))
      BY ONLY <3>1, FS_Subset
    <3> QED
      BY <3>2, FS_CardinalityType
  <2>4. /\ Validates(ops) /\ UNCHANGED <<deposit, code>>
        /\ nonces' = [s \in Senders |-> nonces[s] + Cardinality(Of(s))]
    BY <1>6 DEF Executes, HandleKinds
  <2>5. ASSUME NEW k \in DOMAIN ops
        PROVE  /\ ops[k].sender \in Senders /\ Cardinality(Before(k)) \in Nat
               /\ Cardinality(Before(k)) + 1 <= Cardinality(Of(ops[k].sender))
    <3> DEFINE B == Before(k)
               O == Of(ops[k].sender)
    <3>1. ops[k].sender \in Senders
      BY <2>2 DEF Ops
    <3>2. B \subseteq O /\ k \in O /\ k \notin B
      BY <2>2
    <3>3. IsFiniteSet(O)
      BY <2>3
    <3> HIDE DEF B, O
    <3>4. IsFiniteSet(B) /\ B \cup {k} \in SUBSET O
      <4>1. B \in SUBSET O
        BY <3>2
      <4>2. IsFiniteSet(B)
        BY ONLY <3>3, <4>1, FS_Subset
      <4> QED
        BY <3>2, <4>2
    <3>5. Cardinality(B \cup {k}) <= Cardinality(O)
      BY ONLY <3>3, <3>4, FS_Subset
    <3>6. Cardinality(B \cup {k}) = Cardinality(B) + 1
      BY <3>2, <3>4, FS_AddElement
    <3>7. Cardinality(B) \in Nat
      BY <3>4, FS_CardinalityType
    <3> QED
      BY <3>1, <3>5, <3>6, <3>7 DEF B, O
  <2> HIDE DEF Of, Before
  <2>6. \A s \in Senders : nonces'[s] = nonces[s] + Cardinality(Of(s))
    BY <2>4
  <2>7. nonces' \in [Senders -> Nat] /\ \A s \in Senders : nonces[s] <= nonces'[s]
    <3>1. \A s \in Senders : nonces[s] + Cardinality(Of(s)) \in Nat
      BY <1>3, <2>3
    <3> QED
      BY <1>3, <2>3, <2>4, <2>6, <3>1
  <2>8. ASSUME NEW k \in DOMAIN ops
        PROVE  ops[k].nonce < nonces'[ops[k].sender]
    <3>1. ops[k].nonce = nonces[ops[k].sender] + Cardinality(Before(k))
      BY <2>4 DEF Validates, Before
    <3>2. nonces[ops[k].sender] \in Nat /\ Cardinality(Of(ops[k].sender)) \in Nat
      BY <1>3, <2>3, <2>5
    <3>3. nonces'[ops[k].sender] = nonces[ops[k].sender] + Cardinality(Of(ops[k].sender))
      BY <2>5, <2>6
    <3> QED
      BY <2>5, <3>1, <3>2, <3>3
  <2> QED
    BY <2>4, <2>7, <2>8, <1>6 DEF HandleKinds
<1> QED
  BY <1>1, <1>4, <1>5, <1>6 DEF Kinds

-----------------------------------------------------------------------------
(* How the list of transactions changes: they are appended, their status      *)
(* leaves "pool" once, and all that was sent stays.                          *)

\* u is t, but for its status and when it was settled.
Same(t, u) ==
  /\ u.key = t.key /\ u.nonce = t.nonce /\ u.target = t.target
  /\ u.kind = t.kind /\ u.turn = t.turn /\ u.size = t.size /\ u.attempt = t.attempt

Kept(i) == Same(txs[i], txs'[i])

\* Replacing one transaction by one that was sent alike.
LEMMA OneTx ==
  ASSUME TypeOK, NEW i \in DOMAIN txs, NEW u \in TxTypes(txs[i].kind), Same(txs[i], u),
         txs' = [txs EXCEPT ![i] = u]
  PROVE  /\ txs' \in Seq(Transactions) /\ Len(txs') = Len(txs) /\ DOMAIN txs' = DOMAIN txs
         /\ txs'[i] = u /\ \A j \in DOMAIN txs : j # i => txs'[j] = txs[j]
         /\ \A j \in DOMAIN txs : Kept(j)
<1>1. u \in Transactions /\ i \in 1 .. Len(txs) /\ txs \in Seq(Transactions)
  BY TxFacts DEF Transactions, TypeOK, Kinds, HandleKinds
<1>2. /\ txs' \in Seq(Transactions) /\ Len(txs') = Len(txs)
      /\ txs'[i] = u /\ \A j \in 1 .. Len(txs) : j # i => txs'[j] = txs[j]
  BY <1>1, ExceptSeq
<1>3. DOMAIN txs' = DOMAIN txs
  BY <1>1, <1>2, LenProperties
<1> QED
  BY <1>1, <1>2, <1>3, LenProperties DEF Kept, Same

\* A transaction leaves the pool.
LEMMA StatusChange ==
  ASSUME TypeOK, NEW i \in DOMAIN txs,
         NEW status \in Mined \cup {"dropped", "replaced"},
         \/ txs' = [txs EXCEPT ![i].status = status, ![i].settled = calls]
         \/ txs' = [txs EXCEPT ![i].status = status]
  PROVE  /\ txs' \in Seq(Transactions) /\ Len(txs') = Len(txs) /\ DOMAIN txs' = DOMAIN txs
         /\ txs'[i].status = status /\ \A j \in DOMAIN txs : j # i => txs'[j] = txs[j]
         /\ \A j \in DOMAIN txs : Kept(j)
         /\ txs' = [txs EXCEPT ![i].status = status, ![i].settled = calls] => txs'[i].settled = calls
<1>1. txs[i] \in TxTypes(txs[i].kind) /\ calls \in 0 .. calls
  BY TxFacts, Numbers
<1>2. CASE txs' = [txs EXCEPT ![i].status = status, ![i].settled = calls]
  <2> DEFINE u == [txs[i] EXCEPT !.status = status, !.settled = calls]
  <2>1. txs' = [txs EXCEPT ![i] = u]
    BY <1>2
  <2>2. u \in TxTypes(txs[i].kind) /\ Same(txs[i], u) /\ u.status = status /\ u.settled = calls
    BY <1>1 DEF TxTypes, Same
  <2> HIDE DEF u
  <2>3. /\ txs' \in Seq(Transactions) /\ Len(txs') = Len(txs) /\ DOMAIN txs' = DOMAIN txs
        /\ txs'[i] = u /\ \A j \in DOMAIN txs : j # i => txs'[j] = txs[j]
        /\ \A j \in DOMAIN txs : Kept(j)
    BY <2>1, <2>2, OneTx
  <2> QED
    BY <2>2, <2>3
<1>3. CASE txs' = [txs EXCEPT ![i].status = status]
  <2> DEFINE u == [txs[i] EXCEPT !.status = status]
  <2>1. txs' = [txs EXCEPT ![i] = u]
    BY <1>3
  <2>2. u \in TxTypes(txs[i].kind) /\ Same(txs[i], u) /\ u.status = status
    BY <1>1 DEF TxTypes, Same
  <2>3. /\ txs' \in Seq(Transactions) /\ Len(txs') = Len(txs) /\ DOMAIN txs' = DOMAIN txs
        /\ txs'[i] = u /\ \A j \in DOMAIN txs : j # i => txs'[j] = txs[j]
        /\ \A j \in DOMAIN txs : Kept(j)
    BY <2>1, <2>2, OneTx
  <2>4. txs' = [txs EXCEPT ![i].status = status, ![i].settled = calls] => txs'[i].settled = calls
    BY <1>1 DEF TxTypes
  <2> QED
    BY <2>2, <2>3, <2>4
<1> QED
  BY <1>2, <1>3

\* A call sends its transaction: it comes last, and those before it stay, except
\* that one with its nonce is replaced.
LEMMA Sends ==
  ASSUME TypeOK, NEW g \in Goroutines, Send(g)
  PROVE  /\ txs' \in Seq(Transactions) /\ Len(txs') = Len(txs) + 1
         /\ DOMAIN txs' = DOMAIN txs \cup {Len(txs) + 1} /\ Len(txs) + 1 \notin DOMAIN txs
         /\ Len(txs) + 1 \in DOMAIN txs'
         /\ txs'[Len(txs) + 1] = Transaction(g) /\ call[g].key \in KeysOf(call[g].kind)
         /\ \A i \in DOMAIN txs :
              /\ Kept(i)
              /\ txs'[i].settled = txs[i].settled
              /\ \/ txs'[i].status = txs[i].status
                 \/ i \in InPool(call[g].key, call[g].nonce) /\ txs'[i].status = "replaced"
<1> DEFINE old == [i \in DOMAIN txs |->
                    IF i \in InPool(call[g].key, call[g].nonce)
                    THEN [txs[i] EXCEPT !.status = "replaced"] ELSE txs[i]]
<1>1. Len(txs) \in Nat /\ DOMAIN txs = 1 .. Len(txs)
  BY TxFacts
<1>2. ASSUME NEW i \in DOMAIN txs
      PROVE  /\ old[i] \in Transactions /\ Same(txs[i], old[i]) /\ old[i].settled = txs[i].settled
             /\ \/ old[i].status = txs[i].status
                \/ i \in InPool(call[g].key, call[g].nonce) /\ old[i].status = "replaced"
  <2>1. txs[i] \in TxTypes(txs[i].kind) /\ txs[i].kind \in Kinds
    BY TxFacts
  <2>2. [txs[i] EXCEPT !.status = "replaced"] \in TxTypes(txs[i].kind)
    BY <2>1 DEF TxTypes
  <2>3. old[i] = IF i \in InPool(call[g].key, call[g].nonce)
                 THEN [txs[i] EXCEPT !.status = "replaced"] ELSE txs[i]
    OBVIOUS
  <2> HIDE DEF old
  <2>4. old[i] \in TxTypes(txs[i].kind)
    BY <2>1, <2>2, <2>3
  <2>5. old[i] \in Transactions
    BY <2>1, <2>4 DEF Transactions, Kinds, HandleKinds
  <2>6. /\ Same(txs[i], old[i]) /\ old[i].settled = txs[i].settled
        /\ \/ old[i].status = txs[i].status
           \/ i \in InPool(call[g].key, call[g].nonce) /\ old[i].status = "replaced"
    BY <2>1, <2>3 DEF TxTypes, Same
  <2> QED
    BY <2>5, <2>6
<1>3. old \in Seq(Transactions) /\ Len(old) = Len(txs) /\ DOMAIN old = 1 .. Len(txs)
  <2>1. old = [i \in 1 .. Len(txs) |-> old[i]] /\ \A i \in 1 .. Len(txs) : old[i] \in Transactions
    BY <1>1, <1>2
  <2> HIDE DEF old
  <2>2. old \in Seq(Transactions)
    BY <2>1, <1>1, IsASeq
  <2> QED
    BY <2>1, <2>2, <1>1, LenProperties
<1>4. call[g].key \in KeysOf(call[g].kind) /\ Transaction(g) \in Transactions
  <2>1. /\ call[g] \in CallTypes(call[g].kind) /\ call[g].kind \in Kinds
        /\ call[g].key # Nil
    BY CallFacts DEF Send, At, CallOK
  <2>2. call[g].key \in KeysOf(call[g].kind)
    BY <2>1 DEF CallTypes
  <2>3. Transaction(g) \in TxTypes(call[g].kind)
    BY <2>1, <2>2, Numbers DEF Transaction, CallTypes, TxTypes
  <2> QED
    BY <2>1, <2>2, <2>3 DEF Transactions, Kinds, HandleKinds
<1>5. txs' = Append(old, Transaction(g))
  BY DEF Send
<1> HIDE DEF old
<1>6. /\ txs' \in Seq(Transactions) /\ Len(txs') = Len(txs) + 1
      /\ \A i \in 1 .. Len(txs) : txs'[i] = old[i]
      /\ txs'[Len(txs) + 1] = Transaction(g)
  BY <1>3, <1>4, <1>5, AppendProperties
<1>7. DOMAIN txs' = 1 .. Len(txs) + 1
  BY <1>6, LenProperties
<1> QED
  BY <1>1, <1>2, <1>4, <1>6, <1>7 DEF Kept

\* The transaction a call sends carries the call's data.
LEMMA NewTx ==
  ASSUME TypeOK, NEW g \in Goroutines, Send(g)
  PROVE  LET t == txs'[Len(txs) + 1]
         IN  /\ t.key = call[g].key /\ t.nonce = call[g].nonce
             /\ t.target = call[g].target /\ t.kind = call[g].kind
             /\ t.turn = call[g].turn /\ t.size = call[g].size
             /\ t.attempt = call[g].attempt /\ t.status = "pool"
<1>1. txs'[Len(txs) + 1] = Transaction(g)
  BY Sends
<1>2. /\ Transaction(g).key = call[g].key /\ Transaction(g).nonce = call[g].nonce
      /\ Transaction(g).target = call[g].target /\ Transaction(g).kind = call[g].kind
      /\ Transaction(g).turn = call[g].turn /\ Transaction(g).size = call[g].size
      /\ Transaction(g).attempt = call[g].attempt /\ Transaction(g).status = "pool"
  BY DEF Transaction
<1> QED
  BY <1>1, <1>2

-----------------------------------------------------------------------------
(* TypeOK is kept.                                                          *)

\* Rotating and joining keep the sequences of keys.
LEMMA RotationTypes ==
  ASSUME waiting \in Seq(Signers), passed \in Seq(Signers),
         TakeTurn \/ \E s \in Signers : Join(s)
  PROVE  waiting' \in Seq(Signers) /\ passed' \in Seq(Signers)
<1>1. CASE TakeTurn
  <2>1. Head(waiting) \in Signers /\ Tail(waiting) \in Seq(Signers) /\ waiting # <<>>
    BY <1>1, HeadTailProperties DEF TakeTurn
  <2>2. passed \o waiting \in Seq(Signers) /\ Append(passed, Head(waiting)) \in Seq(Signers)
    BY <2>1, ConcatProperties, AppendProperties
  <2>3. <<>> \in Seq(Signers)
    BY EmptySeq
  <2> QED
    BY <1>1, <2>1, <2>2, <2>3 DEF TakeTurn
<1>2. CASE \E s \in Signers : Join(s)
  BY <1>2, AppendProperties DEF Join
<1> QED
  BY <1>1, <1>2

\* The steps that leave the transactions and the chain alone: one call changes,
\* to a value of its type.
LEMMA QuietTypeStep ==
  ASSUME TypeOK, NEW g \in Goroutines, NEW c, call' = [call EXCEPT ![g] = c],
         UNCHANGED <<waiting, passed, program, txs, chainVars>>,
         calls' \in 0 .. Len(requests), calls <= calls', turns' \in 0 .. calls',
         CallOK(c, Len(txs), AllCalls')
  PROVE  TypeOK'
<1>1. Len(txs) \in Nat /\ Len(txs') = Len(txs) /\ Len(txs) <= Len(txs') /\ Len(txs') \in Nat
      /\ CallOK(c, Len(txs'), AllCalls') /\ config' = config /\ requests' = requests
      /\ calls' \in Nat
  BY TxFacts, Numbers DEF program
<1>2. DOMAIN call' = Goroutines /\ \A h \in Goroutines : CallOK(call'[h], Len(txs'), AllCalls')
  BY <1>1, CallTypeStep
<1>3. txs' \in Seq(Transactions')
  BY <1>1, TypesGrow DEF TypeOK
<1>4. /\ waiting' \in Seq(Signers) /\ passed' \in Seq(Signers)
      /\ config' \in Configs /\ requests' \in Programs
      /\ nonces' \in [Senders -> Nat] /\ deposit' \in [Senders -> Nat]
      /\ code' \subseteq {Account(o) : o \in {Owner, Account(Owner)}}
      /\ calls' \in 0 .. Len(requests') /\ turns' \in 0 .. calls'
      /\ \A i \in DOMAIN txs' : txs'[i].nonce < i
  BY <1>1 DEF TypeOK, chainVars
<1>5. TypeOK' <=> Typed'
  BY TypeOKByCall, PTL
<1> QED
  BY <1>2, <1>3, <1>4, <1>5 DEF Typed

\* A call that returns keeps its type.
LEMMA ReturnTypes ==
  ASSUME TypeOK, NEW g \in Goroutines, call[g].pc # "idle",
         NEW status \in {"ok", "error", "refused"}, Return(g, status)
  PROVE  \E c : call' = [call EXCEPT ![g] = c] /\ CallOK(c, Len(txs), AllCalls)
<1> DEFINE c == [call[g] EXCEPT !.pc = "done", !.status = status]
<1>1. call' = [call EXCEPT ![g] = c]
  BY DEF Return
<1>2. call[g] \in CallTypes(call[g].kind) /\ call[g].kind \in Kinds
      /\ CallOK(call[g], Len(txs), AllCalls) /\ call[g] # Idle
  BY CallFacts
<1>3. c \in CallTypes(c.kind) /\ c.kind = call[g].kind /\ c.tx = call[g].tx /\ c.pc = "done"
  BY <1>2 DEF CallTypes
<1>4. CallOK(c, Len(txs), AllCalls)
  <2> HIDE DEF c
  <2> QED
    BY <1>2, <1>3, CallKinds DEF CallOK
<1> QED
  BY <1>1, <1>4

\* The steps of one goroutine that change nothing outside its call.
LocalStep(g) ==
  NodeFails(g) \/ Refuse(g) \/ TakeReceipt(g) \/ ContextEnds(g) \/ Estimate(g) \/ ReadNonce(g)

LEMMA LocalTypes ==
  ASSUME TypeOK, NEW g \in Goroutines, LocalStep(g)
  PROVE  TypeOK'
<1>1. /\ UNCHANGED <<waiting, passed, last, program, txs, chainVars, calls, turns>>
      /\ call[g].pc # "idle"
      /\ calls \in 0 .. Len(requests) /\ turns \in 0 .. calls /\ calls \in Nat
  BY Numbers DEF LocalStep, NodeFails, Refuse, TakeReceipt, ContextEnds, Estimate, ReadNonce, At,
         rotationVars, TypeOK
<1>2. /\ call[g] \in CallTypes(call[g].kind) /\ call[g].kind \in Kinds
      /\ CallOK(call[g], Len(txs), AllCalls) /\ call[g] # Idle
  BY <1>1, CallFacts
<1>3. \E c : call' = [call EXCEPT ![g] = c] /\ CallOK(c, Len(txs), AllCalls)
  <2>1. CASE NodeFails(g) \/ Refuse(g) \/ TakeReceipt(g) \/ ContextEnds(g)
    <3>1. \E status \in {"ok", "error", "refused"} : Return(g, status)
      BY <2>1 DEF NodeFails, Refuse, TakeReceipt, ContextEnds
    <3> QED
      BY <3>1, <1>1, ReturnTypes
  <2>2. CASE Estimate(g)
    <3> DEFINE c == [call[g] EXCEPT !.pc = "nonce"]
    <3>1. call' = [call EXCEPT ![g] = c] /\ call[g].pc = "estimate"
      BY <2>2 DEF Estimate, At, Goto
    <3>2. /\ c \in CallTypes(call[g].kind) /\ c.kind = call[g].kind /\ c.pc = "nonce"
          /\ c.key = call[g].key /\ c.tx = call[g].tx
      BY <1>2 DEF CallTypes
    <3> HIDE DEF c
    <3> QED
      BY <1>2, <3>1, <3>2, CallKinds DEF CallOK
  <2>3. CASE ReadNonce(g)
    <3> DEFINE n == PendingNonce(call[g].key)
               c == [call[g] EXCEPT !.pc = "send", !.nonce = n]
    <3>1. call' = [call EXCEPT ![g] = c] /\ call[g].pc = "nonce"
      BY <2>3 DEF ReadNonce, At
    <3>2. n \in Nat /\ n <= Len(txs)
      BY PendingIsFree
    <3> HIDE DEF n
    <3>3. /\ c \in CallTypes(call[g].kind) /\ c.kind = call[g].kind /\ c.pc = "send"
          /\ c.key = call[g].key /\ c.tx = call[g].tx /\ c.nonce = n
      BY <1>2, <3>2 DEF CallTypes
    <3> HIDE DEF c
    <3> QED
      BY <1>2, <3>1, <3>2, <3>3, CallKinds DEF CallOK
  <2> QED
    BY <2>1, <2>2, <2>3 DEF LocalStep
<1>4. config' = config /\ calls' \in Nat /\ calls <= calls'
  BY <1>1 DEF program
<1>5. \E c : call' = [call EXCEPT ![g] = c] /\ CallOK(c, Len(txs), AllCalls')
  BY <1>3, <1>4, TypesGrow
<1> QED
  BY <1>1, <1>4, <1>5, QuietTypeStep

LEMMA BeginTypes ==
  ASSUME TypeOK, NEW g \in Goroutines, Begin(g)
  PROVE  TypeOK'
<1>1. /\ UNCHANGED <<waiting, passed, program, txs, chainVars, turns>>
      /\ config' = config /\ requests' = requests
      /\ calls < Len(requests) /\ calls' = calls + 1
  BY DEF Begin, rotationVars, program
<1>2. PICK n, kind, target : n = calls' /\ kind = requests[n].kind /\ target = requests[n].target
  OBVIOUS
<1>3. /\ n \in Nat /\ calls <= n /\ n \in 1 .. n /\ n \in 1 .. Len(requests)
      /\ n \in 0 .. Len(requests) /\ turns' \in 0 .. n
  BY <1>1, <1>2, Numbers
<1>4. kind \in Kinds /\ target \in Targets(kind)
  BY <1>2, <1>3, Numbers
<1>5. PICK pc, status, key :
        /\ call' = [call EXCEPT ![g] =
                     [pc |-> pc, status |-> status, kind |-> kind, target |-> target,
                      attempt |-> n, key |-> key, turn |-> 0, size |-> 0, nonce |-> 0, tx |-> 0]]
        /\ pc = IF Panics(kind) THEN "done"
                ELSE IF kind \in HandleKinds THEN "rotate" ELSE "estimate"
        /\ status = IF Panics(kind) THEN "panic" ELSE "none"
        /\ key = CASE kind = "Prefund" -> config.verifier
                   [] kind = "DeployAccount" -> Owner
                   [] kind \in HandleKinds -> Nil
  BY <1>2 DEF Begin
<1> DEFINE c == [pc |-> pc, status |-> status, kind |-> kind, target |-> target,
                 attempt |-> n, key |-> key, turn |-> 0, size |-> 0, nonce |-> 0, tx |-> 0]
<1>6. Len(txs) \in Nat
  BY TxFacts
<1>7. KeysOf(kind)' = KeysOf(kind)
  BY <1>1 DEF KeysOf
<1>8. key \in KeysOf(kind) \cup {Nil}
      /\ (kind \notin HandleKinds /\ ~Panics(kind) => key # Nil)
  BY <1>4, <1>5, ExecutorAssumption DEF KeysOf, Kinds, HandleKinds, Panics
<1>9. pc \in {"done", "rotate", "estimate"} /\ status \in {"panic", "none"}
      /\ (pc = "estimate" => kind \notin HandleKinds /\ ~Panics(kind))
      /\ (pc = "rotate" => kind \in HandleKinds)
  BY <1>5
<1>10. c \in CallTypes(kind)'
  BY <1>2, <1>3, <1>4, <1>7, <1>8, <1>9 DEF CallTypes
<1>11. c \in AllCalls'
  BY <1>4, <1>10 DEF AllCalls, Kinds, HandleKinds
<1>12. c.pc = pc /\ c.kind = kind /\ c.key = key /\ c.tx = 0
  OBVIOUS
<1>13. CallOK(c, Len(txs), AllCalls')
  <2> HIDE DEF c
  <2> QED
    BY <1>6, <1>8, <1>9, <1>11, <1>12 DEF CallOK
<1>14. call' = [call EXCEPT ![g] = c]
  BY <1>5
<1> HIDE DEF c
<1>15. calls' \in 0 .. Len(requests) /\ calls <= calls' /\ turns' \in 0 .. calls'
  BY <1>2, <1>3
<1> QED
  BY <1>1, <1>13, <1>14, <1>15, QuietTypeStep

LEMMA RotateTypes ==
  ASSUME TypeOK, Rotates, TurnsCounted, NEW g \in Goroutines, Rotate(g)
  PROVE  TypeOK' /\ TakeTurn /\ last' \in Signers
<1> DEFINE c == [call[g] EXCEPT !.pc = "estimate", !.key = last', !.turn = turns',
                                !.size = Len(waiting) + Len(passed)]
<1>1. /\ call' = [call EXCEPT ![g] = c] /\ call[g].pc = "rotate"
      /\ turns' = turns + 1 /\ UNCHANGED <<program, txs, chainVars, calls>>
      /\ config' = config /\ requests' = requests
  BY DEF Rotate, At, program
<1>2. waiting # <<>> /\ TakeTurn
  BY DEF Rotate, Rotates, NextSigner
<1>3. last' = Head(waiting) /\ last' \in Signers
  BY <1>2, HeadTailProperties DEF TakeTurn, TypeOK
<1>4. waiting' \in Seq(Signers) /\ passed' \in Seq(Signers)
  BY <1>2, RotationTypes DEF TypeOK
<1>5. turns' \in 0 .. calls' /\ calls' \in Nat /\ calls <= calls'
  <2>1. Cardinality(AtRotation) >= 1
    <3>1. g \in AtRotation
      BY <1>1 DEF AtRotation, At
    <3>2. AtRotation # {} /\ IsFiniteSet(AtRotation)
      BY <3>1 DEF TurnsCounted
    <3> QED
      BY <3>2, FS_EmptySet, FS_CardinalityType
  <2>2. Cardinality(AtRotation) \in Nat
    BY FS_CardinalityType DEF TurnsCounted
  <2> QED
    BY <1>1, <2>1, <2>2, Numbers DEF TurnsCounted
<1>6. /\ call[g] \in CallTypes(call[g].kind) /\ call[g].kind \in Kinds
      /\ CallOK(call[g], Len(txs), AllCalls) /\ call[g] # Idle
  BY <1>1, CallFacts
<1>7. call[g].kind \in HandleKinds
  BY <1>1, <1>6 DEF CallOK
<1>8. last' \in KeysOf(call[g].kind) /\ last' # Nil
  BY <1>3, <1>7, ExecutorAssumption DEF KeysOf, HandleKinds
<1>9. turns' \in Nat /\ Len(waiting) + Len(passed) \in Nat
  BY <1>1, LenProperties DEF TypeOK
<1>10. /\ c \in CallTypes(call[g].kind) /\ c.kind = call[g].kind /\ c.pc = "estimate"
       /\ c.key = last' /\ c.tx = call[g].tx
  BY <1>6, <1>8, <1>9 DEF CallTypes
<1>11. CallOK(c, Len(txs), AllCalls)
  <2> HIDE DEF c
  <2> QED
    BY <1>6, <1>8, <1>10, CallKinds DEF CallOK
<1> HIDE DEF c
<1>12. DOMAIN call' = Goroutines /\ \A h \in Goroutines : CallOK(call'[h], Len(txs'), AllCalls')
  <2>1. Len(txs') = Len(txs) /\ Len(txs) \in Nat /\ Len(txs') \in Nat /\ Len(txs) <= Len(txs')
    BY <1>1, TxFacts
  <2>2. CallOK(c, Len(txs'), AllCalls')
    BY <1>1, <1>5, <1>11, <2>1, TypesGrow
  <2> QED
    BY <1>1, <1>5, <2>1, <2>2, CallTypeStep
<1>13. txs' \in Seq(Transactions')
  BY <1>1, <1>5, TypesGrow DEF TypeOK
<1>14. /\ config' \in Configs /\ requests' \in Programs
       /\ nonces' \in [Senders -> Nat] /\ deposit' \in [Senders -> Nat]
       /\ code' \subseteq {Account(o) : o \in {Owner, Account(Owner)}}
       /\ calls' \in 0 .. Len(requests')
       /\ \A i \in DOMAIN txs' : txs'[i].nonce < i
  BY <1>1 DEF TypeOK, chainVars
<1>15. TypeOK' <=> Typed'
  BY TypeOKByCall, PTL
<1>16. TypeOK'
  BY <1>4, <1>5, <1>12, <1>13, <1>14, <1>15 DEF Typed
<1> QED
  BY <1>2, <1>3, <1>16

LEMMA MineTypes ==
  ASSUME TypeOK, NEW i \in DOMAIN txs, Mine(i) \/ Drop(i)
  PROVE  TypeOK'
<1>1. Len(txs) \in Nat /\ DOMAIN txs = 1 .. Len(txs)
  BY TxFacts
<1>2. UNCHANGED <<waiting, passed, last, config, requests, call, calls, turns>>
      /\ calls' \in Nat /\ calls <= calls'
  BY Numbers DEF Mine, Drop, rotationVars, program
<1>3. txs' \in Seq(Transactions) /\ Len(txs') = Len(txs) /\ DOMAIN txs' = DOMAIN txs
      /\ \A j \in DOMAIN txs : Kept(j)
  <2>1. \E status \in Mined \cup {"dropped"} :
          \/ txs' = [txs EXCEPT ![i].status = status, ![i].settled = calls]
          \/ txs' = [txs EXCEPT ![i].status = status]
    BY DEF Mine, Drop, Mined
  <2> QED
    BY <2>1, StatusChange
<1>4. \A j \in DOMAIN txs' : txs'[j].nonce < j
  BY <1>3, TxFacts DEF Kept, Same
<1>5. /\ nonces' \in [Senders -> Nat] /\ deposit' \in [Senders -> Nat]
      /\ code' \subseteq {Account(o) : o \in {Owner, Account(Owner)}}
  <2>1. CASE UNCHANGED chainVars
    BY <2>1 DEF chainVars, TypeOK
  <2>2. CASE Executes(txs[i])
    <3>1. deposit \in [Senders -> Nat] /\ code \subseteq {Account(o) : o \in {Owner, Account(Owner)}}
          /\ txs[i].kind \in Kinds
      BY TxFacts DEF TypeOK
    <3>2. nonces' \in [Senders -> Nat]
      BY <2>2, Effects
    <3>3. CASE txs[i].kind = "Prefund"
      BY <2>2, <3>1, <3>2, <3>3, Effects
    <3>4. CASE txs[i].kind = "DeployAccount"
      BY <2>2, <3>1, <3>2, <3>4, Effects
    <3>5. CASE txs[i].kind \in HandleKinds
      BY <2>2, <3>1, <3>2, <3>5, Effects
    <3> QED
      BY <3>1, <3>3, <3>4, <3>5 DEF Kinds
  <2> QED
    BY <2>1, <2>2 DEF Mine, Drop
<1>6. DOMAIN call' = Goroutines /\ \A h \in Goroutines : CallOK(call'[h], Len(txs'), AllCalls')
  <2>1. DOMAIN call = Goroutines /\ \A h \in Goroutines : CallOK(call[h], Len(txs), AllCalls)
    BY TypeOKByCall DEF Typed
  <2> QED
    BY <1>2, <1>3, <2>1, TypesGrow
<1>7. txs' \in Seq(Transactions')
  BY <1>2, <1>3, TypesGrow
<1>8. /\ waiting' \in Seq(Signers) /\ passed' \in Seq(Signers)
      /\ config' \in Configs /\ requests' \in Programs
      /\ calls' \in 0 .. Len(requests') /\ turns' \in 0 .. calls'
  BY <1>2 DEF TypeOK
<1>9. TypeOK' <=> Typed'
  BY TypeOKByCall, PTL
<1> QED
  BY <1>4, <1>5, <1>6, <1>7, <1>8, <1>9 DEF Typed

LEMMA SendTypes ==
  ASSUME TypeOK, NEW g \in Goroutines, Send(g)
  PROVE  TypeOK'
<1>1. Len(txs) \in Nat /\ DOMAIN txs = 1 .. Len(txs)
  BY TxFacts
<1>2. /\ UNCHANGED <<waiting, passed, last, config, requests, chainVars, calls, turns>>
      /\ call[g].pc = "send" /\ calls' \in Nat /\ calls <= calls'
  BY Numbers DEF Send, rotationVars, program, At
<1>3. /\ call[g] \in CallTypes(call[g].kind) /\ call[g].kind \in Kinds
      /\ CallOK(call[g], Len(txs), AllCalls) /\ call[g] # Idle
      /\ call[g].nonce <= Len(txs)
  BY <1>2, CallFacts DEF CallOK
<1>4. /\ txs' \in Seq(Transactions) /\ Len(txs') = Len(txs) + 1
      /\ DOMAIN txs' = DOMAIN txs \cup {Len(txs) + 1} /\ \A i \in DOMAIN txs : Kept(i)
      /\ txs'[Len(txs) + 1] = Transaction(g)
  BY Sends
<1>5. \A j \in DOMAIN txs' : txs'[j].nonce < j
  <2>1. txs'[Len(txs) + 1].nonce < Len(txs) + 1
    <3>1. txs'[Len(txs) + 1].nonce = call[g].nonce /\ call[g].nonce \in Nat
      BY <1>3, <1>4 DEF Transaction, CallTypes
    <3> QED
      BY <1>1, <1>3, <3>1
  <2> QED
    BY <1>4, <2>1, TxFacts DEF Kept, Same
<1>6. \E c : call' = [call EXCEPT ![g] = c] /\ CallOK(c, Len(txs'), AllCalls)
  <2>1. CASE Return(g, "error")
    <3> DEFINE c == [call[g] EXCEPT !.pc = "done", !.status = "error"]
    <3>1. call' = [call EXCEPT ![g] = c]
      BY <2>1 DEF Return
    <3>2. c \in CallTypes(c.kind) /\ c.kind = call[g].kind /\ c.tx = call[g].tx /\ c.pc = "done"
          /\ c.tx \in Nat
      BY <1>3 DEF CallTypes
    <3> HIDE DEF c
    <3>3. CallOK(c, Len(txs'), AllCalls)
      BY <1>1, <1>3, <1>4, <3>2, CallKinds DEF CallOK
    <3> QED
      BY <3>1, <3>3
  <2>2. CASE Sent(g, Len(txs) + 1)
    <3>0. PICK pc \in {"wait", "done"}, status \in {"none", "ok"} :
            call' = [call EXCEPT ![g].pc = pc, ![g].status = status, ![g].tx = Len(txs) + 1]
      BY <2>2 DEF Sent
    <3> DEFINE c == [call[g] EXCEPT !.pc = pc, !.status = status, !.tx = Len(txs) + 1]
    <3>1. call' = [call EXCEPT ![g] = c]
      BY <3>0
    <3>2. pc \in {"wait", "done"} /\ status \in {"none", "ok"} /\ Len(txs) + 1 \in Nat
      BY <1>1, <3>0
    <3>3. c \in CallTypes(call[g].kind)
      BY <1>3, <3>2 DEF CallTypes
    <3>4. c.kind = call[g].kind /\ c.pc = pc /\ c.tx = Len(txs) + 1 /\ c.key = call[g].key
      BY <1>3 DEF CallTypes
    <3> HIDE DEF c
    <3>5. call[g].key # Nil
      BY <1>2, <1>3 DEF CallOK
    <3>6. CallOK(c, Len(txs'), AllCalls)
      BY <1>1, <1>3, <1>4, <3>2, <3>3, <3>4, <3>5, CallKinds DEF CallOK
    <3> QED
      BY <3>1, <3>6
  <2> QED
    BY <2>1, <2>2 DEF Send, AnswerIsLost
<1>7. DOMAIN call' = Goroutines /\ \A h \in Goroutines : CallOK(call'[h], Len(txs'), AllCalls')
  <2>1. Len(txs') \in Nat /\ Len(txs) <= Len(txs')
    BY <1>1, <1>4
  <2>2. \E c : call' = [call EXCEPT ![g] = c] /\ CallOK(c, Len(txs'), AllCalls')
    BY <1>2, <1>6, TypesGrow
  <2> QED
    BY <1>2, <2>1, <2>2, CallTypeStep
<1>8. txs' \in Seq(Transactions')
  BY <1>2, <1>4, TypesGrow
<1>9. /\ waiting' \in Seq(Signers) /\ passed' \in Seq(Signers)
      /\ config' \in Configs /\ requests' \in Programs
      /\ nonces' \in [Senders -> Nat] /\ deposit' \in [Senders -> Nat]
      /\ code' \subseteq {Account(o) : o \in {Owner, Account(Owner)}}
      /\ calls' \in 0 .. Len(requests') /\ turns' \in 0 .. calls'
  BY <1>2 DEF TypeOK, chainVars
<1>10. TypeOK' <=> Typed'
  BY TypeOKByCall, PTL
<1> QED
  BY <1>5, <1>7, <1>8, <1>9, <1>10 DEF Typed

LEMMA TypeStep ==
  ASSUME TypeOK, Rotates, TurnsCounted, [Next]_vars
  PROVE  TypeOK'
<1>1. CASE UNCHANGED vars
  BY <1>1 DEF vars, rotationVars, chainVars, program, TypeOK, At, Transactions, TxTypes,
              CallTypes, KeysOf
<1>2. ASSUME NEW g \in Goroutines, Step(g) \/ ContextEnds(g)
      PROVE  TypeOK'
  BY <1>2, LocalTypes, RotateTypes, SendTypes DEF Step, LocalStep
<1>3. ASSUME NEW g \in Goroutines, Begin(g)
      PROVE  TypeOK'
  BY <1>3, BeginTypes
<1>4. ASSUME NEW i \in DOMAIN txs, Mine(i) \/ Drop(i)
      PROVE  TypeOK'
  BY <1>4, MineTypes
<1>5. ASSUME NEW s \in Joining, AddSigner(s)
      PROVE  TypeOK'
  <2>1. waiting' \in Seq(Signers) /\ passed' \in Seq(Signers)
    BY <1>5, ExecutorAssumption, AppendProperties DEF AddSigner, Join, TypeOK
  <2>2. UNCHANGED <<config, requests, call, txs, nonces, deposit, code, calls, turns>>
    BY <1>5 DEF AddSigner, chainVars, program
  <2> QED
    BY <2>1, <2>2 DEF TypeOK, At, Transactions, TxTypes, CallTypes, KeysOf
<1> QED
  BY <1>1, <1>2, <1>3, <1>4, <1>5 DEF Next

-----------------------------------------------------------------------------
(* What the steps do to a call.                                             *)

\* d is c, but for the progress of the call.
SameCall(c, d) ==
  /\ d.kind = c.kind /\ d.target = c.target /\ d.key = c.key
  /\ d.turn = c.turn /\ d.size = c.size /\ d.attempt = c.attempt

OthersStay(g) == \A h \in Goroutines : h # g => call'[h] = call[h]

LEMMA LocalEffect ==
  ASSUME TypeOK, NEW g \in Goroutines, LocalStep(g)
  PROVE  /\ UNCHANGED <<rotationVars, program, txs, chainVars, calls, turns>>
         /\ OthersStay(g) /\ SameCall(call[g], call'[g]) /\ call'[g].tx = call[g].tx
         /\ \/ /\ call'[g].pc = "done" /\ call'[g].nonce = call[g].nonce
               /\ \/ call'[g].status = "error"
                  \/ Refuse(g) /\ call[g].pc = "send" /\ call'[g].status = "refused"
                  \/ /\ call[g].pc = "wait" /\ HasReceipt(call[g].tx)
                     /\ call'[g].status = "ok"
            \/ call[g].pc = "estimate" /\ call'[g].pc = "nonce" /\ Simulates(g)
            \/ /\ call[g].pc = "nonce" /\ call'[g].pc = "send"
               /\ call'[g].nonce = PendingNonce(call[g].key)
<1>1. call[g].pc # "idle"
  BY DEF LocalStep, NodeFails, Refuse, TakeReceipt, ContextEnds, Estimate, ReadNonce, At
<1>2. call[g] \in CallTypes(call[g].kind) /\ DOMAIN call = Goroutines
  BY <1>1, CallFacts DEF TypeOK
<1>3. UNCHANGED <<rotationVars, program, txs, chainVars, calls, turns>>
  BY DEF LocalStep, NodeFails, Refuse, TakeReceipt, ContextEnds, Estimate, ReadNonce
<1>4. ASSUME NEW status, Return(g, status)
      PROVE  /\ OthersStay(g) /\ SameCall(call[g], call'[g]) /\ call'[g].tx = call[g].tx
             /\ call'[g].pc = "done" /\ call'[g].nonce = call[g].nonce /\ call'[g].status = status
  BY <1>2, <1>4 DEF Return, OthersStay, SameCall, CallTypes
<1>5. CASE NodeFails(g) \/ ContextEnds(g)
  BY <1>3, <1>4, <1>5 DEF NodeFails, ContextEnds
<1>6. CASE Refuse(g)
  BY <1>3, <1>4, <1>6 DEF Refuse, At
<1>7. CASE TakeReceipt(g)
  BY <1>3, <1>4, <1>7 DEF TakeReceipt, At
<1>8. CASE Estimate(g)
  BY <1>2, <1>3, <1>8 DEF Estimate, Goto, At, OthersStay, SameCall, CallTypes
<1>9. CASE ReadNonce(g)
  <2> DEFINE n == PendingNonce(call[g].key)
  <2>1. call' = [call EXCEPT ![g].pc = "send", ![g].nonce = n] /\ call[g].pc = "nonce"
    BY <1>9 DEF ReadNonce, At
  <2> HIDE DEF n
  <2>2. /\ OthersStay(g) /\ SameCall(call[g], call'[g]) /\ call'[g].tx = call[g].tx
        /\ call'[g].pc = "send" /\ call'[g].nonce = n
    BY <1>2, <2>1 DEF OthersStay, SameCall, CallTypes
  <2> QED
    BY <1>3, <2>1, <2>2 DEF n
<1> QED
  BY <1>5, <1>6, <1>7, <1>8, <1>9 DEF LocalStep

LEMMA RotateEffect ==
  ASSUME TypeOK, Rotates, TurnsCounted, NEW g \in Goroutines, Rotate(g)
  PROVE  /\ UNCHANGED <<program, txs, chainVars, calls>> /\ turns' = turns + 1
         /\ OthersStay(g) /\ call[g].pc = "rotate" /\ call'[g].pc = "estimate"
         /\ call'[g].kind = call[g].kind /\ call[g].kind \in HandleKinds
         /\ call'[g].attempt = call[g].attempt
         /\ call'[g].key = Head(waiting) /\ call'[g].turn = turns + 1
         /\ call'[g].size = Len(waiting) + Len(passed)
         /\ TakeTurn /\ waiting # <<>>
<1>1. TakeTurn /\ call[g].pc = "rotate"
  BY RotateTypes DEF Rotate, At
<1>2. call[g] \in CallTypes(call[g].kind) /\ DOMAIN call = Goroutines
      /\ call[g].kind \in HandleKinds
  BY <1>1, CallFacts DEF TypeOK, CallOK
<1>3. last' = Head(waiting) /\ waiting # <<>>
  BY <1>1 DEF TakeTurn
<1> QED
  BY <1>1, <1>2, <1>3 DEF Rotate, OthersStay, CallTypes

LEMMA BeginEffect ==
  ASSUME TypeOK, NEW g \in Goroutines, Begin(g)
  PROVE  /\ UNCHANGED <<rotationVars, program, txs, chainVars, turns>>
         /\ calls' = calls + 1 /\ OthersStay(g)
         /\ call[g].pc \in {"idle", "done"} /\ call'[g].attempt = calls + 1
         /\ \/ call'[g].pc = "done" /\ call'[g].status = "panic"
            \/ /\ call'[g].pc = "rotate" /\ call'[g].status = "none" /\ waiting # <<>>
               /\ call'[g].kind \in HandleKinds
            \/ /\ call'[g].pc = "estimate" /\ call'[g].status = "none"
               /\ call'[g].kind \notin HandleKinds
<1>1. DOMAIN call = Goroutines
  BY DEF TypeOK
<1>2. PICK kind, target, key :
        call' = [call EXCEPT ![g] =
          [pc |-> IF Panics(kind) THEN "done"
                  ELSE IF kind \in HandleKinds THEN "rotate" ELSE "estimate",
           status |-> IF Panics(kind) THEN "panic" ELSE "none",
           kind |-> kind, target |-> target, attempt |-> calls',
           key |-> key, turn |-> 0, size |-> 0, nonce |-> 0, tx |-> 0]]
  BY DEF Begin
<1>3. /\ UNCHANGED <<rotationVars, program, txs, chainVars, turns>>
      /\ calls' = calls + 1 /\ call[g].pc \in {"idle", "done"}
  BY DEF Begin, At
<1>4. /\ OthersStay(g) /\ call'[g].kind = kind /\ call'[g].attempt = calls'
      /\ call'[g].pc = IF Panics(kind) THEN "done"
                       ELSE IF kind \in HandleKinds THEN "rotate" ELSE "estimate"
      /\ call'[g].status = IF Panics(kind) THEN "panic" ELSE "none"
  BY <1>1, <1>2 DEF OthersStay
<1> QED
  BY <1>3, <1>4 DEF Panics, NoSigners

\* A sent call waits for its transaction, is done with it, or does not know of it.
LEMMA SendEffect ==
  ASSUME TypeOK, NEW g \in Goroutines, Send(g)
  PROVE  /\ UNCHANGED <<rotationVars, program, chainVars, calls, turns>>
         /\ OthersStay(g) /\ SameCall(call[g], call'[g]) /\ call[g].pc = "send"
         /\ \/ call'[g].pc = "done" /\ call'[g].status = "error"
            \/ /\ call'[g].tx = Len(txs) + 1
               /\ \/ /\ call'[g].pc = "wait" /\ call[g].kind \notin HandleKinds
                  \/ /\ call'[g].pc = "done" /\ call'[g].status = "ok"
                     /\ call[g].kind \in HandleKinds
<1>1. call[g].pc = "send" /\ UNCHANGED <<rotationVars, program, chainVars, calls, turns>>
  BY DEF Send, At
<1>2. call[g] \in CallTypes(call[g].kind) /\ DOMAIN call = Goroutines
  BY <1>1, CallFacts DEF TypeOK
<1>3. CASE Return(g, "error")
  BY <1>1, <1>2, <1>3 DEF Return, OthersStay, SameCall, CallTypes
<1>4. CASE Sent(g, Len(txs) + 1)
  <2>1. CASE WaitsMined(call[g].kind)
    BY <1>1, <1>2, <1>4, <2>1 DEF Sent, WaitsMined, OthersStay, SameCall, CallTypes
  <2>2. CASE ~WaitsMined(call[g].kind)
    BY <1>1, <1>2, <1>4, <2>2 DEF Sent, WaitsMined, OthersStay, SameCall, CallTypes
  <2> QED
    BY <2>1, <2>2
<1> QED
  BY <1>3, <1>4 DEF Send, AnswerIsLost

\* The cases of a step.
LEMMA Cases ==
  ASSUME [Next]_vars
  PROVE  \/ UNCHANGED vars
         \/ \E g \in Goroutines : LocalStep(g)
         \/ \E g \in Goroutines : Rotate(g)
         \/ \E g \in Goroutines : Send(g)
         \/ \E g \in Goroutines : Begin(g)
         \/ \E i \in DOMAIN txs : Mine(i)
         \/ \E i \in DOMAIN txs : Drop(i)
         \/ \E s \in Joining : AddSigner(s)
  BY DEF Next, Step, LocalStep

-----------------------------------------------------------------------------
(* The rotation.                                                            *)

\* A turn moves the first key to the end.
LEMMA TurnOrder ==
  ASSUME TypeOK, TakeTurn
  PROVE  LET n == Len(waiting) + Len(passed)
         IN  /\ n \in Nat /\ n >= 1 /\ DOMAIN Order = 1 .. n /\ DOMAIN Order' = 1 .. n
             /\ \A i \in 1 .. n - 1 : Order'[i] = Order[i + 1]
             /\ Order'[n] = Order[1] /\ Order[1] = Head(waiting)
             /\ waiting' # <<>>
<1> DEFINE w == Len(waiting)
           p == Len(passed)
           h == Head(waiting)
           t == Tail(waiting)
<1>1. /\ waiting \in Seq(Signers) /\ passed \in Seq(Signers) /\ waiting # <<>>
      /\ w \in Nat /\ p \in Nat /\ w >= 1
      /\ h \in Signers /\ t \in Seq(Signers) /\ Len(t) = w - 1
      /\ h = waiting[1] /\ \A i \in 1 .. w - 1 : t[i] = waiting[i + 1]
  BY HeadTailProperties, EmptySeq, LenProperties DEF TypeOK, TakeTurn
<1>2. /\ Order \in Seq(Signers) /\ Len(Order) = w + p
      /\ \A i \in 1 .. w + p : Order[i] = IF i <= w THEN waiting[i] ELSE passed[i - w]
  BY <1>1, ConcatProperties DEF Order
<1>3. CASE t = <<>>
  <2>1. w = 1
    <3>1. Len(t) = 0
      BY <1>3, EmptySeq
    <3>2. Len(t) = w - 1 /\ w \in Nat
      BY <1>1
    <3> HIDE DEF w, t
    <3> QED
      BY ONLY <3>1, <3>2
  <2>2. waiting' = passed \o waiting /\ passed' = <<>>
    BY <1>3 DEF TakeTurn
  <2>3. /\ waiting' \in Seq(Signers) /\ Len(waiting') = p + w
        /\ \A i \in 1 .. p + w : waiting'[i] = IF i <= p THEN passed[i] ELSE waiting[i - p]
    BY <1>1, <2>2, ConcatProperties
  <2>4. Order' = waiting'
    BY <2>2, <2>3, ConcatEmptySeq DEF Order
  <2> HIDE DEF w, p
  <2>5. DOMAIN Order' = 1 .. w + p /\ waiting' # <<>>
    BY <1>1, <2>1, <2>3, <2>4, LenProperties
  <2>6. Order'[w + p] = Order[1] /\ \A i \in 1 .. w + p - 1 : Order'[i] = Order[i + 1]
    BY <1>1, <1>2, <2>1, <2>3, <2>4
  <2> QED
    BY <1>1, <1>2, <2>5, <2>6, LenProperties DEF w, p
<1>4. CASE t # <<>>
  <2>1. waiting' = t /\ passed' = Append(passed, h)
    BY <1>4 DEF TakeTurn
  <2>2. /\ passed' \in Seq(Signers) /\ Len(passed') = p + 1
        /\ \A i \in 1 .. p : passed'[i] = passed[i]
        /\ passed'[p + 1] = h
    BY <1>1, <2>1, AppendProperties
  <2>3. /\ Order' \in Seq(Signers) /\ Len(Order') = Len(t) + Len(passed')
        /\ \A i \in 1 .. Len(t) + Len(passed') :
             Order'[i] = IF i <= Len(t) THEN t[i] ELSE passed'[i - Len(t)]
    BY <1>1, <2>1, <2>2, ConcatProperties DEF Order
  <2> HIDE DEF w, p, h, t
  <2>4. DOMAIN Order' = 1 .. w + p
    BY <1>1, <2>2, <2>3, LenProperties
  <2>5. Order'[w + p] = Order[1]
    BY <1>1, <1>2, <2>2, <2>3
  <2>6. ASSUME NEW i \in 1 .. w + p - 1
        PROVE  Order'[i] = Order[i + 1]
    <3>1. CASE i <= w - 1
      <4>1. i \in 1 .. w - 1 /\ i <= Len(t) /\ i + 1 <= w /\ i + 1 \in 1 .. w + p
            /\ i \in 1 .. Len(t) + Len(passed')
        BY <1>1, <2>2, <3>1
      <4>2. Order'[i] = t[i]
        BY <2>3, <4>1
      <4>3. Order[i + 1] = waiting[i + 1]
        BY <1>2, <4>1
      <4> QED
        BY <1>1, <4>1, <4>2, <4>3
    <3>2. CASE i > w - 1
      <4>1. i - Len(t) \in 1 .. p /\ i - Len(t) = (i + 1) - w /\ ~(i <= Len(t)) /\ ~(i + 1 <= w)
        BY <1>1, <3>2
      <4>2. Order'[i] = passed'[i - Len(t)]
        BY <1>1, <2>2, <2>3, <4>1
      <4>3. Order[i + 1] = passed[(i + 1) - w]
        BY <1>1, <1>2, <4>1
      <4> QED
        BY <2>2, <4>1, <4>2, <4>3
    <3> QED
      BY <1>1, <3>1, <3>2
  <2> QED
    BY <1>1, <1>2, <1>4, <2>1, <2>4, <2>5, <2>6, LenProperties DEF w, p, h, t
<1> QED
  BY <1>3, <1>4

\* A key that joins moves the others back or leaves them where they are.
LEMMA JoinOrder ==
  ASSUME TypeOK, NEW s \in Signers, Join(s)
  PROVE  LET n == Len(waiting) + Len(passed)
             w == Len(waiting)
         IN  /\ n \in Nat /\ w \in Nat /\ w <= n
             /\ DOMAIN Order = 1 .. n /\ DOMAIN Order' = 1 .. n + 1
             /\ \A i \in 1 .. w : Order'[i] = Order[i]
             /\ Order'[w + 1] = s
             /\ \A i \in w + 1 .. n : Order'[i + 1] = Order[i]
             /\ waiting' # <<>>
<1> DEFINE w == Len(waiting)
           p == Len(passed)
<1>1. /\ waiting \in Seq(Signers) /\ passed \in Seq(Signers)
      /\ w \in Nat /\ p \in Nat
  BY LenProperties DEF TypeOK
<1>2. /\ Order \in Seq(Signers) /\ Len(Order) = w + p
      /\ \A i \in 1 .. w + p : Order[i] = IF i <= w THEN waiting[i] ELSE passed[i - w]
  BY <1>1, ConcatProperties DEF Order
<1>3. waiting' = Append(waiting, s) /\ passed' = passed
  BY DEF Join
<1>4. /\ waiting' \in Seq(Signers) /\ Len(waiting') = w + 1
      /\ \A i \in 1 .. w : waiting'[i] = waiting[i]
      /\ waiting'[w + 1] = s
  BY <1>1, <1>3, AppendProperties
<1>5. /\ Order' \in Seq(Signers) /\ Len(Order') = Len(waiting') + p
      /\ \A i \in 1 .. Len(waiting') + p :
           Order'[i] = IF i <= Len(waiting') THEN waiting'[i] ELSE passed[i - Len(waiting')]
  BY <1>1, <1>3, <1>4, ConcatProperties DEF Order
<1> HIDE DEF w, p
<1>6. DOMAIN Order = 1 .. w + p /\ DOMAIN Order' = 1 .. w + p + 1
  BY <1>1, <1>2, <1>4, <1>5, LenProperties
<1>7. \A i \in 1 .. w : Order'[i] = Order[i]
  BY <1>1, <1>2, <1>4, <1>5
<1>8. Order'[w + 1] = s
  BY <1>1, <1>4, <1>5
<1>9. ASSUME NEW i \in w + 1 .. w + p
      PROVE  Order'[i + 1] = Order[i]
  <2>1. /\ i \in 1 .. w + p /\ ~(i <= w) /\ i + 1 \in 1 .. Len(waiting') + p
        /\ ~(i + 1 <= Len(waiting')) /\ (i + 1) - Len(waiting') = i - w
    BY <1>1, <1>4
  <2>2. Order'[i + 1] = passed[(i + 1) - Len(waiting')]
    BY <1>5, <2>1
  <2>3. Order[i] = passed[i - w]
    BY <1>2, <2>1
  <2> QED
    BY <2>1, <2>2, <2>3
<1>10. waiting' # <<>>
  BY <1>1, <1>4, EmptySeq
<1> QED
  BY <1>1, <1>6, <1>7, <1>8, <1>9, <1>10 DEF w, p

LEMMA RotatesStep ==
  ASSUME TypeOK, Rotates, TurnsCounted, [Next]_vars
  PROVE  Rotates'
<1>1. ASSUME UNCHANGED <<waiting, passed>>,
             \A g \in Goroutines : call'[g].pc = "rotate" => call[g].pc = "rotate" \/ waiting # <<>>
      PROVE  Rotates'
  BY <1>1 DEF Rotates, At
<1>2. CASE UNCHANGED vars
  BY <1>1, <1>2 DEF vars, rotationVars
<1>3. ASSUME NEW g \in Goroutines, LocalStep(g)
      PROVE  Rotates'
  BY <1>1, <1>3, LocalEffect DEF rotationVars, OthersStay
<1>4. ASSUME NEW g \in Goroutines, Send(g)
      PROVE  Rotates'
  BY <1>1, <1>4, SendEffect DEF rotationVars, OthersStay
<1>5. ASSUME NEW g \in Goroutines, Begin(g)
      PROVE  Rotates'
  BY <1>1, <1>5, BeginEffect DEF rotationVars, OthersStay
<1>6. ASSUME NEW i \in DOMAIN txs, Mine(i) \/ Drop(i)
      PROVE  Rotates'
  BY <1>1, <1>6 DEF Mine, Drop, rotationVars
<1>7. ASSUME NEW g \in Goroutines, Rotate(g)
      PROVE  Rotates'
  BY <1>7, RotateEffect, TurnOrder DEF Rotates
<1>8. ASSUME NEW s \in Joining, AddSigner(s)
      PROVE  Rotates'
  <2>1. Join(s) /\ s \in Signers
    BY <1>8, ExecutorAssumption DEF AddSigner
  <2> QED
    BY <2>1, JoinOrder DEF Rotates
<1> QED
  BY <1>2, <1>3, <1>4, <1>5, <1>6, <1>7, <1>8, Cases

\* A key that is in the rotation once was not in it more often.
LEMMA OnceKept ==
  ASSUME TypeOK, NEW k, Once(k)',
         UNCHANGED <<waiting, passed>> \/ TakeTurn \/ \E s \in Signers : Join(s)
  PROVE  Once(k)
<1> DEFINE n == Len(waiting) + Len(passed)
           w == Len(waiting)
<1>1. \A i, j \in DOMAIN Order' : Order'[i] = k /\ Order'[j] = k => i = j
  BY DEF Once
<1>2. CASE UNCHANGED <<waiting, passed>>
  BY <1>2 DEF Once, Order
<1>4. CASE TakeTurn
  <2>1. /\ n \in Nat /\ n >= 1 /\ DOMAIN Order = 1 .. n /\ DOMAIN Order' = 1 .. n
        /\ \A i \in 1 .. n - 1 : Order'[i] = Order[i + 1]
        /\ Order'[n] = Order[1]
    BY <1>4, TurnOrder
  <2> HIDE DEF n
  <2> SUFFICES ASSUME NEW i \in 1 .. n, NEW j \in 1 .. n, Order[i] = k, Order[j] = k
               PROVE  i = j
    BY <2>1 DEF Once
  <2>2. ASSUME NEW a \in 1 .. n
        PROVE  \E b \in 1 .. n : Order'[b] = Order[a] /\ b = IF a = 1 THEN n ELSE a - 1
    <3>1. CASE a = 1
      BY <2>1, <3>1
    <3>2. CASE a # 1
      <4>1. a - 1 \in 1 .. n - 1 /\ a - 1 \in 1 .. n /\ (a - 1) + 1 = a
        BY <2>1, <3>2
      <4>2. Order'[a - 1] = Order[(a - 1) + 1]
        BY <2>1, <4>1
      <4> QED
        BY <3>2, <4>1, <4>2
    <3> QED
      BY <3>1, <3>2
  <2>3. PICK b \in 1 .. n : Order'[b] = k /\ b = IF i = 1 THEN n ELSE i - 1
    BY <2>2
  <2>4. PICK c \in 1 .. n : Order'[c] = k /\ c = IF j = 1 THEN n ELSE j - 1
    BY <2>2
  <2>5. b = c
    BY <1>1, <2>1, <2>3, <2>4
  <2> QED
    BY ONLY <2>1, <2>3, <2>4, <2>5, i \in 1 .. n, j \in 1 .. n
<1>5. CASE \E s \in Signers : Join(s)
  <2>1. /\ n \in Nat /\ w \in Nat /\ w <= n
        /\ DOMAIN Order = 1 .. n /\ DOMAIN Order' = 1 .. n + 1
        /\ \A i \in 1 .. w : Order'[i] = Order[i]
        /\ \A i \in w + 1 .. n : Order'[i + 1] = Order[i]
    BY <1>5, JoinOrder
  <2> HIDE DEF n, w
  <2> SUFFICES ASSUME NEW i \in 1 .. n, NEW j \in 1 .. n, Order[i] = k, Order[j] = k
               PROVE  i = j
    BY <2>1 DEF Once
  <2>2. ASSUME NEW a \in 1 .. n
        PROVE  \E b \in 1 .. n + 1 : Order'[b] = Order[a] /\ b = IF a <= w THEN a ELSE a + 1
    <3>1. CASE a <= w
      BY <2>1, <3>1
    <3>2. CASE a > w
      <4>1. a \in w + 1 .. n /\ a + 1 \in 1 .. n + 1
        BY <2>1, <3>2
      <4> QED
        BY <2>1, <3>2, <4>1
    <3> QED
      BY <2>1, <3>1, <3>2
  <2>3. PICK b \in 1 .. n + 1 : Order'[b] = k /\ b = IF i <= w THEN i ELSE i + 1
    BY <2>2
  <2>4. PICK c \in 1 .. n + 1 : Order'[c] = k /\ c = IF j <= w THEN j ELSE j + 1
    BY <2>2
  <2>5. b = c
    BY <1>1, <2>1, <2>3, <2>4
  <2> QED
    BY ONLY <2>1, <2>3, <2>4, <2>5, i \in 1 .. n, j \in 1 .. n
<1> QED
  BY <1>2, <1>4, <1>5

LEMMA TurnsCountedStep ==
  ASSUME TypeOK, Rotates, TurnsCounted, [Next]_vars
  PROVE  TurnsCounted'
<1>1. /\ IsFiniteSet(AtRotation) /\ Cardinality(AtRotation) \in Nat
      /\ turns \in Nat /\ calls \in Nat
      /\ turns + Cardinality(AtRotation) <= calls
  BY Numbers, FS_CardinalityType DEF TurnsCounted
<1>2. ASSUME NEW R, R \subseteq AtRotation, AtRotation' = R, UNCHANGED <<calls, turns>>
      PROVE  TurnsCounted'
  <2>1. IsFiniteSet(R) /\ Cardinality(R) <= Cardinality(AtRotation) /\ Cardinality(R) \in Nat
    BY <1>1, <1>2, FS_Subset, FS_CardinalityType
  <2> QED
    BY <1>1, <1>2, <2>1 DEF TurnsCounted
<1>3. CASE UNCHANGED vars
  BY <1>2, <1>3 DEF vars, AtRotation, At
<1>4. ASSUME NEW g \in Goroutines, LocalStep(g)
      PROVE  TurnsCounted'
  BY <1>2, <1>4, LocalEffect DEF OthersStay, AtRotation, At
<1>5. ASSUME NEW g \in Goroutines, Send(g)
      PROVE  TurnsCounted'
  BY <1>2, <1>5, SendEffect DEF OthersStay, AtRotation, At
<1>6. ASSUME NEW g \in Goroutines, Begin(g)
      PROVE  TurnsCounted'
  <2>1. calls' = calls + 1 /\ turns' = turns
        /\ (AtRotation' = AtRotation \/ AtRotation' = AtRotation \cup {g})
    BY <1>6, BeginEffect DEF OthersStay, AtRotation, At
  <2>2. IsFiniteSet(AtRotation \cup {g})
        /\ Cardinality(AtRotation \cup {g}) \in Nat
        /\ Cardinality(AtRotation \cup {g}) <= Cardinality(AtRotation) + 1
    <3>1. /\ IsFiniteSet(AtRotation \cup {g})
          /\ Cardinality(AtRotation \cup {g}) =
               IF g \in AtRotation THEN Cardinality(AtRotation) ELSE Cardinality(AtRotation) + 1
      BY <1>1, FS_AddElement
    <3> QED
      BY <1>1, <3>1
  <2>3. CASE AtRotation' = AtRotation
    BY <1>1, <2>1, <2>3 DEF TurnsCounted
  <2>4. CASE AtRotation' = AtRotation \cup {g}
    <3> DEFINE R == AtRotation \cup {g}
    <3>1. IsFiniteSet(R) /\ turns + Cardinality(R) <= calls + 1
      BY <1>1, <2>2
    <3>2. AtRotation' = R
      BY <2>4
    <3> HIDE DEF R
    <3> QED
      BY <2>1, <3>1, <3>2 DEF TurnsCounted
  <2> QED
    BY <2>1, <2>3, <2>4
<1>7. ASSUME NEW i \in DOMAIN txs, Mine(i) \/ Drop(i)
      PROVE  TurnsCounted'
  BY <1>2, <1>7 DEF Mine, Drop, AtRotation, At
<1>8. ASSUME NEW g \in Goroutines, Rotate(g)
      PROVE  TurnsCounted'
  <2>1. calls' = calls /\ turns' = turns + 1 /\ g \in AtRotation
        /\ AtRotation' = AtRotation \ {g}
    BY <1>8, RotateEffect DEF OthersStay, AtRotation, At
  <2>2. IsFiniteSet(AtRotation \ {g})
        /\ Cardinality(AtRotation \ {g}) = Cardinality(AtRotation) - 1
        /\ Cardinality(AtRotation \ {g}) \in Nat
    BY <1>1, <2>1, FS_RemoveElement, FS_CardinalityType
  <2> QED
    BY <1>1, <2>1, <2>2 DEF TurnsCounted
<1>9. ASSUME NEW s \in Joining, AddSigner(s)
      PROVE  TurnsCounted'
  BY <1>2, <1>9 DEF AddSigner, AtRotation, At
<1> QED
  BY <1>3, <1>4, <1>5, <1>6, <1>7, <1>8, <1>9, Cases

\* Some turn at or after next is that of the key.
PlaceIn(order, now, key, next) ==
  \E i \in DOMAIN order : order[i] = key /\ next <= now + i

\* A key's next turn does not come earlier than it was bound to.
LEMMA PlaceKept ==
  ASSUME TypeOK, NEW key, NEW next \in Nat, PlaceIn(Order, turns, key, next),
         \/ UNCHANGED <<waiting, passed, turns>>
         \/ TakeTurn /\ turns' = turns + 1
         \/ turns' = turns /\ \E s \in Signers : Join(s)
  PROVE  PlaceIn(Order', turns', key, next)
<1> DEFINE n == Len(waiting) + Len(passed)
           w == Len(waiting)
<1>1. turns \in Nat
  BY DEF TypeOK
<1>2. CASE UNCHANGED <<waiting, passed, turns>>
  BY <1>2 DEF Order, PlaceIn
<1>3. CASE TakeTurn /\ turns' = turns + 1
  <2>1. /\ n \in Nat /\ n >= 1 /\ DOMAIN Order = 1 .. n /\ DOMAIN Order' = 1 .. n
        /\ \A i \in 1 .. n - 1 : Order'[i] = Order[i + 1]
        /\ Order'[n] = Order[1]
    BY <1>3, TurnOrder
  <2> HIDE DEF n
  <2>2. PICK i \in 1 .. n : Order[i] = key /\ next <= turns + i
    BY <2>1 DEF PlaceIn
  <2>3. CASE i = 1
    <3>1. n \in 1 .. n /\ Order'[n] = key /\ next <= turns' + n
      BY <1>1, <1>3, <2>1, <2>2, <2>3
    <3> QED
      BY <2>1, <3>1 DEF PlaceIn
  <2>4. CASE i # 1
    <3>1. i - 1 \in 1 .. n - 1 /\ i - 1 \in 1 .. n /\ (i - 1) + 1 = i
      BY <2>1, <2>4
    <3>2. Order'[i - 1] = key
      BY <2>1, <2>2, <3>1
    <3>3. next <= turns' + (i - 1)
      BY <1>1, <1>3, <2>1, <2>2
    <3> QED
      BY <2>1, <3>1, <3>2, <3>3 DEF PlaceIn
  <2> QED
    BY <2>3, <2>4
<1>4. CASE turns' = turns /\ \E s \in Signers : Join(s)
  <2>1. /\ n \in Nat /\ w \in Nat /\ w <= n
        /\ DOMAIN Order = 1 .. n /\ DOMAIN Order' = 1 .. n + 1
        /\ \A i \in 1 .. w : Order'[i] = Order[i]
        /\ \A i \in w + 1 .. n : Order'[i + 1] = Order[i]
    BY <1>4, JoinOrder
  <2> HIDE DEF n, w
  <2>2. PICK i \in 1 .. n : Order[i] = key /\ next <= turns + i
    BY <2>1 DEF PlaceIn
  <2>3. CASE i <= w
    BY <1>4, <2>1, <2>2, <2>3 DEF PlaceIn
  <2>4. CASE i > w
    <3>1. i \in w + 1 .. n /\ i + 1 \in 1 .. n + 1
      BY <2>1, <2>4
    <3>2. Order'[i + 1] = key /\ next <= turns' + (i + 1)
      BY <1>1, <1>4, <2>1, <2>2, <3>1
    <3> QED
      BY <2>1, <3>1, <3>2 DEF PlaceIn
  <2> QED
    BY <2>1, <2>3, <2>4
<1> QED
  BY <1>2, <1>3, <1>4

-----------------------------------------------------------------------------
(* The list of transactions over a step.                                    *)

\* Mining takes one transaction out of the pool: it succeeds, or it reverts.
LEMMA MineEffect ==
  ASSUME TypeOK, NEW i \in DOMAIN txs, Mine(i)
  PROVE  /\ UNCHANGED <<rotationVars, program, call, calls, turns>>
         /\ txs[i].status = "pool" /\ DOMAIN txs' = DOMAIN txs
         /\ txs'[i].status \in Mined /\ \A j \in DOMAIN txs : j # i => txs'[j] = txs[j]
         /\ \A j \in DOMAIN txs : Kept(j)
         /\ \/ txs'[i].status = "success" /\ txs'[i].settled = calls /\ Executes(txs[i])
            \/ txs'[i].status = "reverted" /\ UNCHANGED chainVars
<1>1. UNCHANGED <<rotationVars, program, call, calls, turns>> /\ txs[i].status = "pool"
  BY DEF Mine
<1>2. \/ /\ Executes(txs[i])
         /\ txs' = [txs EXCEPT ![i].status = "success", ![i].settled = calls]
      \/ /\ txs' = [txs EXCEPT ![i].status = "reverted"]
         /\ UNCHANGED chainVars
  BY DEF Mine
<1>3. {"success", "reverted"} \subseteq Mined \cup {"dropped", "replaced"}
  BY DEF Mined
<1>4. CASE /\ Executes(txs[i])
           /\ txs' = [txs EXCEPT ![i].status = "success", ![i].settled = calls]
  <2>1. /\ DOMAIN txs' = DOMAIN txs /\ txs'[i].status = "success" /\ txs'[i].settled = calls
        /\ \A j \in DOMAIN txs : j # i => txs'[j] = txs[j]
        /\ \A j \in DOMAIN txs : Kept(j)
    BY <1>3, <1>4, StatusChange
  <2> QED
    BY <1>1, <1>4, <2>1 DEF Mined
<1>5. CASE /\ txs' = [txs EXCEPT ![i].status = "reverted"]
           /\ UNCHANGED chainVars
  <2>1. /\ DOMAIN txs' = DOMAIN txs /\ txs'[i].status = "reverted"
        /\ \A j \in DOMAIN txs : j # i => txs'[j] = txs[j]
        /\ \A j \in DOMAIN txs : Kept(j)
    BY <1>3, <1>5, StatusChange
  <2> QED
    BY <1>1, <1>5, <2>1 DEF Mined
<1> QED
  BY <1>2, <1>4, <1>5

\* Dropping does the same without a receipt.
LEMMA DropEffect ==
  ASSUME TypeOK, NEW i \in DOMAIN txs, Drop(i)
  PROVE  /\ UNCHANGED <<rotationVars, program, call, chainVars, calls, turns>>
         /\ txs[i].status = "pool" /\ DOMAIN txs' = DOMAIN txs
         /\ txs'[i].status = "dropped" /\ \A j \in DOMAIN txs : j # i => txs'[j] = txs[j]
         /\ \A j \in DOMAIN txs : Kept(j)
<1>1. /\ UNCHANGED <<rotationVars, program, call, chainVars, calls, turns>>
      /\ txs[i].status = "pool" /\ txs' = [txs EXCEPT ![i].status = "dropped"]
  BY DEF Drop
<1> QED
  BY <1>1, StatusChange

LEMMA Ledger ==
  ASSUME TypeOK, [Next]_vars
  PROVE  /\ DOMAIN txs \subseteq DOMAIN txs'
         /\ \A i \in DOMAIN txs : Kept(i)
         /\ \A i \in DOMAIN txs : txs[i].status # "pool" =>
              txs'[i].status = txs[i].status /\ txs'[i].settled = txs[i].settled
<1>1. CASE UNCHANGED txs
  BY <1>1 DEF Kept, Same
<1>2. ASSUME NEW g \in Goroutines, Send(g)
      PROVE  /\ DOMAIN txs \subseteq DOMAIN txs'
             /\ \A i \in DOMAIN txs : Kept(i)
             /\ \A i \in DOMAIN txs : txs[i].status # "pool" =>
                  txs'[i].status = txs[i].status /\ txs'[i].settled = txs[i].settled
  BY <1>2, Sends DEF InPool, OfKey
<1>5. CASE \E g \in Goroutines : LocalStep(g) \/ Rotate(g)
  BY <1>1, <1>5, LocalEffect DEF Rotate
<1>6. CASE \E g \in Goroutines : Begin(g)
  BY <1>1, <1>6 DEF Begin
<1>7. CASE \E s \in Joining : AddSigner(s)
  BY <1>1, <1>7 DEF AddSigner
<1>8. CASE \E i \in DOMAIN txs : Mine(i) \/ Drop(i)
  BY <1>8, MineEffect, DropEffect
<1>9. CASE UNCHANGED vars
  BY <1>1, <1>9 DEF vars
<1> QED
  BY <1>2, <1>5, <1>6, <1>7, <1>8, <1>9, Cases

\* Mining adds one transaction to the mined ones of its key, and nothing else does.
LEMMA MinedSets ==
  ASSUME TypeOK, [Next]_vars
  PROVE  \/ \A k : OfKey(k, Mined)' = OfKey(k, Mined)
         \/ \E i \in DOMAIN txs :
              /\ txs[i].nonce = MinedNonce(txs[i].key)
              /\ \A k : /\ k # txs[i].key => OfKey(k, Mined)' = OfKey(k, Mined)
                        /\ i \notin OfKey(k, Mined)
              /\ OfKey(txs[i].key, Mined)' = OfKey(txs[i].key, Mined) \cup {i}
<1>1. CASE UNCHANGED txs
  BY <1>1 DEF OfKey
<1>2. ASSUME NEW g \in Goroutines, Send(g)
      PROVE  \A k : OfKey(k, Mined)' = OfKey(k, Mined)
  <2>1. txs'[Len(txs) + 1].status = "pool" /\ DOMAIN txs' = DOMAIN txs \cup {Len(txs) + 1}
        /\ Len(txs) + 1 \notin DOMAIN txs
    BY <1>2, Sends, NewTx
  <2>2. \A i \in DOMAIN txs : /\ txs'[i].key = txs[i].key
                              /\ txs'[i].status \in Mined <=> txs[i].status \in Mined
    <3> SUFFICES ASSUME NEW i \in DOMAIN txs
                 PROVE  txs'[i].key = txs[i].key /\ (txs'[i].status \in Mined <=> txs[i].status \in Mined)
      OBVIOUS
    <3>1. txs'[i].key = txs[i].key
      BY <1>2, Sends DEF Kept, Same
    <3>2. \/ txs'[i].status = txs[i].status
          \/ txs[i].status = "pool" /\ txs'[i].status = "replaced"
      BY <1>2, Sends DEF InPool, OfKey
    <3> QED
      BY <3>1, <3>2 DEF Mined
  <2> QED
    BY <2>1, <2>2 DEF OfKey, Mined
<1>3. ASSUME NEW i \in DOMAIN txs, Drop(i)
      PROVE  \A k : OfKey(k, Mined)' = OfKey(k, Mined)
  BY <1>3, DropEffect DEF OfKey, Mined
<1>4. ASSUME NEW i \in DOMAIN txs, Mine(i)
      PROVE  /\ txs[i].nonce = MinedNonce(txs[i].key)
             /\ \A k : /\ k # txs[i].key => OfKey(k, Mined)' = OfKey(k, Mined)
                       /\ i \notin OfKey(k, Mined)
             /\ OfKey(txs[i].key, Mined)' = OfKey(txs[i].key, Mined) \cup {i}
  <2>1. txs[i].status = "pool" /\ txs[i].nonce = MinedNonce(txs[i].key)
    BY <1>4 DEF Mine
  <2>2. /\ DOMAIN txs' = DOMAIN txs /\ txs'[i].status \in Mined /\ txs'[i].key = txs[i].key
        /\ \A j \in DOMAIN txs : j # i => txs'[j] = txs[j]
    BY <1>4, MineEffect DEF Kept, Same
  <2> QED
    BY <2>1, <2>2 DEF OfKey, Mined
<1>5. CASE \E g \in Goroutines : LocalStep(g) \/ Rotate(g)
  BY <1>1, <1>5, LocalEffect DEF Rotate
<1>6. CASE \E g \in Goroutines : Begin(g)
  BY <1>1, <1>6 DEF Begin
<1>7. CASE \E s \in Joining : AddSigner(s)
  BY <1>1, <1>7 DEF AddSigner
<1>8. CASE UNCHANGED vars
  BY <1>1, <1>8 DEF vars
<1> QED
  BY <1>2, <1>3, <1>4, <1>5, <1>6, <1>7, <1>8, Cases

LEMMA MinedInOrderStep ==
  ASSUME TypeOK, MinedInOrder, [Next]_vars
  PROVE  MinedInOrder'
<1>1. ASSUME NEW k \in Signers, OfKey(k, Mined)' = OfKey(k, Mined)
      PROVE  \A n \in 0 .. MinedNonce(k)' - 1 : \E i \in OfKey(k, Mined)' : txs'[i].nonce = n
  <2>1. MinedNonce(k)' = MinedNonce(k)
    BY <1>1 DEF MinedNonce
  <2>2. \A i \in OfKey(k, Mined) : txs'[i].nonce = txs[i].nonce
    BY Ledger DEF OfKey, Kept, Same
  <2> QED
    BY <1>1, <2>1, <2>2 DEF MinedInOrder
<1>2. ASSUME NEW k \in Signers, NEW i \in DOMAIN txs, txs[i].nonce = MinedNonce(k),
             OfKey(k, Mined)' = OfKey(k, Mined) \cup {i}, i \notin OfKey(k, Mined)
      PROVE  \A n \in 0 .. MinedNonce(k)' - 1 : \E j \in OfKey(k, Mined)' : txs'[j].nonce = n
  <2>1. IsFiniteSet(OfKey(k, Mined)) /\ MinedNonce(k) \in Nat
    BY OfKeyFinite DEF MinedNonce
  <2>2. Cardinality(OfKey(k, Mined) \cup {i}) = MinedNonce(k) + 1
    BY <1>2, <2>1, FS_AddElement DEF MinedNonce
  <2>3. MinedNonce(k)' = MinedNonce(k) + 1
    BY <1>2, <2>2 DEF MinedNonce
  <2>4. \A j \in OfKey(k, Mined) \cup {i} : txs'[j].nonce = txs[j].nonce
    BY Ledger DEF OfKey, Kept, Same
  <2> SUFFICES ASSUME NEW n \in 0 .. MinedNonce(k)' - 1
               PROVE  \E j \in OfKey(k, Mined)' : txs'[j].nonce = n
    OBVIOUS
  <2>5. CASE n = MinedNonce(k)
    BY <1>2, <2>4, <2>5
  <2>6. CASE n # MinedNonce(k)
    <3>1. n \in 0 .. MinedNonce(k) - 1
      BY <2>1, <2>3, <2>6
    <3>2. PICK j \in OfKey(k, Mined) : txs[j].nonce = n
      BY <3>1 DEF MinedInOrder
    <3> QED
      BY <1>2, <2>4, <3>2
  <2> QED
    BY <2>5, <2>6
<1>3. CASE \A k : OfKey(k, Mined)' = OfKey(k, Mined)
  BY <1>1, <1>3 DEF MinedInOrder
<1>4. ASSUME NEW i \in DOMAIN txs, txs[i].nonce = MinedNonce(txs[i].key),
             \A k : /\ k # txs[i].key => OfKey(k, Mined)' = OfKey(k, Mined)
                   /\ i \notin OfKey(k, Mined),
             OfKey(txs[i].key, Mined)' = OfKey(txs[i].key, Mined) \cup {i}
      PROVE  MinedInOrder'
  <2> SUFFICES ASSUME NEW k \in Signers
               PROVE  \A n \in 0 .. MinedNonce(k)' - 1 :
                        \E j \in OfKey(k, Mined)' : txs'[j].nonce = n
    BY DEF MinedInOrder
  <2>1. CASE k = txs[i].key
    BY <1>2, <1>4, <2>1
  <2>2. CASE k # txs[i].key
    BY <1>1, <1>4, <2>2
  <2> QED
    BY <2>1, <2>2
<1> QED
  BY <1>3, <1>4, MinedSets

-----------------------------------------------------------------------------
(* Turns are apart.                                                         *)

\* A key that neither verifies nor owns signs batches and nothing else.
LEMMA KeyKinds ==
  /\ TypeOK => \A i \in DOMAIN txs :
       /\ txs[i].key \in Signers
       /\ txs[i].key \notin {config.verifier, Owner} => TookTurn(i)
       /\ txs[i].turn \in Nat /\ txs[i].size \in Nat
  /\ TypeOK => \A g \in Goroutines : call[g].pc \in {"estimate", "nonce", "send"} =>
       /\ call[g].key \in Signers
       /\ call[g].turn \in Nat /\ call[g].size \in Nat
<1>1. ASSUME TypeOK, NEW kind \in Kinds, NEW k \in KeysOf(kind)
      PROVE  k \in Signers /\ (k \notin {config.verifier, Owner} => kind \in HandleKinds)
  <2>1. config \in [verifier : Signers \cup {Nil}, executors : BOOLEAN]
    BY <1>1, ExecutorAssumption DEF TypeOK
  <2> QED
    BY <1>1, <2>1, ExecutorAssumption DEF KeysOf, Kinds, HandleKinds
<1>2. ASSUME TypeOK, NEW i \in DOMAIN txs
      PROVE  /\ txs[i].key \in Signers
             /\ txs[i].key \notin {config.verifier, Owner} => TookTurn(i)
             /\ txs[i].turn \in Nat /\ txs[i].size \in Nat
  <2>1. txs[i] \in TxTypes(txs[i].kind) /\ txs[i].kind \in Kinds
    BY <1>2, TxFacts
  <2>2. txs[i].key \in KeysOf(txs[i].kind) /\ txs[i].turn \in Nat /\ txs[i].size \in Nat
    BY <2>1 DEF TxTypes
  <2> QED
    BY <1>1, <1>2, <2>1, <2>2 DEF TookTurn
<1>3. ASSUME TypeOK, NEW g \in Goroutines, call[g].pc \in {"estimate", "nonce", "send"}
      PROVE  call[g].key \in Signers /\ call[g].turn \in Nat /\ call[g].size \in Nat
  <2>1. /\ call[g] \in CallTypes(call[g].kind) /\ call[g].kind \in Kinds
        /\ call[g].key # Nil
    BY <1>3, CallFacts DEF CallOK
  <2>2. call[g].key \in KeysOf(call[g].kind) /\ call[g].turn \in Nat /\ call[g].size \in Nat
    BY <2>1 DEF CallTypes
  <2> QED
    BY <1>1, <1>3, <2>1, <2>2
<1> QED
  BY <1>2, <1>3

\* Once, spoken of a key of the next state.
LEMMA OnceStays ==
  ASSUME TypeOK, UNCHANGED <<waiting, passed>> \/ TakeTurn \/ \E s \in Signers : Join(s)
  PROVE  \A g : Once(call[g].key)' => Once(call'[g].key)
<1>1. ASSUME NEW k, \A i, j \in DOMAIN Order' : Order'[i] = k /\ Order'[j] = k => i = j
      PROVE  Once(k)
  <2>1. Once(k)'
    BY <1>1 DEF Once
  <2> QED
    BY <2>1, OnceKept
<1>2. \A g : Once(call[g].key)' =>
        \A i, j \in DOMAIN Order' : Order'[i] = call'[g].key /\ Order'[j] = call'[g].key => i = j
  BY DEF Once
<1> QED
  BY <1>1, <1>2

\* TurnsApart, with the places spelled out.
LEMMA Places ==
  ASSUME TypeOK, TurnsApart
  PROVE  /\ \A g \in Goroutines : HasTurn(g) =>
              PlaceIn(Order, turns, call[g].key, call[g].turn + call[g].size)
         /\ \A i \in DOMAIN txs : TookTurn(i) =>
              PlaceIn(Order, turns, txs[i].key, txs[i].turn + txs[i].size)
  BY DEF TurnsApart, KeepsPlace, PlaceIn

\* Nobody takes a turn, and nothing is sent.
LEMMA QuietTurns ==
  ASSUME TypeOK, Rotates, TurnsApart,
         turns' = turns, UNCHANGED <<waiting, passed>> \/ \E s \in Signers : Join(s),
         DOMAIN txs' = DOMAIN txs, \A i \in DOMAIN txs : Kept(i),
         \A g \in Goroutines : HasTurn(g)' => HasTurn(g) /\ SameCall(call[g], call'[g])
  PROVE  TurnsApart'
<1>1. ASSUME NEW g \in Goroutines, HasTurn(g)'
      PROVE  KeepsPlace(call[g])'
  <2>1. /\ HasTurn(g) /\ call'[g].key = call[g].key
        /\ call'[g].turn = call[g].turn /\ call'[g].size = call[g].size
    BY <1>1 DEF SameCall
  <2>2. call[g].turn + call[g].size \in Nat
    BY <2>1, KeyKinds DEF HasTurn
  <2>3. PlaceIn(Order', turns', call[g].key, call[g].turn + call[g].size)
    BY <2>1, <2>2, Places, PlaceKept
  <2> QED
    BY <2>1, <2>3 DEF PlaceIn, KeepsPlace
<1>2. ASSUME NEW i \in DOMAIN txs', TookTurn(i)'
      PROVE  KeepsPlace(txs[i])'
  <2>1. /\ i \in DOMAIN txs /\ TookTurn(i) /\ txs'[i].key = txs[i].key
        /\ txs'[i].turn = txs[i].turn /\ txs'[i].size = txs[i].size
    BY <1>2 DEF Kept, Same, TookTurn
  <2>2. txs[i].turn + txs[i].size \in Nat
    BY <2>1, KeyKinds
  <2>3. PlaceIn(Order', turns', txs[i].key, txs[i].turn + txs[i].size)
    BY <2>1, <2>2, Places, PlaceKept
  <2> QED
    BY <2>1, <2>3 DEF PlaceIn, KeepsPlace
<1>3. ASSUME NEW g \in Goroutines, NEW h \in Goroutines, g # h, HasTurn(g)', HasTurn(h)',
             call'[g].key = call'[h].key, Once(call[g].key)'
      PROVE  Lapped(call[g], call[h])'
  <2>0. Once(call[g].key)
    <3>1. call'[g].key = call[g].key
      BY <1>3 DEF SameCall
    <3> QED
      BY <1>3, <3>1, OnceStays
  <2>1. Lapped(call[g], call[h])
    BY <1>3, <2>0 DEF TurnsApart, SameCall
  <2> QED
    BY <1>3, <2>1 DEF SameCall, Lapped
<1>4. ASSUME NEW i \in DOMAIN txs', NEW g \in Goroutines, TookTurn(i)', HasTurn(g)',
             txs'[i].key = call'[g].key, Once(call[g].key)'
      PROVE  Lapped(txs[i], call[g])'
  <2>0. Once(call[g].key)
    <3>1. call'[g].key = call[g].key
      BY <1>4 DEF SameCall
    <3> QED
      BY <1>4, <3>1, OnceStays
  <2>1. Lapped(txs[i], call[g])
    BY <1>4, <2>0 DEF TurnsApart, SameCall, Kept, Same, TookTurn
  <2> QED
    BY <1>4, <2>1 DEF SameCall, Lapped, Kept, Same
<1> QED
  BY <1>1, <1>2, <1>3, <1>4 DEF TurnsApart

\* A turn is taken: whoever had the same key before had it a round ago.
LEMMA RotateTurns ==
  ASSUME TypeOK, Rotates, TurnsCounted, TurnsApart, NEW g \in Goroutines, Rotate(g)
  PROVE  TurnsApart'
<1> DEFINE n == Len(waiting) + Len(passed)
           k == Head(waiting)
<1>1. /\ n \in Nat /\ n >= 1 /\ DOMAIN Order = 1 .. n /\ DOMAIN Order' = 1 .. n
      /\ Order'[n] = k /\ Order[1] = k
  BY RotateEffect, TurnOrder
<1>2. /\ TakeTurn /\ turns' = turns + 1 /\ UNCHANGED txs /\ OthersStay(g)
      /\ call[g].pc = "rotate" /\ call'[g].pc = "estimate" /\ call'[g].kind \in HandleKinds
      /\ call'[g].key = k /\ call'[g].turn = turns + 1 /\ call'[g].size = n
      /\ turns \in Nat
  <2>1. turns \in Nat
    BY DEF TypeOK
  <2> QED
    BY <2>1, RotateEffect
<1> HIDE DEF n, k
<1>3. ASSUME NEW next \in Nat, PlaceIn(Order, turns, k, next), Once(k)
      PROVE  next <= turns + 1
  <2>1. PICK i \in 1 .. n : Order[i] = k /\ next <= turns + i
    BY <1>1, <1>3 DEF PlaceIn
  <2>2. i = 1
    BY <1>1, <1>3, <2>1 DEF Once
  <2> QED
    BY <2>1, <2>2
<1>4. ASSUME NEW key, NEW next \in Nat, PlaceIn(Order, turns, key, next)
      PROVE  PlaceIn(Order', turns', key, next)
  BY <1>2, <1>4, PlaceKept
<1>5. ASSUME NEW h \in Goroutines, h # g, HasTurn(h)'
      PROVE  /\ call'[h] = call[h] /\ HasTurn(h)
             /\ call[h].turn \in Nat /\ call[h].size \in Nat
             /\ PlaceIn(Order, turns, call[h].key, call[h].turn + call[h].size)
  <2>1. call'[h] = call[h] /\ HasTurn(h)
    BY <1>2, <1>5 DEF OthersStay, HasTurn
  <2> QED
    BY <2>1, KeyKinds, Places DEF HasTurn
<1>6. ASSUME NEW i \in DOMAIN txs, TookTurn(i)
      PROVE  /\ txs[i].turn \in Nat /\ txs[i].size \in Nat
             /\ PlaceIn(Order, turns, txs[i].key, txs[i].turn + txs[i].size)
  BY <1>6, KeyKinds, Places
<1>7. \A h \in Goroutines : HasTurn(h)' => KeepsPlace(call[h])'
  <2> SUFFICES ASSUME NEW h \in Goroutines, HasTurn(h)'
               PROVE  KeepsPlace(call[h])'
    OBVIOUS
  <2>1. CASE h = g
    <3>1. n \in DOMAIN Order' /\ Order'[n] = call'[g].key
          /\ call'[g].turn + call'[g].size <= turns' + n
      BY <1>1, <1>2
    <3> QED
      BY <2>1, <3>1 DEF KeepsPlace
  <2>2. CASE h # g
    <3>1. /\ call'[h] = call[h] /\ call[h].turn + call[h].size \in Nat
          /\ PlaceIn(Order, turns, call[h].key, call[h].turn + call[h].size)
      BY <1>5, <2>2
    <3>2. PlaceIn(Order', turns', call[h].key, call[h].turn + call[h].size)
      BY <1>4, <3>1
    <3> QED
      BY <3>1, <3>2 DEF PlaceIn, KeepsPlace
  <2> QED
    BY <2>1, <2>2
<1>8. \A i \in DOMAIN txs' : TookTurn(i)' => KeepsPlace(txs[i])'
  <2> SUFFICES ASSUME NEW i \in DOMAIN txs, TookTurn(i)
               PROVE  KeepsPlace(txs[i])'
    BY <1>2 DEF TookTurn
  <2>1. txs[i].turn + txs[i].size \in Nat
        /\ PlaceIn(Order, turns, txs[i].key, txs[i].turn + txs[i].size)
    BY <1>6
  <2>2. PlaceIn(Order', turns', txs[i].key, txs[i].turn + txs[i].size)
    BY <1>4, <2>1
  <2> QED
    BY <1>2, <2>2 DEF PlaceIn, KeepsPlace
<1>9. ASSUME NEW h \in Goroutines, h # g, HasTurn(h)', call'[h].key = k, Once(k)
      PROVE  Lapped(call[g], call[h])' /\ Lapped(call[h], call[g])'
  <2>1. call'[h] = call[h] /\ call[h].turn + call[h].size \in Nat
        /\ PlaceIn(Order, turns, k, call[h].turn + call[h].size)
    BY <1>5, <1>9
  <2>2. call'[h].turn + call'[h].size <= call'[g].turn
    BY <1>2, <1>3, <1>9, <2>1
  <2> QED
    BY <2>2 DEF Lapped
<1>10. \A h, i \in Goroutines :
         h # i /\ HasTurn(h)' /\ HasTurn(i)' /\ call'[h].key = call'[i].key /\ Once(call[h].key)' =>
         Lapped(call[h], call[i])'
  <2> SUFFICES ASSUME NEW h \in Goroutines, NEW i \in Goroutines, h # i, HasTurn(h)', HasTurn(i)',
                      call'[h].key = call'[i].key, Once(call[h].key)'
               PROVE  Lapped(call[h], call[i])'
    OBVIOUS
  <2>0. Once(call'[h].key)
    BY <1>2, OnceStays
  <2>1. CASE h = g \/ i = g
    BY <1>2, <1>9, <2>0, <2>1
  <2>2. CASE h # g /\ i # g
    <3>1. HasTurn(h) /\ HasTurn(i) /\ call'[h] = call[h] /\ call'[i] = call[i]
      BY <1>5, <2>2
    <3>2. Lapped(call[h], call[i])
      BY <2>0, <3>1 DEF TurnsApart
    <3> QED
      BY <3>1, <3>2 DEF Lapped
  <2> QED
    BY <2>1, <2>2
<1>11. \A i \in DOMAIN txs', h \in Goroutines :
         TookTurn(i)' /\ HasTurn(h)' /\ txs'[i].key = call'[h].key /\ Once(call[h].key)' =>
         Lapped(txs[i], call[h])'
  <2> SUFFICES ASSUME NEW i \in DOMAIN txs, NEW h \in Goroutines, TookTurn(i), HasTurn(h)',
                      txs[i].key = call'[h].key, Once(call[h].key)'
               PROVE  Lapped(txs[i], call[h])'
    BY <1>2 DEF TookTurn
  <2>0. Once(call'[h].key)
    BY <1>2, OnceStays
  <2>1. CASE h = g
    <3>1. txs[i].turn + txs[i].size \in Nat
          /\ PlaceIn(Order, turns, k, txs[i].turn + txs[i].size)
      BY <1>2, <1>6, <2>1
    <3>2. txs[i].turn + txs[i].size <= call'[h].turn
      BY <1>2, <1>3, <2>0, <2>1, <3>1
    <3> QED
      BY <1>2, <3>2 DEF Lapped
  <2>2. CASE h # g
    <3>1. HasTurn(h) /\ call'[h] = call[h]
      BY <1>5, <2>2
    <3>2. Lapped(txs[i], call[h])
      BY <2>0, <3>1 DEF TurnsApart
    <3> QED
      BY <1>2, <3>1, <3>2 DEF Lapped
  <2> QED
    BY <2>1, <2>2
<1> QED
  BY <1>7, <1>8, <1>10, <1>11 DEF TurnsApart

\* A turn goes from the call into its transaction.
LEMMA SendTurns ==
  ASSUME TypeOK, TurnsApart, NEW g \in Goroutines, Send(g)
  PROVE  TurnsApart'
<1> DEFINE l == Len(txs) + 1
<1>1. /\ UNCHANGED <<waiting, passed, turns>> /\ OthersStay(g)
      /\ call[g].pc = "send" /\ call'[g].pc \in {"done", "wait"}
  BY SendEffect DEF rotationVars
<1>2. DOMAIN txs' = DOMAIN txs \cup {l} /\ \A i \in DOMAIN txs : Kept(i)
  BY Sends
<1>3. /\ txs'[l].key = call[g].key /\ txs'[l].kind = call[g].kind
      /\ txs'[l].turn = call[g].turn /\ txs'[l].size = call[g].size
  BY NewTx
<1> HIDE DEF l
<1>4. \A h \in Goroutines : HasTurn(h)' => h # g /\ HasTurn(h) /\ call'[h] = call[h]
  BY <1>1 DEF OthersStay, HasTurn
<1>5. \A i \in DOMAIN txs' : TookTurn(i)' =>
        \/ i \in DOMAIN txs /\ TookTurn(i)
        \/ i = l /\ HasTurn(g)
  BY <1>1, <1>2, <1>3 DEF TookTurn, HasTurn, Kept, Same
<1>6. ASSUME NEW h \in Goroutines, HasTurn(h)'
      PROVE  KeepsPlace(call[h])'
  BY <1>1, <1>4, <1>6 DEF TurnsApart, KeepsPlace, Order
<1>7. ASSUME NEW i \in DOMAIN txs', TookTurn(i)'
      PROVE  KeepsPlace(txs[i])'
  <2>1. CASE i \in DOMAIN txs /\ TookTurn(i)
    BY <1>1, <1>2, <2>1 DEF TurnsApart, KeepsPlace, Order, Kept, Same
  <2>2. CASE i = l /\ HasTurn(g)
    BY <1>1, <1>3, <2>2 DEF TurnsApart, KeepsPlace, Order
  <2> QED
    BY <1>5, <1>7, <2>1, <2>2
<1>8. ASSUME NEW h \in Goroutines, NEW i \in Goroutines, h # i, HasTurn(h)', HasTurn(i)',
             call'[h].key = call'[i].key, Once(call[h].key)'
      PROVE  Lapped(call[h], call[i])'
  <2>1. Once(call'[h].key)
    BY <1>1, <1>8, OnceStays
  <2> QED
    BY <1>4, <1>8, <2>1 DEF TurnsApart, Lapped
<1>9. ASSUME NEW i \in DOMAIN txs', NEW h \in Goroutines, TookTurn(i)', HasTurn(h)',
             txs'[i].key = call'[h].key, Once(call[h].key)'
      PROVE  Lapped(txs[i], call[h])'
  <2>0. Once(call'[h].key)
    BY <1>1, <1>9, OnceStays
  <2>1. h # g /\ HasTurn(h) /\ call'[h] = call[h]
    BY <1>4, <1>9
  <2>2. CASE i \in DOMAIN txs /\ TookTurn(i)
    BY <1>2, <1>9, <2>0, <2>1, <2>2 DEF TurnsApart, Lapped, Kept, Same
  <2>3. CASE i = l /\ HasTurn(g)
    <3>1. Lapped(call[g], call[h])
      BY <1>3, <1>9, <2>0, <2>1, <2>3 DEF TurnsApart
    <3> QED
      BY <1>3, <2>1, <2>3, <3>1 DEF Lapped
  <2> QED
    BY <1>5, <1>9, <2>2, <2>3
<1> QED
  BY <1>6, <1>7, <1>8, <1>9 DEF TurnsApart

LEMMA TurnsApartStep ==
  ASSUME TypeOK, Rotates, TurnsCounted, TurnsApart, [Next]_vars
  PROVE  TurnsApart'
<1>1. CASE UNCHANGED vars
  BY <1>1, QuietTurns DEF vars, rotationVars, Kept, Same, SameCall, HasTurn
<1>2. ASSUME NEW g \in Goroutines, LocalStep(g)
      PROVE  TurnsApart'
  <2>1. \A h \in Goroutines : HasTurn(h)' => HasTurn(h) /\ SameCall(call[h], call'[h])
    BY <1>2, LocalEffect DEF OthersStay, SameCall, HasTurn
  <2>2. turns' = turns /\ UNCHANGED <<waiting, passed, txs>>
    BY <1>2, LocalEffect DEF rotationVars
  <2>3. DOMAIN txs' = DOMAIN txs /\ \A i \in DOMAIN txs : Kept(i)
    BY <2>2 DEF Kept, Same
  <2> QED
    BY <2>1, <2>2, <2>3, QuietTurns
<1>3. ASSUME NEW g \in Goroutines, Begin(g)
      PROVE  TurnsApart'
  <2>1. \A h \in Goroutines : HasTurn(h)' => HasTurn(h) /\ SameCall(call[h], call'[h])
    BY <1>3, BeginEffect DEF OthersStay, SameCall, HasTurn
  <2>2. turns' = turns /\ UNCHANGED <<waiting, passed, txs>>
    BY <1>3, BeginEffect DEF rotationVars
  <2>3. DOMAIN txs' = DOMAIN txs /\ \A i \in DOMAIN txs : Kept(i)
    BY <2>2 DEF Kept, Same
  <2> QED
    BY <2>1, <2>2, <2>3, QuietTurns
<1>4. ASSUME NEW i \in DOMAIN txs, Mine(i) \/ Drop(i)
      PROVE  TurnsApart'
  <2>1. UNCHANGED <<waiting, passed, call, turns>>
    BY <1>4, MineEffect, DropEffect DEF rotationVars
  <2>2. DOMAIN txs' = DOMAIN txs /\ \A j \in DOMAIN txs : Kept(j)
    BY <1>4, MineEffect, DropEffect
  <2> QED
    BY <2>1, <2>2, QuietTurns DEF SameCall, HasTurn
<1>5. ASSUME NEW s \in Joining, AddSigner(s)
      PROVE  TurnsApart'
  <2>1. Join(s) /\ s \in Signers /\ UNCHANGED <<call, txs, turns>>
    BY <1>5, ExecutorAssumption DEF AddSigner
  <2> QED
    BY <2>1, QuietTurns DEF SameCall, HasTurn, Kept, Same
<1> QED
  BY <1>1, <1>2, <1>3, <1>4, <1>5, RotateTurns, SendTurns, Cases

\* What a step does to the rotation.
LEMMA RotationCases ==
  ASSUME TypeOK, Rotates, TurnsCounted, [Next]_vars
  PROVE  /\ UNCHANGED <<waiting, passed>> \/ TakeTurn \/ \E s \in Signers : Join(s)
         /\ config' = config
<1>1. CASE UNCHANGED vars
  BY <1>1 DEF vars, rotationVars, program
<1>2. CASE \E g \in Goroutines : LocalStep(g)
  BY <1>2, LocalEffect DEF rotationVars, program
<1>3. CASE \E g \in Goroutines : Rotate(g)
  BY <1>3, RotateEffect DEF program
<1>4. CASE \E g \in Goroutines : Send(g)
  BY <1>4, SendEffect DEF rotationVars, program
<1>5. CASE \E g \in Goroutines : Begin(g)
  BY <1>5, BeginEffect DEF rotationVars, program
<1>6. CASE \E i \in DOMAIN txs : Mine(i) \/ Drop(i)
  BY <1>6, MineEffect, DropEffect DEF rotationVars, program
<1>7. CASE \E s \in Joining : AddSigner(s)
  BY <1>7, ExecutorAssumption DEF AddSigner, program
<1> QED
  BY <1>1, <1>2, <1>3, <1>4, <1>5, <1>6, <1>7, Cases

\* k is in the order once, and not among the others.
DedicatedIn(order, others, k) ==
  /\ \A i, j \in DOMAIN order : order[i] = k /\ order[j] = k => i = j
  /\ k \notin others

\* A call that sends with a key that neither verifies nor owns sends a batch.
LEMMA SendKind ==
  ASSUME TypeOK, NEW g \in Goroutines, Send(g), call[g].key \notin {config.verifier, Owner}
  PROVE  call[g].kind \in HandleKinds
<1>1. call[g].pc = "send"
  BY DEF Send, At
<1>2. call[g].kind \in Kinds
  BY <1>1, CallFacts
<1>3. call[g].key \in KeysOf(call[g].kind)
  BY Sends
<1> QED
  BY <1>2, <1>3 DEF KeysOf, Kinds, HandleKinds

\* A clash is seen when it happens, and the turns behind it stay.
LEMMA ClashStep ==
  ASSUME TypeOK, TypeOK', Rotates, TurnsCounted, MinedInOrder, TurnsApart, ClashOnlyIfLapped,
         [Next]_vars
  PROVE  ClashOnlyIfLapped'
<1>1. ASSUME NEW g \in Goroutines, call[g].pc = "done", call[g].status = "refused",
             call[g].kind \in HandleKinds, Dedicated(call[g].key), call'[g] = call[g]
      PROVE  \E i \in DOMAIN txs' : SameSlot(txs'[i], call'[g]) /\ Lapped(txs'[i], call'[g])
  <2>1. PICK i \in DOMAIN txs : SameSlot(txs[i], call[g]) /\ Lapped(txs[i], call[g])
    BY <1>1 DEF ClashOnlyIfLapped, At
  <2> QED
    BY <1>1, <2>1, Ledger DEF Kept, Same, SameSlot, Lapped
<1>2. ASSUME NEW g \in Goroutines, Refuse(g), call[g].kind \in HandleKinds,
             Dedicated(call[g].key)
      PROVE  \E i \in DOMAIN txs' : SameSlot(txs'[i], call'[g]) /\ Lapped(txs'[i], call'[g])
  <2>1. /\ call[g].pc = "send" /\ HasTurn(g) /\ LocalStep(g) /\ UNCHANGED txs
        /\ call[g].nonce \in Nat
    BY <1>2, CallFacts DEF Refuse, At, HasTurn, LocalStep
  <2>2. SameCall(call[g], call'[g]) /\ call'[g].nonce = call[g].nonce
    BY <1>2, <2>1, LocalEffect
  <2>3. call[g].key \in Signers
    BY <2>1, KeyKinds
  <2>4. \E i \in DOMAIN txs : SameSlot(txs[i], call[g])
    <3>1. CASE call[g].nonce < MinedNonce(call[g].key)
      <4>1. MinedNonce(call[g].key) \in Nat
        BY OfKeyFinite DEF MinedNonce
      <4>2. call[g].nonce \in 0 .. MinedNonce(call[g].key) - 1
        BY <2>1, <3>1, <4>1
      <4> QED
        BY <2>3, <4>2 DEF MinedInOrder, OfKey, SameSlot
    <3>2. CASE InPool(call[g].key, call[g].nonce) # {}
      BY <3>2 DEF InPool, OfKey, SameSlot
    <3> QED
      BY <1>2, <3>1, <3>2 DEF Refuse
  <2>5. PICK i \in DOMAIN txs : SameSlot(txs[i], call[g])
    BY <2>4
  <2>6. TookTurn(i) /\ txs[i].key = call[g].key
    BY <1>2, <2>5, KeyKinds DEF SameSlot, Dedicated
  <2>7. Lapped(txs[i], call[g])
    BY <1>2, <2>1, <2>6 DEF TurnsApart, Dedicated
  <2> QED
    BY <2>1, <2>2, <2>5, <2>7 DEF SameSlot, Lapped, SameCall
<1>3. ASSUME NEW g \in Goroutines, call'[g].pc = "done", call'[g].status = "refused"
      PROVE  call'[g] = call[g] \/ (Refuse(g) /\ call'[g].kind = call[g].kind)
  <2>1. CASE UNCHANGED call
    BY <2>1
  <2>2. ASSUME NEW h \in Goroutines, LocalStep(h)
        PROVE  call'[g] = call[g] \/ (Refuse(g) /\ call'[g].kind = call[g].kind)
    BY <1>3, <2>2, LocalEffect DEF OthersStay, SameCall
  <2>3. ASSUME NEW h \in Goroutines, Send(h)
        PROVE  call'[g] = call[g]
    BY <1>3, <2>3, SendEffect DEF OthersStay
  <2>4. ASSUME NEW h \in Goroutines, Rotate(h)
        PROVE  call'[g] = call[g]
    <3>1. DOMAIN call = Goroutines /\ call[h].pc = "rotate"
      BY <2>4 DEF TypeOK, Rotate, At
    <3>2. call[h] \in CallTypes(call[h].kind)
      BY <3>1, CallFacts
    <3> QED
      BY <1>3, <2>4, <3>1, <3>2 DEF Rotate, CallTypes
  <2>5. ASSUME NEW h \in Goroutines, Begin(h)
        PROVE  call'[g] = call[g]
    BY <1>3, <2>5, BeginEffect DEF OthersStay
  <2>6. ASSUME NEW i \in DOMAIN txs, Mine(i) \/ Drop(i)
        PROVE  UNCHANGED call
    BY <2>6 DEF Mine, Drop
  <2> QED
    BY <2>1, <2>2, <2>3, <2>4, <2>5, <2>6, Cases DEF vars, AddSigner
<1>4. ASSUME NEW i \in DOMAIN txs, txs[i].status = "replaced", TookTurn(i), Dedicated(txs[i].key)
      PROVE  \E j \in i + 1 .. Len(txs') : SameSlot(txs'[i], txs'[j]) /\ Lapped(txs'[i], txs'[j])
  <2>1. PICK j \in i + 1 .. Len(txs) : SameSlot(txs[i], txs[j]) /\ Lapped(txs[i], txs[j])
    BY <1>4 DEF ClashOnlyIfLapped, TookTurn
  <2>2. j \in DOMAIN txs /\ i \in Nat
    BY <2>1, TxFacts
  <2>3. Kept(i) /\ Kept(j) /\ j \in DOMAIN txs'
    BY <2>2, Ledger
  <2>4. DOMAIN txs' = 1 .. Len(txs') /\ Len(txs') \in Nat
    BY LenProperties DEF TypeOK
  <2>5. j \in i + 1 .. Len(txs')
    BY <2>1, <2>2, <2>3, <2>4
  <2> QED
    BY <2>3, <2>1, <2>5 DEF Kept, Same, SameSlot, Lapped
<1>5. ASSUME NEW g \in Goroutines, Send(g), NEW i \in InPool(call[g].key, call[g].nonce),
             TookTurn(i), Dedicated(txs[i].key)
      PROVE  \E j \in i + 1 .. Len(txs') : SameSlot(txs'[i], txs'[j]) /\ Lapped(txs'[i], txs'[j])
  <2> DEFINE l == Len(txs) + 1
  <2>1. /\ i \in DOMAIN txs /\ txs[i].key = call[g].key /\ txs[i].nonce = call[g].nonce
        /\ call[g].pc = "send"
    BY <1>5 DEF InPool, OfKey, Send, At
  <2>2. Len(txs') = l /\ Kept(i)
    BY <1>5, <2>1, Sends
  <2>3. /\ txs'[l].key = call[g].key /\ txs'[l].nonce = call[g].nonce
        /\ txs'[l].turn = call[g].turn /\ txs'[l].size = call[g].size
    BY <1>5, NewTx
  <2>4. Lapped(txs[i], call[g])
    <3>1. HasTurn(g)
      BY <1>5, <2>1, SendKind DEF HasTurn, Dedicated
    <3> QED
      BY <1>5, <2>1, <3>1 DEF TurnsApart, Dedicated
  <2>5. l \in i + 1 .. l
    BY <2>1, TxFacts
  <2> QED
    BY <2>1, <2>2, <2>3, <2>4, <2>5 DEF Kept, Same, SameSlot, Lapped
<1>6. ASSUME NEW i \in DOMAIN txs', txs'[i].status = "replaced"
      PROVE  /\ i \in DOMAIN txs
             /\ \/ txs[i].status = "replaced"
                \/ \E g \in Goroutines : Send(g) /\ i \in InPool(call[g].key, call[g].nonce)
  <2>1. CASE UNCHANGED txs
    BY <1>6, <2>1
  <2>2. ASSUME NEW g \in Goroutines, Send(g)
        PROVE  /\ i \in DOMAIN txs
               /\ \/ txs[i].status = "replaced"
                  \/ i \in InPool(call[g].key, call[g].nonce)
    BY <1>6, <2>2, Sends, NewTx
  <2>3. ASSUME NEW j \in DOMAIN txs, Mine(j) \/ Drop(j)
        PROVE  i \in DOMAIN txs /\ txs[i].status = "replaced"
    BY <1>6, <2>3, MineEffect, DropEffect DEF Mined
  <2>4. CASE \E g \in Goroutines : LocalStep(g) \/ Rotate(g)
    BY <2>1, <2>4, LocalEffect DEF Rotate
  <2>5. CASE \E g \in Goroutines : Begin(g)
    BY <2>1, <2>5 DEF Begin
  <2>6. CASE \E s \in Joining : AddSigner(s)
    BY <2>1, <2>6 DEF AddSigner
  <2>7. CASE UNCHANGED vars
    BY <2>1, <2>7 DEF vars
  <2> QED
    BY <2>2, <2>3, <2>4, <2>5, <2>6, <2>7, Cases
<1>7. ASSUME NEW k, DedicatedIn(Order', {config'.verifier, Owner}, k)
      PROVE  Dedicated(k)
  <2>1. /\ UNCHANGED <<waiting, passed>> \/ TakeTurn \/ \E s \in Signers : Join(s)
        /\ config' = config
    BY RotationCases
  <2>2. Once(k)'
    BY <1>7 DEF DedicatedIn, Once
  <2> QED
    BY <1>7, <2>1, <2>2, OnceKept DEF DedicatedIn, Dedicated
<1>8. /\ \A g : Dedicated(call[g].key)' => DedicatedIn(Order', {config'.verifier, Owner}, call'[g].key)
      /\ \A i : Dedicated(txs[i].key)' => DedicatedIn(Order', {config'.verifier, Owner}, txs'[i].key)
  BY DEF Dedicated, DedicatedIn, Once
<1>9. ASSUME NEW g \in Goroutines, call'[g].pc = "done", call'[g].status = "refused",
             call'[g].kind \in HandleKinds, Dedicated(call[g].key)'
      PROVE  \E i \in DOMAIN txs' : SameSlot(txs'[i], call'[g]) /\ Lapped(txs'[i], call'[g])
  <2>1. Dedicated(call'[g].key)
    BY <1>7, <1>8, <1>9
  <2>2. CASE call'[g] = call[g]
    BY <1>1, <1>9, <2>1, <2>2
  <2>3. CASE Refuse(g) /\ call'[g].kind = call[g].kind
    <3>1. call'[g].key = call[g].key
      BY <2>3, LocalEffect DEF LocalStep, SameCall
    <3> QED
      BY <1>2, <1>9, <2>1, <2>3, <3>1
  <2> QED
    BY <1>3, <1>9, <2>2, <2>3
<1>10. ASSUME NEW i \in DOMAIN txs', txs'[i].status = "replaced", txs'[i].kind \in HandleKinds,
              Dedicated(txs[i].key)'
       PROVE  \E j \in i + 1 .. Len(txs') : SameSlot(txs'[i], txs'[j]) /\ Lapped(txs'[i], txs'[j])
  <2>1. i \in DOMAIN txs
    BY <1>6, <1>10
  <2>2. TookTurn(i) /\ txs'[i].key = txs[i].key
    BY <1>10, <2>1, Ledger DEF Kept, Same, TookTurn
  <2>3. Dedicated(txs[i].key)
    BY <1>7, <1>8, <1>10, <2>2
  <2> QED
    BY <1>4, <1>5, <1>6, <1>10, <2>1, <2>2, <2>3
<1> QED
  BY <1>9, <1>10 DEF ClashOnlyIfLapped, At, SameSlot, Lapped

-----------------------------------------------------------------------------
(* Receipts and what they are worth.                                        *)

\* A receipt is old, or of the transaction that is mined now.
LEMMA Receipt ==
  ASSUME TypeOK, [Next]_vars, NEW i \in DOMAIN txs', txs'[i].status \in Mined
  PROVE  /\ i \in DOMAIN txs
         /\ \/ /\ txs[i].status \in Mined /\ txs'[i].status = txs[i].status
               /\ txs'[i].settled = txs[i].settled
            \/ Mine(i)
<1>1. CASE UNCHANGED txs
  BY <1>1
<1>2. ASSUME NEW g \in Goroutines, Send(g)
      PROVE  i \in DOMAIN txs /\ txs[i].status \in Mined
  BY <1>2, Sends, NewTx DEF Mined
<1>3. ASSUME NEW j \in DOMAIN txs, Mine(j) \/ Drop(j)
      PROVE  i \in DOMAIN txs /\ (txs[i].status \in Mined \/ Mine(i))
  BY <1>3, MineEffect, DropEffect DEF Mined
<1>4. CASE \E g \in Goroutines : LocalStep(g) \/ Rotate(g)
  BY <1>1, <1>4, LocalEffect DEF Rotate
<1>5. CASE \E g \in Goroutines : Begin(g)
  BY <1>1, <1>5 DEF Begin
<1>6. CASE \E s \in Joining : AddSigner(s)
  BY <1>1, <1>6 DEF AddSigner
<1>7. CASE UNCHANGED vars
  BY <1>1, <1>7 DEF vars
<1>8. i \in DOMAIN txs /\ (txs[i].status \in Mined \/ Mine(i))
  BY <1>2, <1>3, <1>4, <1>5, <1>6, <1>7, Cases
<1> QED
  BY <1>8, Ledger DEF Mined

\* The EntryPoint's nonces never fall, and what has been created stays.
LEMMA ChainGrows ==
  ASSUME TypeOK, [Next]_vars
  PROVE  (\A s \in Senders : nonces[s] <= nonces'[s]) /\ code \subseteq code'
<1>1. \A s \in Senders : nonces[s] \in Nat
  BY DEF TypeOK
<1>2. CASE UNCHANGED chainVars
  BY <1>1, <1>2 DEF chainVars
<1>3. ASSUME NEW i \in DOMAIN txs, Mine(i)
      PROVE  (\A s \in Senders : nonces[s] <= nonces'[s]) /\ code \subseteq code'
  <2>1. CASE Executes(txs[i])
    <3>1. txs[i].kind \in Kinds
      BY TxFacts
    <3>2. \A s \in Senders : nonces[s] <= nonces'[s]
      BY <2>1, Effects
    <3>3. code \subseteq code'
      BY <2>1, <3>1, Effects DEF Kinds
    <3> QED
      BY <3>2, <3>3
  <2> QED
    BY <1>2, <1>3, <2>1, MineEffect
<1> QED
  BY <1>2, <1>3, Cases, LocalEffect, SendEffect, BeginEffect, DropEffect DEF Rotate, AddSigner, vars

\* A call changes by a step of its own.
LEMMA CallStep ==
  ASSUME TypeOK, Rotates, TurnsCounted, [Next]_vars, NEW g \in Goroutines
  PROVE  call'[g] = call[g] \/ LocalStep(g) \/ Send(g) \/ Rotate(g) \/ Begin(g)
<1>1. ASSUME NEW h \in Goroutines, h # g,
             LocalStep(h) \/ Send(h) \/ Rotate(h) \/ Begin(h)
      PROVE  call'[g] = call[g]
  BY <1>1, LocalEffect, SendEffect, RotateEffect, BeginEffect DEF OthersStay
<1>2. CASE \E i \in DOMAIN txs : Mine(i) \/ Drop(i)
  BY <1>2, MineEffect, DropEffect
<1>3. CASE \E s \in Joining : AddSigner(s)
  BY <1>3 DEF AddSigner
<1>4. CASE UNCHANGED vars
  BY <1>4 DEF vars
<1> QED
  BY <1>1, <1>2, <1>3, <1>4, Cases

\* A transaction was there, or a call has just sent it.
LEMMA TxStep ==
  ASSUME TypeOK, [Next]_vars, NEW i \in DOMAIN txs'
  PROVE  \/ i \in DOMAIN txs /\ Kept(i)
         \/ \E g \in Goroutines :
              /\ Send(g) /\ i = Len(txs) + 1
              /\ txs'[i].attempt = call[g].attempt /\ txs'[i].target = call[g].target
              /\ txs'[i].kind = call[g].kind /\ txs'[i].status = "pool"
<1>1. CASE i \in DOMAIN txs
  BY <1>1, Ledger
<1>2. CASE DOMAIN txs' = DOMAIN txs
  BY <1>1, <1>2
<1>3. ASSUME NEW g \in Goroutines, Send(g), i \notin DOMAIN txs
      PROVE  /\ i = Len(txs) + 1
             /\ txs'[i].attempt = call[g].attempt /\ txs'[i].target = call[g].target
             /\ txs'[i].kind = call[g].kind /\ txs'[i].status = "pool"
  <2>1. i = Len(txs) + 1
    BY <1>3, Sends
  <2> QED
    BY <1>3, <2>1, NewTx
<1>4. CASE \E j \in DOMAIN txs : Mine(j) \/ Drop(j)
  BY <1>2, <1>4, MineEffect, DropEffect
<1>5. CASE \E g \in Goroutines : LocalStep(g) \/ Rotate(g) \/ Begin(g)
  BY <1>2, <1>5, LocalEffect DEF Rotate, Begin
<1>6. CASE \E s \in Joining : AddSigner(s)
  BY <1>2, <1>6 DEF AddSigner
<1>7. CASE UNCHANGED vars
  BY <1>2, <1>7 DEF vars
<1> QED
  BY <1>1, <1>3, <1>4, <1>5, <1>6, <1>7, Cases

\* The operations of a batch are operations.
LEMMA BatchOps ==
  ASSUME TypeOK
  PROVE  /\ \A i \in DOMAIN txs : TookTurn(i) =>
              \A k \in DOMAIN txs[i].target : txs[i].target[k] \in Ops
         /\ \A i \in DOMAIN txs : txs[i].attempt \in 1 .. calls
<1>1. ASSUME NEW i \in DOMAIN txs
      PROVE  /\ txs[i].attempt \in 1 .. calls
             /\ TookTurn(i) => txs[i].target \in Seq(Ops)
  BY TxFacts DEF TxTypes, TookTurn, Targets, HandleKinds
<1>2. \A x \in Seq(Ops) : \A k \in DOMAIN x : x[k] \in Ops
  BY LenProperties, ElementOfSeq
<1> QED
  BY <1>1, <1>2

LEMMA BatchesHoldStep ==
  ASSUME TypeOK, TypeOK', Rotates, TurnsCounted, BatchesHold, [Next]_vars
  PROVE  BatchesHold'
<1>1. ASSUME NEW i \in DOMAIN txs', TookTurn(i)', txs'[i].status = "success"
      PROVE  /\ i \in DOMAIN txs /\ TookTurn(i) /\ txs'[i].target = txs[i].target
             /\ \/ txs[i].status = "success" /\ txs'[i].settled = txs[i].settled
                \/ Mine(i) /\ txs'[i].settled = calls /\ calls' = calls /\ Executes(txs[i])
  <2>1. i \in DOMAIN txs
    BY <1>1, Receipt DEF Mined
  <2>2. TookTurn(i) /\ txs'[i].target = txs[i].target
    BY <1>1, <2>1, Ledger DEF Kept, Same, TookTurn
  <2>3. CASE /\ txs[i].status \in Mined /\ txs'[i].status = txs[i].status
             /\ txs'[i].settled = txs[i].settled
    BY <1>1, <2>1, <2>2, <2>3
  <2>4. CASE Mine(i)
    BY <1>1, <2>1, <2>2, <2>4, MineEffect
  <2> QED
    BY <1>1, <2>3, <2>4, Receipt DEF Mined
<1>2. ASSUME NEW i \in DOMAIN txs', TookTurn(i)', txs'[i].status = "success",
             NEW k \in DOMAIN txs'[i].target
      PROVE  txs'[i].target[k].nonce < nonces'[txs'[i].target[k].sender]
  <2>1. CASE Executes(txs[i])
    BY <1>1, <1>2, <2>1, Effects DEF TookTurn
  <2>2. CASE txs[i].status = "success"
    <3> DEFINE op == txs[i].target[k]
    <3>1. op \in Ops /\ txs'[i].target[k] = op
      BY <1>1, <1>2, BatchOps
    <3>2. op.nonce < nonces[op.sender]
      BY <1>1, <1>2, <2>2 DEF BatchesHold
    <3> HIDE DEF op
    <3>3. op.nonce \in Nat /\ op.sender \in Senders
      BY <3>1 DEF Ops
    <3>4. nonces[op.sender] \in Nat /\ nonces'[op.sender] \in Nat
          /\ nonces[op.sender] <= nonces'[op.sender]
      BY <3>3, ChainGrows DEF TypeOK
    <3> QED
      BY <3>1, <3>2, <3>3, <3>4
  <2> QED
    BY <1>1, <1>2, <2>1, <2>2
<1>3. ASSUME NEW i \in DOMAIN txs', NEW g \in Goroutines, TookTurn(i)', txs'[i].status = "success",
             call'[g].pc \in {"nonce", "send"}, call'[g].kind \in HandleKinds,
             ShareOperation(txs'[i], call'[g])
      PROVE  call'[g].attempt <= txs'[i].settled
  <2>1. CASE Mine(i) /\ txs'[i].settled = calls /\ calls' = calls
    <3>1. call' = call /\ call[g].pc # "idle"
      BY <1>1, <1>3, <2>1, MineEffect
    <3>2. call[g].attempt \in 1 .. calls
      BY <3>1, CallFacts
    <3> QED
      BY <2>1, <3>1, <3>2
  <2>2. CASE txs[i].status = "success" /\ txs'[i].settled = txs[i].settled
    <3>1. i \in DOMAIN txs /\ TookTurn(i) /\ txs'[i].target = txs[i].target
      BY <1>1, <1>3
    <3>2. CASE /\ call[g].pc \in {"nonce", "send"} /\ call'[g].kind = call[g].kind
               /\ call'[g].target = call[g].target /\ call'[g].attempt = call[g].attempt
      BY <1>3, <2>2, <3>1, <3>2 DEF BatchesHold, ShareOperation
    <3>3. CASE LocalStep(g)
      <4>1. SameCall(call[g], call'[g])
        BY <3>3, LocalEffect
      <4>2. CASE call[g].pc = "nonce"
        BY <3>2, <4>1, <4>2 DEF SameCall
      <4>3. CASE call[g].pc = "estimate" /\ Simulates(g)
        <5>1. PICK a \in DOMAIN txs[i].target, b \in DOMAIN call[g].target :
                txs[i].target[a] = call[g].target[b]
          BY <1>3, <3>1, <4>1 DEF ShareOperation, SameCall
        <5> DEFINE op == txs[i].target[a]
        <5>2. op.nonce < nonces[op.sender] /\ op \in Ops
          BY <2>2, <3>1, BatchOps DEF BatchesHold
        <5>3. nonces[op.sender] <= op.nonce
          BY <1>3, <4>1, <4>3, <5>1 DEF Simulates, SameCall
        <5> HIDE DEF op
        <5>4. op.nonce \in Nat /\ nonces[op.sender] \in Nat
          BY <5>2 DEF Ops, TypeOK
        <5> QED
          BY <5>2, <5>3, <5>4
      <4> QED
        BY <1>3, <3>3, <4>2, <4>3, LocalEffect
    <3>4. CASE Send(g) \/ Rotate(g) \/ Begin(g)
      BY <1>3, <3>4, SendEffect, RotateEffect, BeginEffect
    <3> QED
      BY <1>3, <3>2, <3>3, <3>4, CallStep
  <2> QED
    BY <1>1, <1>3, <2>1, <2>2
<1>4. ASSUME NEW i \in DOMAIN txs', NEW j \in DOMAIN txs', TookTurn(i)', TookTurn(j)',
             ShareOperation(txs'[i], txs'[j]), txs'[i].status = "success"
      PROVE  txs'[j].attempt <= txs'[i].settled
  <2>1. CASE Mine(i) /\ txs'[i].settled = calls /\ calls' = calls
    <3>1. DOMAIN txs' = DOMAIN txs /\ Kept(j)
      BY <1>1, <1>4, <2>1, MineEffect, Ledger
    <3>2. j \in DOMAIN txs /\ txs'[j].attempt = txs[j].attempt
      BY <1>4, <3>1 DEF Kept, Same
    <3>3. txs'[j].attempt \in 1 .. calls
      BY <3>2, BatchOps
    <3> QED
      BY <2>1, <3>3
  <2>2. CASE txs[i].status = "success" /\ txs'[i].settled = txs[i].settled
    <3>1. i \in DOMAIN txs /\ TookTurn(i) /\ txs'[i].target = txs[i].target
      BY <1>1, <1>4
    <3>2. CASE j \in DOMAIN txs /\ Kept(j)
      <4>1. /\ TookTurn(j) /\ txs'[j].target = txs[j].target
            /\ txs'[j].attempt = txs[j].attempt
        BY <1>4, <3>2 DEF Kept, Same, TookTurn
      <4>2. ShareOperation(txs[i], txs[j])
        BY <1>4, <3>1, <4>1 DEF ShareOperation
      <4> QED
        BY <2>2, <3>1, <3>2, <4>1, <4>2 DEF BatchesHold, ExecutedIsNotResent
    <3>3. ASSUME NEW g \in Goroutines, Send(g),
                 txs'[j].attempt = call[g].attempt, txs'[j].target = call[g].target,
                 txs'[j].kind = call[g].kind
          PROVE  txs'[j].attempt <= txs'[i].settled
      <4>1. call[g].pc = "send" /\ call[g].kind \in HandleKinds
        BY <1>4, <3>3, SendEffect DEF TookTurn
      <4>2. ShareOperation(txs[i], call[g])
        BY <1>4, <3>1, <3>3 DEF ShareOperation
      <4> QED
        BY <2>2, <3>1, <3>3, <4>1, <4>2 DEF BatchesHold
    <3> QED
      BY <3>2, <3>3, TxStep
  <2> QED
    BY <1>1, <1>4, <2>1, <2>2
<1> QED
  BY <1>2, <1>3, <1>4 DEF BatchesHold, ExecutedIsNotResent, ShareOperation

\* A call keeps its number, and one that begins gets a new one.
LEMMA Attempts ==
  ASSUME TypeOK, Rotates, TurnsCounted, [Next]_vars, NEW g \in Goroutines, call'[g] # Idle
  PROVE  \/ call[g] # Idle /\ call'[g].attempt = call[g].attempt /\ call[g].attempt \in 1 .. calls
         \/ /\ Begin(g) /\ call'[g].attempt = calls + 1
            /\ \A h \in Goroutines : h # g => call'[h] = call[h]
<1>1. CASE call'[g] = call[g]
  <2>1. call[g].pc # "idle"
    BY <1>1, TypeOKByCall DEF Typed, CallOK, AllCalls, CallTypes
  <2> QED
    BY <1>1, <2>1, CallFacts
<1>2. CASE LocalStep(g) \/ Send(g) \/ Rotate(g)
  <2>1. call[g].pc # "idle"
    BY <1>2, SendEffect, RotateEffect DEF LocalStep, NodeFails, Refuse, TakeReceipt, ContextEnds,
       Estimate, ReadNonce, At
  <2> QED
    BY <1>2, <2>1, CallFacts, LocalEffect, SendEffect, RotateEffect DEF SameCall
<1>3. CASE Begin(g)
  BY <1>3, BeginEffect DEF OthersStay
<1> QED
  BY <1>1, <1>2, <1>3, CallStep

LEMMA CallsAreToldStep ==
  ASSUME TypeOK, TypeOK', Rotates, TurnsCounted, CallsAreTold, [Next]_vars
  PROVE  CallsAreTold'
<1>1. calls \in Nat /\ \A i \in DOMAIN txs : txs[i].attempt \in 1 .. calls
  BY Numbers, BatchOps
<1>2. ASSUME NEW g \in Goroutines, NEW h \in Goroutines, g # h, call'[g] # Idle, call'[h] # Idle
      PROVE  call'[g].attempt # call'[h].attempt
  <2>1. CASE /\ call[g] # Idle /\ call'[g].attempt = call[g].attempt
             /\ call[h] # Idle /\ call'[h].attempt = call[h].attempt
    BY <1>2, <2>1 DEF CallsAreTold
  <2>2. ASSUME NEW a \in Goroutines, NEW b \in Goroutines, a # b, call'[b] # Idle,
               call'[a].attempt = calls + 1, \A c \in Goroutines : c # a => call'[c] = call[c]
        PROVE  call'[a].attempt # call'[b].attempt
    <3>1. call'[b] = call[b] /\ call[b].pc # "idle"
      BY <2>2, TypeOKByCall DEF Typed, CallOK, AllCalls, CallTypes
    <3>2. call[b].attempt \in 1 .. calls
      BY <3>1, CallFacts
    <3> QED
      BY <1>1, <2>2, <3>1, <3>2
  <2> QED
    BY <1>2, <2>1, <2>2, Attempts
<1>3. ASSUME NEW g \in Goroutines, NEW i \in DOMAIN txs',
             ToSend(g)' \/ (call'[g].pc = "done" /\ call'[g].status \in {"refused", "panic"})
      PROVE  txs'[i].attempt # call'[g].attempt
  <2>1. CASE call'[g] = call[g]
    <3>1. ToSend(g) \/ (At(g, "done") /\ call[g].status \in {"refused", "panic"})
      BY <1>3, <2>1 DEF ToSend, At
    <3>2. CASE i \in DOMAIN txs /\ Kept(i)
      BY <2>1, <3>1, <3>2 DEF CallsAreTold, SentOncePerCall, Kept, Same
    <3>3. ASSUME NEW h \in Goroutines, Send(h), txs'[i].attempt = call[h].attempt
          PROVE  txs'[i].attempt # call'[g].attempt
      <4>1. call[h].pc = "send" /\ call'[h].pc # "send" /\ h # g
        BY <2>1, <3>3, SendEffect
      <4>2. call[h] # Idle /\ call[g] # Idle
        BY <3>1, <4>1 DEF ToSend, At, Idle
      <4> QED
        BY <2>1, <3>3, <4>1, <4>2 DEF CallsAreTold
    <3> QED
      BY <3>2, <3>3, TxStep
  <2>2. CASE LocalStep(g)
    <3>1. /\ txs' = txs /\ call'[g].attempt = call[g].attempt
          /\ call[g].pc \in {"estimate", "nonce", "send"}
      BY <1>3, <2>2, LocalEffect DEF SameCall, ToSend
    <3> QED
      BY <1>3, <3>1 DEF CallsAreTold, ToSend
  <2>3. CASE Rotate(g)
    BY <1>3, <2>3, RotateEffect DEF CallsAreTold, ToSend
  <2>4. CASE Send(g)
    BY <1>3, <2>4, SendEffect DEF ToSend
  <2>5. CASE Begin(g)
    BY <1>1, <1>3, <2>5, BeginEffect
  <2> QED
    BY <2>1, <2>2, <2>3, <2>4, <2>5, CallStep
<1>4. ASSUME NEW i \in DOMAIN txs', NEW j \in DOMAIN txs', txs'[i].attempt = txs'[j].attempt
      PROVE  i = j
  <2>1. CASE i \in DOMAIN txs /\ Kept(i) /\ j \in DOMAIN txs /\ Kept(j)
    BY <1>4, <2>1 DEF CallsAreTold, SentOncePerCall, Kept, Same
  <2>2. ASSUME NEW g \in Goroutines, Send(g), NEW a \in DOMAIN txs, Kept(a)
        PROVE  txs'[a].attempt # call[g].attempt
    BY <2>2, SendEffect DEF CallsAreTold, ToSend, Kept, Same
  <2> QED
    BY <1>4, <2>1, <2>2, TxStep
<1> QED
  BY <1>2, <1>3, <1>4 DEF CallsAreTold, SentOncePerCall, ToSend, At

\* Whoever awaits a transaction has awaited it, or has just sent it.
LEMMA AwaitsStep ==
  ASSUME TypeOK, Rotates, TurnsCounted, [Next]_vars, NEW g \in Goroutines, Awaits(g)'
  PROVE  \/ /\ Awaits(g) /\ call'[g].tx = call[g].tx /\ call'[g].kind = call[g].kind
            /\ call'[g].target = call[g].target /\ call'[g].attempt = call[g].attempt
            /\ call'[g].pc = "done" =>
                 (call[g].pc = "done" \/ (HasReceipt(call[g].tx) /\ UNCHANGED txs))
         \/ /\ Send(g) /\ call'[g].pc = "wait" /\ call'[g].tx = Len(txs) + 1
            /\ call'[g].kind = call[g].kind /\ call'[g].target = call[g].target
            /\ call'[g].attempt = call[g].attempt
<1>1. call'[g].pc = "wait" \/ (call'[g].pc = "done" /\ call'[g].status = "ok" /\ WaitsMined(call'[g].kind))
  BY DEF Awaits, At
<1>2. CASE call'[g] = call[g]
  BY <1>1, <1>2 DEF Awaits, At
<1>3. ASSUME NEW h \in Goroutines, h # g,
             LocalStep(h) \/ Send(h) \/ Rotate(h) \/ Begin(h)
      PROVE  call'[g] = call[g]
  BY <1>3, LocalEffect, SendEffect, RotateEffect, BeginEffect DEF OthersStay
<1>4. CASE LocalStep(g)
  BY <1>1, <1>4, LocalEffect DEF SameCall, Awaits, At
<1>5. CASE Send(g)
  BY <1>1, <1>5, SendEffect DEF SameCall, WaitsMined
<1>6. ASSUME Rotate(g) \/ Begin(g)
      PROVE  FALSE
  BY <1>1, <1>6, RotateEffect, BeginEffect
<1>7. CASE \E i \in DOMAIN txs : Mine(i) \/ Drop(i)
  BY <1>2, <1>7, MineEffect, DropEffect
<1>8. CASE \E s \in Joining : AddSigner(s)
  BY <1>2, <1>8 DEF AddSigner
<1>9. CASE UNCHANGED vars
  BY <1>2, <1>9 DEF vars
<1> QED
  BY <1>2, <1>3, <1>4, <1>5, <1>6, <1>7, <1>8, <1>9, Cases

\* Deposits are finitely many transactions.
LEMMA DepositsFinite ==
  ASSUME TypeOK, NEW s
  PROVE  IsFiniteSet(Deposits(s)) /\ Cardinality(Deposits(s)) \in Nat
<1>1. Deposits(s) \in SUBSET (1 .. Len(txs)) /\ Len(txs) \in Nat
  BY TxFacts DEF Deposits
<1>2. IsFiniteSet(1 .. Len(txs))
  BY <1>1, FS_Interval
<1>3. IsFiniteSet(Deposits(s))
  BY ONLY <1>1, <1>2, FS_Subset
<1> QED
  BY <1>3, FS_CardinalityType

\* Each successful Prefund is one deposit.
LEMMA DepositStep ==
  ASSUME TypeOK, TypeOK', ReceiptsHold, [Next]_vars, NEW s \in Senders
  PROVE  deposit'[s] = Cardinality(Deposits(s))'
<1>1. deposit[s] = Cardinality(Deposits(s)) /\ IsFiniteSet(Deposits(s))
  BY DepositsFinite DEF ReceiptsHold
<1>2. CASE deposit'[s] = deposit[s] /\ Deposits(s)' = Deposits(s)
  BY <1>1, <1>2
<1>3. ASSUME NEW i \in DOMAIN txs, Mine(i)
      PROVE  deposit'[s] = Cardinality(Deposits(s))'
  <2>1. /\ DOMAIN txs' = DOMAIN txs /\ \A j \in DOMAIN txs : j # i => txs'[j] = txs[j]
        /\ txs'[i].kind = txs[i].kind /\ txs'[i].target = txs[i].target
        /\ txs[i].status = "pool"
    BY <1>3, MineEffect DEF Kept, Same
  <2>2. txs[i].kind \in Kinds
    BY TxFacts
  <2>3. CASE txs'[i].status = "reverted" /\ UNCHANGED chainVars
    BY <1>2, <2>1, <2>3 DEF Deposits, chainVars
  <2>4. CASE txs'[i].status = "success" /\ Executes(txs[i])
    <3>1. CASE txs[i].kind = "Prefund" /\ txs[i].target = s
      <4>1. deposit' = [deposit EXCEPT ![s] = @ + 1]
        BY <2>4, <3>1, Effects
      <4>2. deposit'[s] = deposit[s] + 1
        BY <4>1 DEF TypeOK
      <4>3. Deposits(s)' = Deposits(s) \cup {i} /\ i \notin Deposits(s)
        BY <2>1, <2>4, <3>1 DEF Deposits
      <4>4. Cardinality(Deposits(s) \cup {i}) = Cardinality(Deposits(s)) + 1
        BY <1>1, <4>3, FS_AddElement
      <4> QED
        BY <1>1, <4>2, <4>3, <4>4
    <3>2. CASE txs[i].kind = "Prefund" /\ txs[i].target # s
      <4>1. deposit' = [deposit EXCEPT ![txs[i].target] = @ + 1]
        BY <2>4, <3>2, Effects
      <4>2. deposit'[s] = deposit[s]
        BY <3>2, <4>1 DEF TypeOK
      <4>3. Deposits(s)' = Deposits(s)
        BY <2>1, <3>2 DEF Deposits
      <4> QED
        BY <1>2, <4>2, <4>3
    <3>3. CASE txs[i].kind # "Prefund"
      <4>1. deposit' = deposit
        BY <2>2, <2>4, <3>3, Effects DEF Kinds
      <4>2. Deposits(s)' = Deposits(s)
        BY <2>1, <3>3 DEF Deposits
      <4> QED
        BY <1>2, <4>1, <4>2
    <3> QED
      BY <3>1, <3>2, <3>3
  <2> QED
    BY <1>3, <2>3, <2>4, MineEffect
<1>4. ASSUME NEW g \in Goroutines, Send(g)
      PROVE  deposit'[s] = deposit[s] /\ Deposits(s)' = Deposits(s)
  <2>1. deposit' = deposit
    BY <1>4, SendEffect DEF chainVars
  <2>2. DOMAIN txs' = DOMAIN txs \cup {Len(txs) + 1} /\ txs'[Len(txs) + 1].status = "pool"
        /\ Len(txs) + 1 \notin DOMAIN txs
    BY <1>4, Sends, NewTx
  <2>3. \A i \in DOMAIN txs : /\ txs'[i].kind = txs[i].kind /\ txs'[i].target = txs[i].target
                              /\ txs'[i].status = "success" <=> txs[i].status = "success"
    <3> SUFFICES ASSUME NEW i \in DOMAIN txs
                 PROVE  /\ txs'[i].kind = txs[i].kind /\ txs'[i].target = txs[i].target
                        /\ txs'[i].status = "success" <=> txs[i].status = "success"
      OBVIOUS
    <3>1. txs'[i].kind = txs[i].kind /\ txs'[i].target = txs[i].target
      BY Ledger DEF Kept, Same
    <3>2. \/ txs'[i].status = txs[i].status
          \/ txs[i].status = "pool" /\ txs'[i].status = "replaced"
      BY <1>4, Sends DEF InPool, OfKey
    <3> QED
      BY <3>1, <3>2
  <2> QED
    BY <2>1, <2>2, <2>3 DEF Deposits
<1>5. ASSUME NEW i \in DOMAIN txs, Drop(i)
      PROVE  deposit'[s] = deposit[s] /\ Deposits(s)' = Deposits(s)
  BY <1>5, DropEffect DEF chainVars, Deposits
<1>6. ASSUME UNCHANGED <<txs, chainVars>>
      PROVE  deposit'[s] = deposit[s] /\ Deposits(s)' = Deposits(s)
  BY <1>6 DEF chainVars, Deposits
<1>7. CASE \E g \in Goroutines : LocalStep(g) \/ Rotate(g)
  BY <1>2, <1>6, <1>7, LocalEffect DEF Rotate
<1>8. CASE \E g \in Goroutines : Begin(g)
  BY <1>2, <1>6, <1>8 DEF Begin
<1>9. CASE \E k \in Joining : AddSigner(k)
  BY <1>2, <1>6, <1>9 DEF AddSigner
<1>10. CASE UNCHANGED vars
  BY <1>2, <1>6, <1>10 DEF vars
<1> QED
  BY <1>2, <1>3, <1>4, <1>5, <1>7, <1>8, <1>9, <1>10, Cases

LEMMA ReceiptsHoldStep ==
  ASSUME TypeOK, TypeOK', Rotates, TurnsCounted, ReceiptsHold, [Next]_vars
  PROVE  ReceiptsHold'
<1>1. ASSUME NEW g \in Goroutines, Awaits(g)'
      PROVE  /\ call'[g].tx \in DOMAIN txs'
             /\ txs'[call'[g].tx].attempt = call'[g].attempt
             /\ txs'[call'[g].tx].kind = call'[g].kind /\ txs'[call'[g].tx].target = call'[g].target
             /\ call'[g].pc = "done" => txs'[call'[g].tx].status \in Mined
  <2>1. CASE /\ Awaits(g) /\ call'[g].tx = call[g].tx /\ call'[g].kind = call[g].kind
             /\ call'[g].target = call[g].target /\ call'[g].attempt = call[g].attempt
             /\ call'[g].pc = "done" =>
                  (call[g].pc = "done" \/ (HasReceipt(call[g].tx) /\ UNCHANGED txs))
    <3>1. /\ call[g].tx \in DOMAIN txs
          /\ txs[call[g].tx].attempt = call[g].attempt
          /\ txs[call[g].tx].kind = call[g].kind /\ txs[call[g].tx].target = call[g].target
          /\ call[g].pc = "done" => txs[call[g].tx].status \in Mined
      BY <2>1 DEF ReceiptsHold, At
    <3>2. /\ call[g].tx \in DOMAIN txs' /\ Kept(call[g].tx)
          /\ txs[call[g].tx].status \in Mined => txs'[call[g].tx].status \in Mined
      BY <3>1, Ledger DEF Mined
    <3>3. call'[g].pc = "done" => txs'[call[g].tx].status \in Mined
      BY <2>1, <3>1, <3>2 DEF HasReceipt
    <3> QED
      BY <2>1, <3>1, <3>2, <3>3 DEF Kept, Same
  <2>2. CASE /\ Send(g) /\ call'[g].pc = "wait" /\ call'[g].tx = Len(txs) + 1
             /\ call'[g].kind = call[g].kind /\ call'[g].target = call[g].target
             /\ call'[g].attempt = call[g].attempt
    BY <2>2, Sends, NewTx
  <2> QED
    BY <1>1, <2>1, <2>2, AwaitsStep
<1>2. \A s \in Senders : deposit'[s] = Cardinality(Deposits(s))'
  BY DepositStep
<1>3. ASSUME NEW i \in DOMAIN txs', txs'[i].kind = "DeployAccount", txs'[i].status = "success"
      PROVE  Account(txs'[i].target) \in code'
  <2>1. i \in DOMAIN txs /\ txs[i].kind = "DeployAccount" /\ txs'[i].target = txs[i].target
    BY <1>3, Receipt, Ledger DEF Kept, Same, Mined
  <2>2. CASE txs[i].status \in Mined /\ txs'[i].status = txs[i].status
    BY <1>3, <2>1, <2>2, ChainGrows DEF ReceiptsHold
  <2>3. CASE Mine(i)
    <3>1. Executes(txs[i])
      BY <1>3, <2>1, <2>3, MineEffect
    <3> QED
      BY <2>1, <3>1, Effects
  <2> QED
    BY <1>3, <2>2, <2>3, Receipt DEF Mined
<1> QED
  BY <1>1, <1>2, <1>3 DEF ReceiptsHold, At

-----------------------------------------------------------------------------
(* The theorems.                                                            *)

Invariant == TypeOK /\ Accounted /\ ClashOnlyIfLapped

LEMMA InitInvariant == Init => Invariant
<1> SUFFICES ASSUME Init
             PROVE  Invariant
  OBVIOUS
<1>1. /\ waiting \in Seq(Signers) /\ passed = <<>> /\ txs = <<>> /\ Len(txs) = 0
      /\ <<>> \in Seq(Signers) /\ <<>> \in Seq(Transactions) /\ DOMAIN txs = {}
      /\ call = [g \in Goroutines |-> Idle] /\ turns = 0 /\ calls = 0
  BY ExecutorAssumption, EmptySeq DEF Init, RotationInit
<1>2. TypeOK
  <2>1. Len(requests) \in Nat
    BY ExecutorAssumption DEF Init
  <2> QED
    BY <1>1, <2>1 DEF Init, TypeOK
<1>3. MinedInOrder
  <2>1. \A k : OfKey(k, Mined) = {}
    BY <1>1 DEF OfKey
  <2>2. \A k : MinedNonce(k) = 0
    BY <2>1, FS_EmptySet DEF MinedNonce
  <2> QED
    BY <2>2 DEF MinedInOrder
<1>4. Rotates
  BY <1>1 DEF Rotates, At, Idle
<1>5. TurnsCounted
  <2>1. AtRotation = {}
    BY <1>1 DEF AtRotation, At, Idle
  <2> QED
    BY <1>1, <2>1, FS_EmptySet DEF TurnsCounted
<1>6. TurnsApart
  BY <1>1 DEF TurnsApart, HasTurn, Idle
<1>7. BatchesHold
  BY <1>1 DEF BatchesHold, ExecutedIsNotResent
<1>8. CallsAreTold
  BY <1>1 DEF CallsAreTold, SentOncePerCall
<1>9. ReceiptsHold
  <2>1. \A g \in Goroutines : ~Awaits(g)
    BY <1>1 DEF Awaits, At, Idle
  <2>2. \A s \in Senders : Deposits(s) = {}
    BY <1>1 DEF Deposits
  <2>3. \A s \in Senders : deposit[s] = Cardinality(Deposits(s))
    BY <2>2, FS_EmptySet DEF Init
  <2> QED
    BY <1>1, <2>1, <2>3 DEF ReceiptsHold
<1>10. ClashOnlyIfLapped
  BY <1>1 DEF ClashOnlyIfLapped, At, Idle
<1> QED
  BY <1>2, <1>3, <1>4, <1>5, <1>6, <1>7, <1>8, <1>9, <1>10 DEF Invariant, Accounted

LEMMA InvariantStep == Invariant /\ [Next]_vars => Invariant'
<1> SUFFICES ASSUME Invariant, [Next]_vars
             PROVE  Invariant'
  OBVIOUS
<1>1. /\ TypeOK /\ MinedInOrder /\ Rotates /\ TurnsCounted /\ TurnsApart
      /\ BatchesHold /\ CallsAreTold /\ ReceiptsHold /\ ClashOnlyIfLapped
  BY DEF Invariant, Accounted
<1>2. TypeOK'
  BY <1>1, TypeStep
<1>3. MinedInOrder' /\ Rotates' /\ TurnsCounted' /\ TurnsApart'
  BY <1>1, <1>2, MinedInOrderStep, RotatesStep, TurnsCountedStep, TurnsApartStep
<1>4. BatchesHold' /\ CallsAreTold' /\ ReceiptsHold'
  BY <1>1, <1>2, BatchesHoldStep, CallsAreToldStep, ReceiptsHoldStep
<1>5. ClashOnlyIfLapped'
  BY <1>1, <1>2, ClashStep
<1> QED
  BY <1>2, <1>3, <1>4, <1>5 DEF Invariant, Accounted

LEMMA InvariantHolds == Spec => []Invariant
  BY InitInvariant, InvariantStep, PTL DEF Spec

\* TypeOK holds for any rotation, accounts and programs: a call that needs a key
\* has one, and nonces stay below the number of transactions (client.go:217-291).
THEOREM TypeCorrect == Spec => []TypeOK
<1>1. Invariant => TypeOK
  BY DEF Invariant
<1> QED
  BY <1>1, InvariantHolds, PTL

\* The inductive invariant, for rotations with any keys, the same ones several
\* times included: turns that gave a key which is there once are a round apart,
\* the operations of an executed batch have used their nonces, calls are told
\* apart, and receipts are of the caller's own transaction (client.go:217-291).
THEOREM AccountedInvariant == Spec => []Accounted
<1>1. Invariant => Accounted
  BY DEF Invariant
<1> QED
  BY <1>1, InvariantHolds, PTL

\* A transaction with a key that is in the rotation once, and neither verifies
\* nor owns, is refused or replaced only because of one a whole round away,
\* whatever the other keys are used for (client.go:217, 223, 245, 251).
THEOREM ClashesAreLapped == Spec => []ClashOnlyIfLapped
<1>1. Invariant => ClashOnlyIfLapped
  BY DEF Invariant
<1> QED
  BY <1>1, InvariantHolds, PTL

\* No call that begins after one of its operations has been executed sends a
\* batch (client.go:223, 251).
THEOREM ExecutedBatchesStay == Spec => []ExecutedIsNotResent
<1>1. Invariant => ExecutedIsNotResent
  BY DEF Invariant, Accounted, BatchesHold
<1> QED
  BY <1>1, InvariantHolds, PTL

\* A call sends one transaction at most (client.go:212, 223, 251, 273, 286).
THEOREM CallsSendOnce == Spec => []SentOncePerCall
<1>1. Invariant => SentOncePerCall
  BY DEF Invariant, Accounted, CallsAreTold
<1> QED
  BY <1>1, InvariantHolds, PTL

\* Prefund's receipts are its own, and each deposit is that of another call
\* (client.go:273-277).
THEOREM PrefundsCount == Spec => []PrefundIsThere
<1>1. ASSUME Invariant
      PROVE  PrefundIsThere
  <2>1. TypeOK /\ ReceiptsHold /\ SentOncePerCall
    BY <1>1 DEF Invariant, Accounted, CallsAreTold
  <2>2. ASSUME NEW g \in Goroutines, Finished(g, "Prefund")
        PROVE  HasOwnReceipt(g)
    <3>1. Awaits(g) /\ At(g, "done")
      BY <2>2 DEF Finished, Awaits, WaitsMined, HandleKinds
    <3> QED
      BY <2>1, <3>1 DEF ReceiptsHold, HasOwnReceipt
  <2>3. ASSUME NEW s \in Senders
        PROVE  deposit[s] = Cardinality({txs[i].attempt : i \in Deposits(s)})
    <3> DEFINE D == Deposits(s)
               A == {txs[i].attempt : i \in D}
               f == [i \in D |-> txs[i].attempt]
    <3>1. \A i, j \in D : txs[i].attempt = txs[j].attempt => i = j
      BY <2>1 DEF SentOncePerCall, Deposits
    <3>2. IsFiniteSet(D) /\ deposit[s] = Cardinality(D)
      BY <2>1, DepositsFinite DEF ReceiptsHold
    <3> HIDE DEF D
    <3>3. f \in Surjection(D, A)
      BY Zenon DEF Surjection
    <3>4. f \in Injection(D, A)
      BY <3>1 DEF Injection, IsInjective
    <3> HIDE DEF A, f
    <3>5. Cardinality(A) = Cardinality(D)
      BY ONLY <3>2, <3>3, <3>4, FS_Surjection
    <3> QED
      BY <3>2, <3>5 DEF A, D
  <2> QED
    BY <2>2, <2>3 DEF PrefundIsThere
<1> QED
  BY <1>1, InvariantHolds, PTL

\* DeployAccount returns with the receipt of its own transaction; with the owner
\* as its argument and a receipt of success the account is there
\* (client.go:281-291).
THEOREM OwnerGetsAccount == Spec => []OwnerIsDeployed
<1>1. ASSUME Invariant
      PROVE  OwnerIsDeployed
  <2> SUFFICES ASSUME NEW g \in Goroutines, Finished(g, "DeployAccount")
               PROVE  /\ HasOwnReceipt(g)
                      /\ txs[call[g].tx].status = "success" /\ call[g].target = Owner =>
                           Account(Owner) \in code
    BY DEF OwnerIsDeployed
  <2>1. ReceiptsHold
    BY <1>1 DEF Invariant, Accounted
  <2>2. Awaits(g) /\ call[g].kind = "DeployAccount" /\ At(g, "done")
    BY DEF Finished, Awaits, WaitsMined, HandleKinds
  <2> QED
    BY <2>1, <2>2 DEF ReceiptsHold, HasOwnReceipt
<1> QED
  BY <1>1, InvariantHolds, PTL

=============================================================================
