------------------------ MODULE SignerProviderProofs ------------------------
(***************************************************************************)
(* Theorems about SignerProvider for any goroutines, any signers and any    *)
(* list of them to begin with.                                              *)
(***************************************************************************)
EXTENDS SignerProvider, SequenceTheorems, TLAPS

\* The index wraps around exactly behind the last signer.
LEMMA Wraps ==
  ASSUME NEW current \in Nat, NEW n \in Nat, current < n
  PROVE  (current + 1) % n = IF current + 1 = n THEN 0 ELSE current + 1
<1>1. CASE current + 1 = n
  BY <1>1
<1>2. CASE current + 1 < n
  BY <1>2
<1> QED
  BY <1>1, <1>2

\* Who is inside a critical section holds the mutex for it, and alone if it
\* writes.
LEMMA Holders ==
  ASSUME TypeOK, NEW g \in Goroutines, op[g].pc \in InNext \cup {"append"}
  PROVE  /\ writer = g /\ writer # Nil
         /\ \A h \in Goroutines : h # g => op[h].pc \notin InNext \cup {"append"}
<1>1. \A h \in Goroutines : op[h].pc \in InNext \cup {"append"} => writer = h
  BY DEF TypeOK, HoldsMutex
<1> QED
  BY ONLY <1>1, ProviderAssumption, g \in Goroutines, op[g].pc \in InNext \cup {"append"}

\* Appending to a function on 1 .. n extends it to n + 1.
LEMMA Extends ==
  ASSUME NEW n \in Nat, NEW S, NEW f \in [1 .. n -> S], NEW x \in S
  PROVE  /\ Append(f, x) \in [1 .. n + 1 -> S]
         /\ \A i \in 1 .. n : Append(f, x)[i] = f[i]
         /\ Append(f, x)[n + 1] = x
<1>1. f \in Seq(S) /\ Len(f) = n
  OBVIOUS
<1>2. /\ Append(f, x) \in Seq(S) /\ Len(Append(f, x)) = n + 1
      /\ \A i \in 1 .. n : Append(f, x)[i] = f[i]
      /\ Append(f, x)[n + 1] = x
  BY <1>1, AppendProperties
<1> QED
  BY <1>2, LenProperties

\* Types and the mutex discipline are kept by every step.
LEMMA TypeStep ==
  ASSUME TypeOK, RoundRobin, [Next]_vars
  PROVE  TypeOK'
<1> USE ProviderAssumption DEF TypeOK
<1> DEFINE Mutex == \A h \in Goroutines : HoldsMutex(h)
<1>1. ASSUME NEW g \in Goroutines, NEW kind \in Kinds, Start(g, kind)
      PROVE  TypeOK'
  BY <1>1 DEF Start, Kinds, historyVars, OpTypes, HoldsMutex, At, InNext
<1>2. ASSUME NEW g \in Goroutines, RLock(g)
      PROVE  TypeOK'
  <2>1. op' \in [Goroutines -> OpTypes]
    BY <1>2 DEF RLock, Goto, OpTypes
  <2>2. op'[g].pc = "len" /\ \A h \in Goroutines : h # g => op'[h] = op[h]
    BY <1>2 DEF RLock, Goto, OpTypes
  <2>3. Mutex'
    BY <1>2, <2>2 DEF RLock, HoldsMutex, At, InNext
  <2> QED
    BY <1>2, <2>1, <2>3 DEF RLock, historyVars
<1>3. ASSUME NEW g \in Goroutines, ReadLen(g)
      PROVE  TypeOK'
  <2>1. op' \in [Goroutines -> OpTypes] /\ outcome' \in [Goroutines -> OutcomeTypes]
    <3>1. ASSUME NEW how \in {"ok", "panic"}, Return(g, how)
          PROVE  op' \in [Goroutines -> OpTypes] /\ outcome' \in [Goroutines -> OutcomeTypes]
      BY <3>1 DEF Return, Quiet, OpTypes, OutcomeTypes
    <3>2. CASE Goto(g, "lock") /\ UNCHANGED outcome
      BY <3>2 DEF Goto, OpTypes
    <3> QED
      BY <1>3, <3>1, <3>2 DEF ReadLen
  <2>2. op'[g].pc \in {"idle", "lock"} /\ \A h \in Goroutines : h # g => op'[h] = op[h]
    BY <1>3 DEF ReadLen, Return, Goto, Quiet, OpTypes
  <2>3. Mutex'
    BY <1>3, <2>2 DEF ReadLen, HoldsMutex, At, InNext
  <2> QED
    BY <1>3, <2>1, <2>3 DEF ReadLen, historyVars
<1>4. ASSUME NEW g \in Goroutines, Lock(g)
      PROVE  TypeOK'
  <2>1. op' \in [Goroutines -> OpTypes]
    BY <1>4 DEF Lock, Goto, OpTypes, InNext
  <2>2. op'[g].pc \in {"append", "load"} /\ \A h \in Goroutines : h # g => op'[h] = op[h]
    BY <1>4 DEF Lock, Goto, OpTypes
  <2>3. Mutex'
    BY <1>4, <2>2 DEF Lock, LockIsFree, HoldsMutex, At, InNext
  <2> QED
    BY <1>4, <2>1, <2>3 DEF Lock, historyVars
<1>5. ASSUME NEW g \in Goroutines, NextOnEmpty(g)
      PROVE  TypeOK'
  BY <1>5 DEF NextOnEmpty, Return, Quiet, Unlock, historyVars, OpTypes, OutcomeTypes,
              HoldsMutex, At, InNext
<1>6. ASSUME NEW g \in Goroutines, Load(g)
      PROVE  TypeOK'
  <2>1. op' \in [Goroutines -> OpTypes]
    BY <1>6 DEF Load, OpTypes, InNext
  <2>2. /\ op'[g].pc = "store" /\ op'[g].current = index
        /\ \A h \in Goroutines : h # g => op'[h] = op[h]
    BY <1>6 DEF Load, OpTypes
  <2>3. index < Len(signers)
    BY <1>6 DEF Load
  <2>4. Mutex'
    BY <1>6, <2>2, <2>3 DEF Load, HoldsMutex, At, InNext
  <2> QED
    BY <1>6, <2>1, <2>4 DEF Load, historyVars
<1>7. ASSUME NEW g \in Goroutines, Store(g)
      PROVE  TypeOK'
  <2>1. op' \in [Goroutines -> OpTypes]
    BY <1>7 DEF Store, Goto, OpTypes, InNext
  <2>2. /\ op'[g].pc = "pick" /\ op'[g].current = op[g].current
        /\ \A h \in Goroutines : h # g => op'[h] = op[h]
    BY <1>7 DEF Store, Goto, OpTypes
  <2>3. op[g].current \in Nat /\ op[g].current < Len(signers)
    BY <1>7 DEF Store, At, HoldsMutex, OpTypes
  <2>4. index' \in Nat /\ index' < Len(signers)
    BY <1>7, <2>3, Wraps DEF Store, Successor
  <2>5. Mutex'
    BY <1>7, <2>2, <2>3 DEF Store, HoldsMutex, At, InNext
  <2> QED
    BY <1>7, <2>1, <2>4, <2>5 DEF Store, historyVars
<1>8. ASSUME NEW g \in Goroutines, Pick(g)
      PROVE  TypeOK'
  <2>1. op' \in [Goroutines -> OpTypes] /\ outcome' \in [Goroutines -> OutcomeTypes]
    BY <1>8 DEF Pick, Return, Quiet, OpTypes, OutcomeTypes
  <2>2. op'[g].pc = "idle" /\ \A h \in Goroutines : h # g => op'[h] = op[h]
    BY <1>8 DEF Pick, Return, Quiet, OpTypes
  <2>3. op[g].current \in Nat /\ op[g].current < Len(signers)
    BY <1>8 DEF Pick, At, HoldsMutex, OpTypes
  <2>4. last' \in Signers /\ served' \in [1 .. Len(signers) -> Nat]
    BY <1>8, <2>3 DEF Pick
  <2>5. round' \in Nat /\ round <= round'
    BY <1>8 DEF Pick
  <2>6. since' \in [1 .. Len(signers) -> 0 .. round']
    BY <1>8, <2>5 DEF Pick
  <2>7. Mutex'
    BY <1>8, <2>2, Holders DEF Pick, Unlock, HoldsMutex, At, InNext
  <2> QED
    BY <1>8, <2>1, <2>4, <2>5, <2>6, <2>7 DEF Pick, Unlock
<1>9. ASSUME NEW g \in Goroutines, NEW s \in Signers, AppendSigner(g, s)
      PROVE  TypeOK'
  <2>1. op' \in [Goroutines -> OpTypes] /\ outcome' \in [Goroutines -> OutcomeTypes]
    BY <1>9 DEF AppendSigner, Return, Quiet, OpTypes, OutcomeTypes
  <2>2. op'[g].pc = "idle" /\ \A h \in Goroutines : h # g => op'[h] = op[h]
    BY <1>9 DEF AppendSigner, Return, Quiet, OpTypes
  <2>3. signers' \in Seq(Signers) /\ Len(signers') = Len(signers) + 1
    BY <1>9 DEF AppendSigner, Appended
  <2>4. /\ served' \in [1 .. Len(signers') -> Nat]
        /\ since' \in [1 .. Len(signers') -> 0 .. round]
    <3>1. served' = Append(served, 0) /\ since' = Append(since, round)
      BY <1>9 DEF AppendSigner
    <3>2. Len(signers) \in Nat /\ 0 \in Nat /\ round \in 0 .. round
      OBVIOUS
    <3>3. Append(served, 0) \in [1 .. Len(signers) + 1 -> Nat]
      BY <3>2, Extends
    <3>4. Append(since, round) \in [1 .. Len(signers) + 1 -> 0 .. round]
      BY <3>2, Extends
    <3> QED
      BY <2>3, <3>1, <3>3, <3>4
  <2>5. Mutex'
    BY <1>9, <2>2, Holders DEF AppendSigner, Unlock, HoldsMutex, At, InNext
  <2> QED
    BY <1>9, <2>1, <2>3, <2>4, <2>5 DEF AppendSigner, Unlock
<1>10. CASE UNCHANGED vars
  BY <1>10 DEF vars, historyVars, HoldsMutex, At
<1> QED
  BY <1>1, <1>2, <1>3, <1>4, <1>5, <1>6, <1>7, <1>8, <1>9, <1>10 DEF Next, Step

-----------------------------------------------------------------------------
(* The inductive invariant.                                                 *)

\* The cursor is the index the writer has read while it is about to pick, and
\* p.index at any other time.
LEMMA CursorOf ==
  ASSUME TypeOK
  PROVE  /\ \A g \in Goroutines : At(g, "pick") => Cursor = op[g].current
         /\ (\A g \in Goroutines : ~At(g, "pick")) => Cursor = index
         /\ \A g \in Goroutines : op[g].pc \in {"load", "store", "append"} => Cursor = index
<1>1. ASSUME NEW g \in Goroutines, op[g].pc \in InNext \cup {"append"}
      PROVE  writer = g /\ writer # Nil
  BY <1>1, Holders
<1>2. writer \in Goroutines \cup {Nil}
  BY DEF TypeOK
<1> QED
  BY <1>1, <1>2 DEF Cursor, At, InNext

\* A step that moves no signer, no turn and no cursor keeps the shares.
LEMMA QuietTurns ==
  ASSUME RoundRobin, UNCHANGED <<signers, served, since, round>>, Cursor' = Cursor
  PROVE  TurnsByCursor'
BY DEF RoundRobin, TurnsByCursor

\* Every step keeps the index, the turns and the rounds together.
LEMMA RoundRobinStep ==
  ASSUME TypeOK, RoundRobin, [Next]_vars
  PROVE  RoundRobin'
<1> USE ProviderAssumption
<1>0. TypeOK'
  BY TypeStep
<1>1. ASSUME NEW g \in Goroutines, NEW kind \in Kinds, Start(g, kind)
      PROVE  RoundRobin'
  <2>1. /\ op[g].pc = "idle"
        /\ op'[g].pc \in {"lock", "rlock"} /\ (op'[g].pc = "lock" => op'[g].kind # "HandleOps")
        /\ \A h \in Goroutines : h # g => op'[h] = op[h]
        /\ UNCHANGED <<signers, index, writer, historyVars>>
    BY <1>1 DEF Start, TypeOK, OpTypes, At
  <2>2. op'[g].kind = "HandleOps" => op'[g].pc = "rlock"
    BY <2>1
  <2>3. IndexIsCurrent' /\ CountedStay'
    BY <2>1, <2>2 DEF RoundRobin, IndexIsCurrent, CountedStay, At, Successor
  <2>4. Cursor' = Cursor
    BY <2>1 DEF Cursor, At, TypeOK
  <2> QED
    BY <2>1, <2>3, <2>4, QuietTurns DEF RoundRobin, historyVars
<1>2. ASSUME NEW g \in Goroutines, RLock(g)
      PROVE  RoundRobin'
  <2>1. /\ op[g].pc = "rlock" /\ op'[g].pc = "len"
        /\ \A h \in Goroutines : h # g => op'[h] = op[h]
        /\ UNCHANGED <<signers, index, writer, historyVars>>
    BY <1>2 DEF RLock, Goto, TypeOK, OpTypes, At
  <2>2. IndexIsCurrent' /\ CountedStay'
    BY <2>1 DEF RoundRobin, IndexIsCurrent, CountedStay, At, Successor
  <2>3. Cursor' = Cursor
    BY <2>1 DEF Cursor, At, TypeOK
  <2> QED
    BY <2>1, <2>2, <2>3, QuietTurns DEF RoundRobin, historyVars
<1>3. ASSUME NEW g \in Goroutines, ReadLen(g)
      PROVE  RoundRobin'
  <2>1. /\ op[g].pc = "len" /\ op'[g].pc \in {"idle", "lock"}
        /\ op'[g].pc = "lock" => signers # <<>>
        /\ \A h \in Goroutines : h # g => op'[h] = op[h]
        /\ UNCHANGED <<signers, index, writer, historyVars>>
    BY <1>3 DEF ReadLen, Return, Goto, Quiet, NoSigners, TypeOK, OpTypes, At
  <2>2. IndexIsCurrent' /\ CountedStay'
    BY <2>1 DEF RoundRobin, IndexIsCurrent, CountedStay, At, Successor
  <2>3. Cursor' = Cursor
    BY <2>1 DEF Cursor, At, TypeOK
  <2> QED
    BY <2>1, <2>2, <2>3, QuietTurns DEF RoundRobin, historyVars
<1>4. ASSUME NEW g \in Goroutines, Lock(g)
      PROVE  RoundRobin'
  <2>1. /\ op[g].pc = "lock" /\ op'[g].pc \in {"append", "load"} /\ op'[g].kind = op[g].kind
        /\ \A h \in Goroutines : h # g => op'[h] = op[h]
        /\ writer = Nil /\ UNCHANGED <<signers, index, historyVars>>
    BY <1>4 DEF Lock, LockIsFree, Goto, TypeOK, OpTypes, At
  <2>2. IndexIsCurrent' /\ CountedStay'
    BY <2>1 DEF RoundRobin, IndexIsCurrent, CountedStay, At, Successor
  <2>3. Cursor = index
    BY <2>1 DEF Cursor
  <2>4. Cursor' = index'
    BY <1>4, <2>1 DEF Cursor, At, Lock
  <2> QED
    BY <2>1, <2>2, <2>3, <2>4, QuietTurns DEF RoundRobin, historyVars
<1>5. ASSUME NEW g \in Goroutines, NextOnEmpty(g)
      PROVE  RoundRobin'
  <2>1. /\ op[g].pc = "load" /\ op'[g].pc = "idle"
        /\ \A h \in Goroutines : h # g => op'[h] = op[h]
        /\ writer' = Nil /\ UNCHANGED <<signers, index, historyVars>>
    BY <1>5 DEF NextOnEmpty, Return, Quiet, Unlock, TypeOK, OpTypes, At
  <2>2. IndexIsCurrent' /\ CountedStay'
    BY <2>1 DEF RoundRobin, IndexIsCurrent, CountedStay, At, Successor
  <2>3. Cursor' = Cursor
    BY <2>1, CursorOf DEF Cursor
  <2> QED
    BY <2>1, <2>2, <2>3, QuietTurns DEF RoundRobin, historyVars
<1>6. ASSUME NEW g \in Goroutines, Load(g)
      PROVE  RoundRobin'
  <2>1. /\ op[g].pc = "load" /\ op'[g].pc = "store" /\ op'[g].current = index
        /\ \A h \in Goroutines : h # g => op'[h] = op[h]
        /\ signers # <<>> /\ UNCHANGED <<signers, index, writer, historyVars>>
    BY <1>6 DEF Load, TypeOK, OpTypes, At
  <2>2. IndexIsCurrent' /\ CountedStay'
    BY <2>1 DEF RoundRobin, IndexIsCurrent, CountedStay, At, Successor
  <2>3. Cursor = index
    BY <2>1, CursorOf
  <2>4. Cursor' = index'
    BY <2>1, CursorOf, Holders DEF Cursor, At, InNext
  <2> QED
    BY <2>1, <2>2, <2>3, <2>4, QuietTurns DEF RoundRobin, historyVars
<1>7. ASSUME NEW g \in Goroutines, Store(g)
      PROVE  RoundRobin'
  <2>1. /\ op[g].pc = "store" /\ op'[g].pc = "pick" /\ op'[g].current = op[g].current
        /\ \A h \in Goroutines : h # g => op'[h] = op[h]
        /\ index' = Successor(op[g].current) /\ writer' = writer
        /\ UNCHANGED <<signers, historyVars>>
    BY <1>7 DEF Store, Goto, TypeOK, OpTypes, At
  <2>2. \A h \in Goroutines : h # g => op[h].pc \notin {"store", "pick"}
    BY <2>1, Holders DEF InNext
  <2>3. IndexIsCurrent' /\ CountedStay'
    BY <2>1, <2>2 DEF RoundRobin, IndexIsCurrent, CountedStay, At, Successor
  <2>4. Cursor = op[g].current
    BY <2>1, CursorOf DEF RoundRobin, IndexIsCurrent, At
  <2>5. writer = g /\ writer # Nil
    BY <2>1, Holders DEF InNext
  <2>6. Cursor' = op[g].current
    BY <2>1, <2>5 DEF Cursor, At
  <2> QED
    BY <2>1, <2>3, <2>4, <2>6, QuietTurns DEF RoundRobin, historyVars
<1>8. ASSUME NEW g \in Goroutines, Pick(g)
      PROVE  RoundRobin'
  <2> DEFINE current == op[g].current
  <2>1. /\ op[g].pc = "pick" /\ op'[g].pc = "idle"
        /\ \A h \in Goroutines : h # g => op'[h] = op[h]
        /\ served' = [served EXCEPT ![current + 1] = @ + 1]
        /\ round' = IF index = 0 THEN round + 1 ELSE round
        /\ writer' = Nil /\ UNCHANGED <<signers, index, since>>
    BY <1>8 DEF Pick, Return, Quiet, Unlock, TypeOK, OpTypes, At
  <2>2. IndexIsCurrent' /\ CountedStay'
    BY <2>1 DEF RoundRobin, IndexIsCurrent, CountedStay, At, Successor
  <2>3. /\ Cursor = current /\ current \in Nat /\ current < Len(signers)
        /\ index = Successor(current)
    BY <2>1, CursorOf DEF TypeOK, OpTypes, HoldsMutex, At, RoundRobin, IndexIsCurrent
  <2>4. index = IF current + 1 = Len(signers) THEN 0 ELSE current + 1
    BY <2>3, Wraps DEF Successor
  <2>5. Cursor' = index
    BY <2>1 DEF Cursor
  <2>6. ASSUME NEW i \in DOMAIN signers
        PROVE  served'[i] + since[i] = IF i <= index THEN round' + 1 ELSE round'
    <3>1. /\ served[i] + since[i] = IF i <= current THEN round + 1 ELSE round
          /\ i \in Nat /\ 0 < i /\ i <= Len(signers)
          /\ served[i] \in Nat /\ since[i] \in Nat
      BY <2>3 DEF RoundRobin, TurnsByCursor, TypeOK
    <3>2. served'[i] = IF i = current + 1 THEN served[i] + 1 ELSE served[i]
      BY <2>1 DEF TypeOK
    <3>3. round \in Nat /\ Len(signers) \in Nat
      BY DEF TypeOK
    <3> HIDE DEF current
    <3> QED
      BY ONLY <2>1, <2>3, <2>4, <3>1, <3>2, <3>3
  <2>7. TurnsByCursor'
    BY <2>1, <2>5, <2>6 DEF TurnsByCursor
  <2> QED
    BY <2>2, <2>7 DEF RoundRobin
<1>9. ASSUME NEW g \in Goroutines, NEW s \in Signers, AppendSigner(g, s)
      PROVE  RoundRobin'
  <2>1. /\ op[g].pc = "append" /\ op'[g].pc = "idle"
        /\ \A h \in Goroutines : h # g => op'[h] = op[h]
        /\ signers' = Append(signers, s)
        /\ served' = Append(served, 0) /\ since' = Append(since, round)
        /\ writer' = Nil /\ UNCHANGED <<index, round>>
    BY <1>9 DEF AppendSigner, Appended, Return, Quiet, Unlock, TypeOK, OpTypes, At
  <2>2. \A h \in Goroutines : op'[h].pc \notin {"store", "pick"}
    BY <2>1, Holders DEF InNext
  <2>3. signers \in Seq(Signers) /\ Len(signers) \in Nat /\ signers' # <<>>
        /\ DOMAIN signers' = 1 .. Len(signers) + 1
    <3>1. signers \in Seq(Signers)
      BY DEF TypeOK
    <3> QED
      BY <2>1, <3>1, AppendProperties, LenProperties
  <2>4. IndexIsCurrent' /\ CountedStay'
    BY <2>1, <2>2, <2>3 DEF IndexIsCurrent, CountedStay, At
  <2>5. Cursor = index /\ Cursor' = index
    BY <2>1, CursorOf DEF Cursor
  <2>6. index \in Nat /\ index <= Len(signers)
    BY DEF TypeOK
  <2>7. /\ \A i \in 1 .. Len(signers) : served'[i] = served[i] /\ since'[i] = since[i]
        /\ served'[Len(signers) + 1] = 0 /\ since'[Len(signers) + 1] = round
    <3>1. served \in [1 .. Len(signers) -> Nat] /\ since \in [1 .. Len(signers) -> 0 .. round]
          /\ 0 \in Nat /\ round \in 0 .. round
      BY DEF TypeOK
    <3>2. /\ \A i \in 1 .. Len(signers) : served'[i] = served[i]
          /\ served'[Len(signers) + 1] = 0
      BY <2>1, <2>3, <3>1, Extends
    <3>3. /\ \A i \in 1 .. Len(signers) : since'[i] = since[i]
          /\ since'[Len(signers) + 1] = round
      BY <2>1, <2>3, <3>1, Extends
    <3> QED
      BY <3>2, <3>3
  <2>8. ASSUME NEW i \in DOMAIN signers'
        PROVE  served'[i] + since'[i] = IF i <= index THEN round + 1 ELSE round
    <3>1. CASE i \in DOMAIN signers
      BY <2>3, <2>5, <2>7, <3>1 DEF RoundRobin, TurnsByCursor
    <3>2. CASE i = Len(signers) + 1
      BY <2>6, <2>7, <3>2 DEF TypeOK
    <3> QED
      BY <2>3, <3>1, <3>2
  <2>9. TurnsByCursor'
    BY <2>1, <2>5, <2>8 DEF TurnsByCursor
  <2> QED
    BY <2>4, <2>9 DEF RoundRobin
<1>10. CASE UNCHANGED vars
  <2>1. UNCHANGED <<signers, index, writer, op, served, round, since>>
    BY <1>10 DEF vars, historyVars
  <2> QED
    BY <2>1 DEF RoundRobin, IndexIsCurrent, CountedStay, TurnsByCursor, Cursor, At, Successor
<1> QED
  BY <1>1, <1>2, <1>3, <1>4, <1>5, <1>6, <1>7, <1>8, <1>9, <1>10 DEF Next, Step

\* The first state, before any operation.
LEMMA InitInvariant == Init => TypeOK /\ RoundRobin
<1> SUFFICES ASSUME Init
             PROVE  TypeOK /\ RoundRobin
  OBVIOUS
<1> USE ProviderAssumption
<1>1. signers \in Seq(Signers) /\ Len(signers) \in Nat /\ DOMAIN signers = 1 .. Len(signers)
  BY DEF Init
<1>2. TypeOK
  BY <1>1 DEF Init, TypeOK, Quiet, OpTypes, OutcomeTypes, HoldsMutex, At, InNext
<1>3. RoundRobin
  BY <1>1 DEF Init, RoundRobin, IndexIsCurrent, CountedStay, TurnsByCursor, Cursor, Quiet, At
<1> QED
  BY <1>2, <1>3

\* Type correctness: the mutex is held by whom the code thinks it is, and
\* p.signers[current] is never out of range.
THEOREM TypeCorrect == Spec => []TypeOK
<1> QED
  BY InitInvariant, TypeStep, RoundRobinStep, PTL DEF Spec

\* Index, turns and rounds belong together at every point of every operation.
THEOREM RoundRobinInvariant == Spec => [](TypeOK /\ RoundRobin)
<1> QED
  BY InitInvariant, TypeStep, RoundRobinStep, PTL DEF Spec

-----------------------------------------------------------------------------
(* The safety properties.                                                   *)

\* No signer is ever more than one turn ahead of another, counted from the
\* rounds in which they joined.
THEOREM SharesAreEven == Spec => []EvenShare
<1>1. TypeOK /\ RoundRobin => EvenShare
  <2> SUFFICES ASSUME TypeOK, RoundRobin, NEW i \in DOMAIN signers, NEW j \in DOMAIN signers
               PROVE  served[i] + since[i] <= served[j] + since[j] + 1
    BY DEF EvenShare
  <2>1. round \in Nat
    BY DEF TypeOK
  <2> QED
    BY <2>1 DEF RoundRobin, TurnsByCursor
<1> QED
  BY <1>1, RoundRobinInvariant, PTL

\* A HandleOps that has passed the test of Count gets a signer.
THEOREM HandleOpsIsServed == Spec => []HandleOpsGetsSigner
<1>1. Init => HandleOpsGetsSigner
  <2> SUFFICES ASSUME Init, NEW g \in Goroutines
               PROVE  outcome[g] # [kind |-> "HandleOps", how |-> "nil"]
    BY DEF HandleOpsGetsSigner
  <2>1. outcome[g].kind = "none"
    BY DEF Init
  <2> QED
    BY <2>1
<1>2. TypeOK /\ RoundRobin /\ HandleOpsGetsSigner /\ [Next]_vars => HandleOpsGetsSigner'
  <2> SUFFICES ASSUME TypeOK, RoundRobin, HandleOpsGetsSigner, [Next]_vars
               PROVE  HandleOpsGetsSigner'
    OBVIOUS
  <2>1. CASE UNCHANGED outcome
    BY <2>1 DEF HandleOpsGetsSigner
  <2>2. ASSUME NEW g \in Goroutines, NEW how \in {"ok", "panic", "signer"}, Return(g, how)
        PROVE  HandleOpsGetsSigner'
    BY <2>2 DEF Return, HandleOpsGetsSigner, TypeOK
  <2>3. ASSUME NEW g \in Goroutines, NextOnEmpty(g)
        PROVE  HandleOpsGetsSigner'
    <3>1. op[g].kind # "HandleOps"
      BY <2>3 DEF NextOnEmpty, At, RoundRobin, CountedStay
    <3> QED
      BY <2>3, <3>1 DEF NextOnEmpty, Return, HandleOpsGetsSigner, TypeOK
  <2>4. ASSUME NEW g \in Goroutines, ReadLen(g)
        PROVE  HandleOpsGetsSigner'
    BY <2>1, <2>2, <2>4 DEF ReadLen
  <2>5. ASSUME NEW g \in Goroutines, Pick(g)
        PROVE  HandleOpsGetsSigner'
    BY <2>2, <2>5 DEF Pick
  <2>6. ASSUME NEW g \in Goroutines, NEW s \in Signers, AppendSigner(g, s)
        PROVE  HandleOpsGetsSigner'
    BY <2>2, <2>6 DEF AppendSigner
  <2> QED
    BY <2>1, <2>3, <2>4, <2>5, <2>6 DEF Next, Step, Start, RLock, Lock, Load, Store, vars
<1> QED
  BY <1>1, <1>2, RoundRobinInvariant, PTL DEF Spec

-----------------------------------------------------------------------------
(* The refinement of Rotation.                                              *)

\* The two parts into which the cursor cuts the signers.
Waiting == SubSeq(signers, Cursor + 1, Len(signers))
Passed == SubSeq(signers, 1, Cursor)

\* Elements and lengths of the two parts of a sequence cut behind position c.
LEMMA Cut ==
  ASSUME NEW S, NEW seq \in Seq(S), NEW c \in 0 .. Len(seq)
  PROVE  /\ SubSeq(seq, c + 1, Len(seq)) \in Seq(S) /\ SubSeq(seq, 1, c) \in Seq(S)
         /\ Len(SubSeq(seq, c + 1, Len(seq))) = Len(seq) - c
         /\ Len(SubSeq(seq, 1, c)) = c
         /\ \A i \in 1 .. Len(seq) - c : SubSeq(seq, c + 1, Len(seq))[i] = seq[c + i]
         /\ \A i \in 1 .. c : SubSeq(seq, 1, c)[i] = seq[i]
BY SubSeqProperties

\* The cursor is a position between two signers, and before the last one when
\* there are any.
LEMMA CursorInRange ==
  ASSUME TypeOK
  PROVE  Cursor \in 0 .. Len(signers) /\ (signers # <<>> => Cursor < Len(signers))
<1>1. CASE writer # Nil /\ At(writer, "pick")
  <2>1. writer \in Goroutines /\ Cursor = op[writer].current
    BY <1>1 DEF TypeOK, Cursor
  <2> QED
    BY <1>1, <2>1 DEF TypeOK, OpTypes, HoldsMutex, At
<1>2. CASE ~(writer # Nil /\ At(writer, "pick"))
  BY <1>2 DEF TypeOK, Cursor
<1> QED
  BY <1>1, <1>2

\* A step that moves no signer and no cursor and hands out nothing is a
\* stutter of the rotation.
LEMMA QuietRotation ==
  ASSUME UNCHANGED <<signers, last>>, Cursor' = Cursor
  PROVE  UNCHANGED <<Waiting, Passed, last>>
BY DEF Waiting, Passed

\* Next hands out the signer behind the cursor and moves the cursor on.
LEMMA PickTakesTurn ==
  ASSUME TypeOK, RoundRobin, NEW g \in Goroutines, Pick(g)
  PROVE  Rot!TakeTurn
<1> DEFINE c == op[g].current
           n == Len(signers)
<1>1. /\ Cursor = c /\ c \in Nat /\ c < n /\ index = Successor(c)
  BY CursorOf DEF Pick, TypeOK, OpTypes, HoldsMutex, At, RoundRobin, IndexIsCurrent
<1>2. index = IF c + 1 = n THEN 0 ELSE c + 1
  BY <1>1, Wraps DEF Successor
<1>3. /\ last' = signers[c + 1] /\ signers' = signers /\ Cursor' = index
  BY DEF Pick, Unlock, Cursor
<1>4. signers \in Seq(Signers) /\ n \in Nat /\ c + 1 \in 1 .. n /\ n \in c + 1 .. n
  BY <1>1 DEF TypeOK
<1> HIDE DEF c, n
<1>5. Waiting = SubSeq(signers, c + 1, n) /\ Passed = SubSeq(signers, 1, c)
  BY <1>1 DEF Waiting, Passed, n
<1>6. Waiting # <<>> /\ Head(Waiting) = last' /\ Tail(Waiting) = SubSeq(signers, c + 2, n)
  <2>1. Head(Waiting) = signers[c + 1] /\ Tail(Waiting) = SubSeq(signers, (c + 1) + 1, n)
    BY <1>4, <1>5, HeadTailOfSubSeq DEF n
  <2>2. Len(Waiting) = n - c
    BY <1>1, <1>4, <1>5, Cut DEF n
  <2>3. (c + 1) + 1 = c + 2 /\ n - c # 0
    BY <1>1, <1>4
  <2> QED
    BY <1>3, <2>1, <2>2, <2>3
<1>7. Waiting' = SubSeq(signers, index + 1, n) /\ Passed' = SubSeq(signers, 1, index)
  BY <1>3 DEF Waiting, Passed, n
<1>8. CASE c + 1 = n
  <2>1. Tail(Waiting) = <<>>
    <3>1. c + 2 \in Int /\ n \in Int /\ n < c + 2
      BY <1>1, <1>4, <1>8
    <3> QED
      BY <1>6, <3>1, SubSeqEmpty
  <2>2. Waiting' = signers /\ Passed' = <<>>
    BY <1>2, <1>4, <1>7, <1>8, SubSeqFull, SubSeqEmpty DEF n
  <2>3. Passed \o Waiting = signers
    BY <1>1, <1>4, <1>5, ConcatAdjacentSubSeq, SubSeqFull DEF n
  <2> QED
    BY <1>6, <2>1, <2>2, <2>3 DEF Rot!TakeTurn, Waiting, Passed
<1>9. CASE c + 1 # n
  <2>1. index = c + 1 /\ index + 1 = c + 2 /\ c + 1 <= n
    BY <1>1, <1>2, <1>4, <1>9
  <2>2. Len(Tail(Waiting)) = n - (c + 1)
    BY <1>4, <1>6, <2>1, Cut DEF n
  <2>3. Tail(Waiting) # <<>>
    <3>1. n - (c + 1) # 0
      BY <1>1, <1>4, <1>9
    <3> QED
      BY <2>2, <3>1, EmptySeq
  <2>4. Waiting' = Tail(Waiting)
    BY <1>6, <1>7, <2>1
  <2>5. Passed' = SubSeq(signers, 1, c) \o <<signers[c + 1]>>
    <3>1. 1 \in 1 .. n /\ c + 1 \in 1 .. n /\ (c + 1) - 1 = c
      BY <1>1, <1>4
    <3> QED
      BY <1>4, <1>7, <2>1, <3>1, SubSeqRecursiveSecond DEF n
  <2>6. Passed' = Append(Passed, Head(Waiting))
    <3>1. Passed \in Seq(Signers) /\ signers[c + 1] \in Signers
      BY <1>1, <1>4, <1>5, Cut DEF n
    <3> QED
      BY <1>3, <1>5, <1>6, <2>5, <3>1, AppendIsConcat
  <2> QED
    BY <1>6, <2>3, <2>4, <2>6 DEF Rot!TakeTurn, Waiting, Passed
<1> QED
  BY <1>8, <1>9

\* Add puts the signer behind those that wait.
LEMMA AppendJoins ==
  ASSUME TypeOK, NEW g \in Goroutines, NEW s \in Signers, AppendSigner(g, s)
  PROVE  Rot!Join(s)
<1> DEFINE c == Cursor
           n == Len(signers)
<1>1. /\ signers' = Append(signers, s) /\ last' = last
      /\ Cursor' = c
  BY CursorOf DEF AppendSigner, Appended, Unlock, Cursor, At
<1>2. signers \in Seq(Signers) /\ n \in Nat /\ c \in 0 .. n
  BY CursorInRange DEF TypeOK
<1> HIDE DEF c, n
<1>3. /\ signers' \in Seq(Signers) /\ Len(signers') = n + 1 /\ c \in 0 .. Len(signers')
      /\ \A i \in 1 .. n : signers'[i] = signers[i]
      /\ signers'[n + 1] = s
  BY <1>1, <1>2, AppendProperties DEF n
<1>4. /\ Waiting = SubSeq(signers, c + 1, n) /\ Passed = SubSeq(signers, 1, c)
      /\ Waiting' = SubSeq(signers', c + 1, n + 1) /\ Passed' = SubSeq(signers', 1, c)
  BY <1>1, <1>3 DEF Waiting, Passed, c, n
<1>5. /\ Waiting \in Seq(Signers) /\ Passed \in Seq(Signers)
      /\ Len(Waiting) = n - c /\ Len(Passed) = c
      /\ \A i \in 1 .. n - c : Waiting[i] = signers[c + i]
      /\ \A i \in 1 .. c : Passed[i] = signers[i]
  BY <1>2, <1>4, Cut DEF n
<1>6. /\ Waiting' \in Seq(Signers) /\ Passed' \in Seq(Signers)
      /\ Len(Waiting') = (n + 1) - c /\ Len(Passed') = c
      /\ \A i \in 1 .. (n + 1) - c : Waiting'[i] = signers'[c + i]
      /\ \A i \in 1 .. c : Passed'[i] = signers'[i]
  BY <1>3, <1>4, Cut
<1>7. Passed' = Passed
  <2>1. \A i \in 1 .. c : Passed'[i] = Passed[i]
    BY <1>2, <1>3, <1>5, <1>6
  <2> QED
    BY <1>5, <1>6, <2>1, SeqEqual
<1>8. Waiting' = Append(Waiting, s)
  <2>1. /\ Append(Waiting, s) \in Seq(Signers) /\ Len(Append(Waiting, s)) = (n + 1) - c
        /\ \A i \in 1 .. n - c : Append(Waiting, s)[i] = Waiting[i]
        /\ Append(Waiting, s)[(n - c) + 1] = s
    BY <1>2, <1>5, AppendProperties
  <2>2. ASSUME NEW i \in 1 .. (n + 1) - c
        PROVE  Waiting'[i] = Append(Waiting, s)[i]
    <3>1. CASE i \in 1 .. n - c
      <4>1. c + i \in 1 .. n
        BY <1>2, <3>1
      <4> QED
        BY <1>3, <1>5, <1>6, <2>1, <3>1, <4>1
    <3>2. CASE i = (n - c) + 1
      <4>1. c + i = n + 1
        BY <1>2, <3>2
      <4> QED
        BY <1>3, <1>6, <2>1, <3>2, <4>1
    <3>3. i \in 1 .. n - c \/ i = (n - c) + 1
      BY <1>2, <2>2
    <3> QED
      BY <3>1, <3>2, <3>3
  <2> QED
    BY <1>6, <2>1, <2>2, SeqEqual
<1> QED
  BY <1>1, <1>7, <1>8 DEF Rot!Join, Waiting, Passed

\* The other steps of an operation stutter: a cursor that is read, stored or
\* given up stays where it was.
LEMMA OthersStutter ==
  ASSUME TypeOK, RoundRobin, NEW g \in Goroutines,
         \/ \E kind \in Kinds : Start(g, kind)
         \/ RLock(g) \/ ReadLen(g) \/ Lock(g) \/ NextOnEmpty(g) \/ Load(g) \/ Store(g)
  PROVE  UNCHANGED <<signers, last>> /\ Cursor' = Cursor
<1> USE ProviderAssumption
<1>1. CASE \/ \E kind \in Kinds : Start(g, kind)
           \/ RLock(g) \/ ReadLen(g)
  <2>1. /\ op[g].pc # "pick" /\ op'[g].pc # "pick"
        /\ \A h \in Goroutines : h # g => op'[h] = op[h]
        /\ UNCHANGED <<signers, last, index, writer>>
    BY <1>1 DEF Start, RLock, ReadLen, Goto, Return, Quiet, TypeOK, OpTypes, At, historyVars
  <2> QED
    BY <2>1 DEF Cursor, At, TypeOK
<1>2. CASE Lock(g)
  <2>1. op'[g].pc # "pick" /\ writer' = g /\ writer = Nil
    BY <1>2 DEF Lock, LockIsFree, Goto, TypeOK, OpTypes
  <2> QED
    BY <1>2, <2>1 DEF Lock, Cursor, At, historyVars
<1>3. CASE NextOnEmpty(g)
  BY <1>3, CursorOf DEF NextOnEmpty, Unlock, Cursor, At, historyVars
<1>4. CASE Load(g)
  <2>1. op'[g].pc = "store" /\ writer' = g /\ Cursor = index
    BY <1>4, Holders, CursorOf DEF Load, TypeOK, OpTypes, At, InNext
  <2> QED
    BY <1>4, <2>1 DEF Load, Cursor, At, historyVars
<1>5. CASE Store(g)
  <2>1. /\ op'[g].pc = "pick" /\ op'[g].current = op[g].current
        /\ writer' = g /\ writer # Nil /\ Cursor = op[g].current
    BY <1>5, Holders, CursorOf
       DEF Store, Goto, TypeOK, OpTypes, At, InNext, RoundRobin, IndexIsCurrent
  <2>2. Cursor' = op[g].current
    BY <2>1, ProviderAssumption DEF Cursor, At
  <2> QED
    BY <1>5, <2>1, <2>2 DEF Store, historyVars
<1> QED
  BY <1>1, <1>2, <1>3, <1>4, <1>5

\* The provider, with its index, its mutex and the goroutines at every point of
\* their operations, hands out signers as the rotation does.
THEOREM ProviderImplementsRotation == Spec => ImplementsRotation
<1>1. Init => Rot!RotationInit
  <2> SUFFICES ASSUME Init
               PROVE  Rot!RotationInit
    OBVIOUS
  <2>1. Cursor = 0 /\ signers \in Seq(Signers) /\ Len(signers) \in Nat
    BY ProviderAssumption DEF Init, Cursor
  <2>2. SubSeq(signers, Cursor + 1, Len(signers)) = signers
    BY <2>1, SubSeqFull
  <2>3. SubSeq(signers, 1, Cursor) = <<>>
    BY <2>1, SubSeqEmpty
  <2> QED
    BY <2>2, <2>3 DEF Init, Rot!RotationInit
<1>2. TypeOK /\ RoundRobin /\ [Next]_vars => [Rot!RotationNext]_(Rot!rotationVars)
  <2> SUFFICES ASSUME TypeOK, RoundRobin, [Next]_vars
               PROVE  [Rot!RotationNext]_(Rot!rotationVars)
    OBVIOUS
  <2>1. CASE UNCHANGED <<signers, last>> /\ Cursor' = Cursor
    BY <2>1, QuietRotation DEF Rot!rotationVars, Waiting, Passed
  <2>2. ASSUME NEW g \in Goroutines, Pick(g)
        PROVE  Rot!RotationNext
    BY <2>2, PickTakesTurn DEF Rot!RotationNext
  <2>3. ASSUME NEW g \in Goroutines, NEW s \in Signers, AppendSigner(g, s)
        PROVE  Rot!RotationNext
    BY <2>3, AppendJoins DEF Rot!RotationNext
  <2>4. CASE UNCHANGED vars
    BY <2>1, <2>4 DEF vars, historyVars, Cursor, At
  <2> QED
    BY <2>1, <2>2, <2>3, <2>4, OthersStutter DEF Next, Step
<1> QED
  BY <1>1, <1>2, RoundRobinInvariant, PTL DEF Spec, ImplementsRotation, Rot!RotationSpec
=============================================================================
