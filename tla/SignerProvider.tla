--------------------------- MODULE SignerProvider ---------------------------
(***************************************************************************)
(* RoundRobinSignerProvider (rotator.go) under concurrent goroutines, with  *)
(* its RWMutex and every access to its fields a step of its own, and the    *)
(* way HandleOps and HandleAtomicOps (client.go) use it: Count first, then  *)
(* Next, with the lock released in between.                                 *)
(***************************************************************************)
EXTENDS Integers, Sequences

CONSTANTS
  Goroutines,  (* the goroutines that share the provider                   *)
  Signers,     (* executor keys                                            *)
  Initials,    (* the key lists NewRoundRobinSignerProvider may be given   *)
  MaxOps,      (* bound: operations started over a behaviour               *)
  Nil          (* a nil key; no goroutine                                  *)

ASSUME ProviderAssumption ==
  /\ Nil \notin Signers \cup Goroutines
  /\ Initials \subseteq Seq(Signers)
  /\ MaxOps \in Nat

VARIABLES
  signers,   \* p.signers
  index,     \* p.index
  writer,    \* the goroutine that holds p.mu for writing, or Nil
  readers,   \* the goroutines that hold p.mu for reading
  op,        \* op[g]: the operation goroutine g is in
  outcome,   \* outcome[g]: how g's last operation ended
  started,   \* number of operations started (bounds the model)
  \* History, read by no action:
  served,    \* served[i]: turns taken by the signer at position i
  round,     \* completed rounds
  since,     \* since[i]: the round in which position i joined
  last       \* the signer handed out last

historyVars == <<served, round, since, last>>
vars == <<signers, index, writer, readers, op, outcome, started, historyVars>>

Kinds == {"Next", "Add", "Count", "HandleOps"}

Quiet == [pc |-> "idle", kind |-> "none", current |-> 0]

Init ==
  /\ signers \in Initials
  /\ index = 0
  /\ writer = Nil
  /\ readers = {}
  /\ op = [g \in Goroutines |-> Quiet]
  /\ outcome = [g \in Goroutines |-> [kind |-> "none", how |-> "none"]]
  /\ started = 0
  /\ served = [i \in DOMAIN signers |-> 0]
  /\ round = 0
  /\ since = [i \in DOMAIN signers |-> 0]
  /\ last = Nil

At(g, pc) == op[g].pc = pc

Goto(g, pc) == op' = [op EXCEPT ![g].pc = pc]

Return(g, how) ==
  /\ op' = [op EXCEPT ![g] = Quiet]
  /\ outcome' = [outcome EXCEPT ![g] = [kind |-> op[g].kind, how |-> how]]

Start(g, kind) ==
  /\ At(g, "idle")
  /\ started < MaxOps
  /\ started' = started + 1
  /\ op' = [op EXCEPT ![g] =
       [pc |-> IF kind \in {"Next", "Add"} THEN "lock" ELSE "rlock",
        kind |-> kind, current |-> 0]]
  /\ UNCHANGED <<signers, index, writer, readers, outcome, historyVars>>

-----------------------------------------------------------------------------
(* Count, under the read lock.                                              *)

RLock(g) ==
  /\ At(g, "rlock")
  /\ writer = Nil
  /\ readers' = readers \cup {g}
  /\ Goto(g, "len")
  /\ UNCHANGED <<signers, index, writer, outcome, started, historyVars>>

\* Faulty variant: the callers go on to Next without testing Count.
NeverEmpty == FALSE

NoSigners == signers = <<>>

\* Count returns and unlocks.  HandleOps panics on zero, else calls Next.
ReadLen(g) ==
  /\ At(g, "len")
  /\ readers' = readers \ {g}
  /\ IF op[g].kind = "Count" THEN Return(g, "ok")
     ELSE IF NoSigners THEN Return(g, "panic")
     ELSE Goto(g, "lock") /\ UNCHANGED outcome
  /\ UNCHANGED <<signers, index, writer, started, historyVars>>

-----------------------------------------------------------------------------
(* Next and Add, under the write lock.                                      *)

\* Faulty variant: p.mu is not taken.
NoMutex == TRUE

LockIsFree == writer = Nil /\ readers = {}

Lock(g) ==
  /\ At(g, "lock")
  /\ LockIsFree
  /\ writer' = g
  /\ Goto(g, IF op[g].kind = "Add" THEN "append" ELSE "load")
  /\ UNCHANGED <<signers, index, readers, outcome, started, historyVars>>

\* Faulty variant: the early return leaves p.mu locked.
KeepLock(g) == UNCHANGED writer

Unlock(g) == writer' = Nil

NextOnEmpty(g) ==
  /\ At(g, "load")
  /\ signers = <<>>
  /\ Return(g, "nil")
  /\ Unlock(g)
  /\ UNCHANGED <<signers, index, readers, started, historyVars>>

Load(g) ==
  /\ At(g, "load")
  /\ signers # <<>>
  /\ op' = [op EXCEPT ![g].pc = "store", ![g].current = index]
  /\ UNCHANGED <<signers, index, writer, readers, outcome, started, historyVars>>

\* Faulty variant: the index runs past the last signer.
NoWrap(current) == current + 1

Successor(current) == (current + 1) % Len(signers)

Store(g) ==
  /\ At(g, "store")
  /\ index' = Successor(op[g].current)
  /\ Goto(g, "pick")
  /\ UNCHANGED <<signers, writer, readers, outcome, started, historyVars>>

\* return p.signers[current]
Pick(g) ==
  /\ At(g, "pick")
  /\ last' = signers[op[g].current + 1]
  /\ served' = [served EXCEPT ![op[g].current + 1] = @ + 1]
  /\ round' = IF index = 0 THEN round + 1 ELSE round
  /\ Return(g, "signer")
  /\ Unlock(g)
  /\ UNCHANGED <<signers, index, readers, started, since>>

\* Faulty variant: the new signer is put in front.
Prepended(s) == <<s>> \o signers

Appended(s) == Append(signers, s)

AppendSigner(g, s) ==
  /\ At(g, "append")
  /\ signers' = Appended(s)
  /\ served' = Append(served, 0)
  /\ since' = Append(since, round)
  /\ Return(g, "ok")
  /\ Unlock(g)
  /\ UNCHANGED <<index, readers, started, round, last>>

-----------------------------------------------------------------------------

Step(g) ==
  \/ RLock(g) \/ ReadLen(g) \/ Lock(g)
  \/ NextOnEmpty(g) \/ Load(g) \/ Store(g) \/ Pick(g)
  \/ \E s \in Signers : AppendSigner(g, s)

Next == \E g \in Goroutines : Step(g) \/ \E kind \in Kinds : Start(g, kind)

Spec == Init /\ [][Next]_vars

\* A running goroutine is scheduled, and a waiter for the mutex gets it: Go's
\* mutex hands over to the longest waiter after a millisecond of waiting.
Fairness == \A g \in Goroutines : WF_vars(Step(g)) /\ SF_vars(RLock(g) \/ Lock(g))

FairSpec == Spec /\ Fairness

-----------------------------------------------------------------------------
(* Properties.                                                              *)

InNext == {"load", "store", "pick"}

OpTypes == [pc : {"idle", "rlock", "len", "lock", "append"} \cup InNext,
            kind : Kinds \cup {"none"}, current : Nat]

OutcomeTypes == [kind : Kinds \cup {"none"},
                 how : {"none", "ok", "signer", "nil", "panic"}]

HoldsMutex(g) ==
  /\ At(g, "len") => g \in readers
  /\ op[g].pc \in InNext \cup {"append"} => writer = g
  /\ op[g].pc \in {"store", "pick"} => op[g].current < Len(signers)

\* Types, the discipline of p.mu, and the bounds that keep p.signers[current]
\* (rotator.go:43) from being out of range.
TypeOK ==
  /\ signers \in Seq(Signers)
  /\ index \in Nat
  /\ index < Len(signers) \/ index = 0
  /\ writer \in Goroutines \cup {Nil}
  /\ readers \subseteq Goroutines
  /\ op \in [Goroutines -> OpTypes]
  /\ outcome \in [Goroutines -> OutcomeTypes]
  /\ started \in 0 .. MaxOps
  /\ round \in Nat
  /\ served \in [1 .. Len(signers) -> Nat]
  /\ since \in [1 .. Len(signers) -> 0 .. round]
  /\ last \in Signers \cup {Nil}
  /\ \A g \in Goroutines : HoldsMutex(g)

\* The index as it was before the Next call that has stored but not returned.
Cursor ==
  IF writer # Nil /\ At(writer, "pick") THEN op[writer].current ELSE index

\* Turns are even: counted from the round in which each joined, no signer is
\* ever more than one turn ahead of another, whatever Adds come in between
\* (rotator_test.go:177-183 allows one, without Adds and sequentially).
EvenShare ==
  \A i, j \in DOMAIN signers :
    served[i] + since[i] <= served[j] + since[j] + 1

\* HandleOps never signs with a nil key: signers counted stay until Next
\* (client.go:212-217, rotator_test.go:129).
HandleOpsGetsSigner == \A g \in Goroutines : outcome[g] # [kind |-> "HandleOps", how |-> "nil"]

\* The provider implements the rotation its interface promises.
Rot == INSTANCE Rotation WITH
  waiting <- SubSeq(signers, Cursor + 1, Len(signers)),
  passed <- SubSeq(signers, 1, Cursor)

ImplementsRotation == Rot!RotationSpec

-----------------------------------------------------------------------------
(* The inductive invariant behind them.                                     *)

\* A Next call computes with the index nobody else moves meanwhile.
IndexIsCurrent ==
  \A g \in Goroutines :
    /\ At(g, "store") => op[g].current = index
    /\ At(g, "pick") => index = Successor(op[g].current)

\* What Count has counted is there when Next comes to it.
CountedStay ==
  \A g \in Goroutines :
    op[g].kind = "HandleOps" /\ op[g].pc \in {"lock", "load"} => signers # <<>>

\* The signers before the cursor are one turn ahead of those behind it.
TurnsByCursor ==
  \A i \in DOMAIN signers :
    served[i] + since[i] = IF i <= Cursor THEN round + 1 ELSE round

\* Under the mutex the index, the turns taken and the rounds belong together,
\* at every point of every Next (rotator.go:32-52): what the theorems rest on.
RoundRobin == IndexIsCurrent /\ CountedStay /\ TurnsByCursor

-----------------------------------------------------------------------------
(* Liveness.                                                                *)

\* Every operation returns: the mutex is released on every path, the early
\* return of Next on an empty provider included (rotator.go:36-40).
OperationsReturn == \A g \in Goroutines : ~At(g, "idle") ~> At(g, "idle")
=============================================================================
