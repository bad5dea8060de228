---------------------------- MODULE EventsProofs ----------------------------
(* Proofs about Events, for any of the 16 events, any logs on the chain and   *)
(* any buffer: what the callers of FilterX, WatchX and ParseX get.           *)
EXTENDS Events, SequenceTheorems, TLAPS

-----------------------------------------------------------------------------
(* The table of events.                                                     *)

LEMMA Elements ==
  /\ {<<>>[i] : i \in DOMAIN <<>>} = {}
  /\ \A a : {<<a>>[i] : i \in DOMAIN <<a>>} = {a}
  /\ \A a, b : {<<a, b>>[i] : i \in DOMAIN <<a, b>>} = {a, b}
  /\ \A a, b, c : {<<a, b, c>>[i] : i \in DOMAIN <<a, b, c>>} = {a, b, c}
OBVIOUS

\* Each event's rules are in the order of its topics, and its struct has a field
\* for each of its arguments (bindings/).
LEMMA Table ==
  ASSUME NEW b \in AllBindings
  PROVE  b.rules = b.abi.indexed /\ b.fields = Args(b.abi)
<1> USE Elements DEF Binding, Args, Abi, EntryPointABI, SimpleAccountABI, VerifyingPaymasterABI
<1>1. CASE b = AccountDeployed
  BY <1>1 DEF AccountDeployed
<1>2. CASE b = BeforeExecution
  BY <1>2 DEF BeforeExecution
<1>3. CASE b = Deposited
  BY <1>3 DEF Deposited
<1>4. CASE b = PostOpRevertReason
  BY <1>4 DEF PostOpRevertReason
<1>5. CASE b = SignatureAggregatorChanged
  BY <1>5 DEF SignatureAggregatorChanged
<1>6. CASE b = StakeLocked
  BY <1>6 DEF StakeLocked
<1>7. CASE b = StakeUnlocked
  BY <1>7 DEF StakeUnlocked
<1>8. CASE b = StakeWithdrawn
  BY <1>8 DEF StakeWithdrawn
<1>9. CASE b = UserOperationEvent
  BY <1>9 DEF UserOperationEvent
<1>10. CASE b = UserOperationPrefundTooLow
  BY <1>10 DEF UserOperationPrefundTooLow
<1>11. CASE b = UserOperationRevertReason
  BY <1>11 DEF UserOperationRevertReason
<1>12. CASE b = Withdrawn
  BY <1>12 DEF Withdrawn
<1>13. CASE b = Initialized
  BY <1>13 DEF Initialized
<1>14. CASE b = SimpleAccountInitialized
  BY <1>14 DEF SimpleAccountInitialized
<1>15. CASE b = Upgraded
  BY <1>15 DEF Upgraded
<1>16. CASE b = OwnershipTransferred
  BY <1>16 DEF OwnershipTransferred
<1> HIDE DEF Binding, Args, Abi, EntryPointABI, SimpleAccountABI, VerifyingPaymasterABI
<1> QED
  BY <1>1, <1>2, <1>3, <1>4, <1>5, <1>6, <1>7, <1>8,
     <1>9, <1>10, <1>11, <1>12, <1>13, <1>14, <1>15, <1>16 DEF AllBindings

-----------------------------------------------------------------------------
(* What matches a query, and what a log becomes.                            *)

\* What the model is given and does not change.
Given ==
  /\ use \in Uses /\ binding \in Bindings /\ rules \in RulesFor(binding)
  /\ chain \in SeqOf(LogsFor(binding), MaxLogs)

LEMMA Places ==
  ASSUME EventsAssumption, Given
  PROVE  /\ binding \in AllBindings
         /\ Len(chain) \in Nat /\ DOMAIN chain = 1 .. Len(chain) /\ DOMAIN chain \subseteq Nat
         /\ \A p \in DOMAIN chain : chain[p] \in LogsFor(binding)
<1>1. binding \in AllBindings
  BY DEF EventsAssumption, Given
<1>2. PICK n \in 0 .. MaxLogs : chain \in [1 .. n -> LogsFor(binding)]
  BY DEF Given, SeqOf
<1>3. n \in Nat
  BY DEF EventsAssumption
<1>4. chain \in Seq(LogsFor(binding))
  BY <1>2, <1>3
<1> QED
  BY <1>1, <1>4, LenProperties, ElementOfSeq

LEMMA LogFields ==
  ASSUME NEW b, NEW log \in LogsFor(b)
  PROVE  DOMAIN log.args = Args(b.abi)
<1>1. PICK from, event, decodes, a : log = Log(from, event, decodes, ArgsWith(b, a))
  BY DEF LogsFor
<1>2. log.args = ArgsWith(b, a)
  BY <1>1 DEF Log
<1> QED
  BY <1>2 DEF ArgsWith

\* The node's filter gives exactly what the caller asked for.
LEMMA MatchesAsked ==
  ASSUME EventsAssumption, Given, use # "parse", NEW log
  PROVE  Matches(log) <=> AskedFor(log)
<1>1. binding.rules = binding.abi.indexed
  BY Places, Table
<1>2. DOMAIN rules = {binding.abi.indexed[i] : i \in DOMAIN binding.abi.indexed}
  BY DEF Given, RulesFor, Indexed
<1>3. TopicsMatch(Query, Topics(binding, log))
        <=> \A i \in DOMAIN binding.abi.indexed :
              \/ rules[binding.abi.indexed[i]] = {}
              \/ log.args[binding.abi.indexed[i]] \in rules[binding.abi.indexed[i]]
  BY <1>1 DEF TopicsMatch, Query, Topics
<1>4. TopicsMatch(Query, Topics(binding, log))
        <=> \A a \in DOMAIN rules : rules[a] = {} \/ log.args[a] \in rules[a]
  BY <1>2, <1>3
<1> QED
  BY <1>4 DEF Matches, AskedFor

\* A log that decodes becomes an event with every argument in its field.
LEMMA EventOfLog ==
  ASSUME EventsAssumption, Given, NEW p \in DOMAIN chain
  PROVE  Event(p) = [raw |-> chain[p], fields |-> chain[p].args]
<1>1. binding.fields = DOMAIN chain[p].args
  BY Places, Table, LogFields
<1>2. chain[p].args = [f \in binding.fields |-> chain[p].args[f]]
  <2>1. chain[p].args = [f \in DOMAIN chain[p].args |-> chain[p].args[f]]
    BY Places DEF LogsFor, Log, ArgsWith
  <2> QED
    BY <1>1, <2>1
<1> QED
  BY <1>2 DEF Event, Unpacked

LEMMA UnpacksExpected ==
  ASSUME EventsAssumption, Given
  PROVE  /\ \A p \in Expected : CanUnpack(p)
         /\ \A p \in Bad : ~CanUnpack(p)
         /\ use = "parse" => \A p \in DOMAIN chain : CanUnpack(p) => p \in Expected
         /\ Expected \cap Bad = {} /\ Expected \cup Bad \subseteq DOMAIN chain
         /\ use # "parse" => {p \in DOMAIN chain : Matches(chain[p])} = Expected \cup Bad
<1>1. Args(binding.abi) \subseteq binding.fields
  BY Places, Table
<1>2. \A p \in Expected : CanUnpack(p)
  BY <1>1 DEF Expected, AskedFor, CanUnpack, Unpacks
<1>3. \A p \in Bad : ~CanUnpack(p)
  BY DEF Bad, CanUnpack, Unpacks
<1>4. use = "parse" => \A p \in DOMAIN chain : CanUnpack(p) => p \in Expected
  BY DEF Expected, AskedFor, CanUnpack, Unpacks
<1>5. use # "parse" => {p \in DOMAIN chain : Matches(chain[p])} = Expected \cup Bad
  BY MatchesAsked DEF Expected, Bad
<1> QED
  BY <1>2, <1>3, <1>4, <1>5 DEF Expected, Bad

-----------------------------------------------------------------------------
(* What was delivered.                                                      *)

\* Got, of events and a chain.
GotBy(events, line, places) ==
  \E at \in [DOMAIN events -> places] :
    /\ places = {at[i] : i \in DOMAIN events}
    /\ \A i, j \in DOMAIN events : i < j => at[i] < at[j]
    /\ \A i \in DOMAIN events :
         events[i] = [raw |-> line[at[i]], fields |-> line[at[i]].args]

LEMMA GotIs ==
  ASSUME NEW places
  PROVE  Got(places) <=> GotBy(delivered, chain, places)
BY DEF Got, GotBy

\* Nothing delivered is no place.
LEMMA GotNothing ==
  ASSUME NEW line
  PROVE  GotBy(<<>>, line, {})
<1> DEFINE at == [i \in DOMAIN <<>> |-> 0]
<1>1. DOMAIN <<>> = {}
  OBVIOUS
<1>2. at \in [DOMAIN <<>> -> {}] /\ {} = {at[i] : i \in DOMAIN <<>>}
  BY <1>1
<1> QED
  BY <1>1, <1>2 DEF GotBy

\* One more event, from further up the chain.
LEMMA GotOneMore ==
  ASSUME EventsAssumption, Given, delivered \in Seq({Event(p) : p \in DOMAIN chain}),
         NEW places \in SUBSET DOMAIN chain, Got(places),
         NEW p \in DOMAIN chain, \A q \in places : q < p,
         chain' = chain, delivered' = Append(delivered, Event(p))
  PROVE  GotBy(delivered', chain', places \cup {p})
<1> DEFINE n == Len(delivered)
<1>1. PICK at \in [DOMAIN delivered -> places] :
        /\ places = {at[i] : i \in DOMAIN delivered}
        /\ \A i, j \in DOMAIN delivered : i < j => at[i] < at[j]
        /\ \A i \in DOMAIN delivered :
             delivered[i] = [raw |-> chain[at[i]], fields |-> chain[at[i]].args]
  BY DEF Got
<1>2. n \in Nat /\ DOMAIN delivered = 1 .. n
  BY LenProperties
<1>3. /\ DOMAIN delivered' = 1 .. n + 1 /\ delivered'[n + 1] = Event(p)
      /\ \A i \in 1 .. n : delivered'[i] = delivered[i]
  BY <1>2
<1> DEFINE more == [i \in 1 .. n + 1 |-> IF i = n + 1 THEN p ELSE at[i]]
<1> HIDE DEF n
<1>4. more \in [1 .. n + 1 -> places \cup {p}] /\ more[n + 1] = p /\ \A i \in 1 .. n : more[i] = at[i]
  BY <1>1, <1>2
<1> HIDE DEF more
<1>5. places \cup {p} = {more[i] : i \in 1 .. n + 1}
  <2>1. 1 .. n + 1 = (1 .. n) \cup {n + 1}
    BY <1>2
  <2>2. {more[i] : i \in 1 .. n} = {at[i] : i \in 1 .. n}
    BY <1>4
  <2> QED
    BY <1>1, <1>2, <1>4, <2>1, <2>2
<1>6. \A i, j \in 1 .. n + 1 : i < j => more[i] < more[j]
  <2> SUFFICES ASSUME NEW i \in 1 .. n + 1, NEW j \in 1 .. n + 1, i < j
               PROVE  more[i] < more[j]
    OBVIOUS
  <2>1. i \in 1 .. n
    BY <1>2
  <2>2. CASE j = n + 1
    BY <1>1, <1>2, <1>4, <2>1, <2>2
  <2>3. CASE j \in 1 .. n
    BY <1>1, <1>2, <1>4, <2>1, <2>3
  <2> QED
    BY <1>2, <2>2, <2>3
<1>7. \A i \in 1 .. n + 1 :
        delivered'[i] = [raw |-> chain[more[i]], fields |-> chain[more[i]].args]
  <2>1. delivered'[n + 1] = [raw |-> chain[more[n + 1]], fields |-> chain[more[n + 1]].args]
    BY <1>3, <1>4, EventOfLog
  <2>2. \A i \in 1 .. n :
          delivered'[i] = [raw |-> chain[more[i]], fields |-> chain[more[i]].args]
    BY <1>1, <1>2, <1>3, <1>4
  <2> QED
    BY <1>2, <2>1, <2>2
<1>8. \E f \in [DOMAIN delivered' -> places \cup {p}] :
        /\ places \cup {p} = {f[i] : i \in DOMAIN delivered'}
        /\ \A i, j \in DOMAIN delivered' : i < j => f[i] < f[j]
        /\ \A i \in DOMAIN delivered' :
             delivered'[i] = [raw |-> chain'[f[i]], fields |-> chain'[f[i]].args]
  <2>1. chain' = chain
    OBVIOUS
  <2> QED
    BY ONLY <1>3, <1>4, <1>5, <1>6, <1>7, <2>1
<1> QED
  BY <1>8 DEF GotBy

-----------------------------------------------------------------------------
(* The steps.                                                               *)

LEMMA Cases ==
  ASSUME [Next]_vars
  PROVE  \/ Push \/ PushingEnds \/ NodeEnds \/ Open \/ Close \/ CallNext \/ Forward \/ Parse
         \/ NextFailed \/ NextTakes \/ NextFindsNothing \/ NextCompletes
         \/ WatchTakes \/ WatchFails \/ WatchQuits \/ UNCHANGED vars
BY DEF Next, NextStep, WatchStep

LEMMA CallStays ==
  ASSUME TypeOK, [Next]_vars
  PROVE  /\ UNCHANGED <<use, binding, rules, chain>> /\ Given /\ Given'
         /\ Expected' = Expected /\ Bad' = Bad
<1>1. UNCHANGED <<use, binding, rules, chain>>
  BY Cases DEF callVars, Push, PushingEnds, NodeEnds, Open, Close, CallNext, Forward, Parse,
     NextFailed, NextTakes, NextFindsNothing, NextCompletes, WatchTakes, WatchFails, WatchQuits, vars
<1>2. Given
  BY DEF TypeOK, Given
<1>3. Given'
  BY <1>1, <1>2 DEF Given
<1>4. Expected' = Expected /\ Bad' = Bad
  BY <1>1 DEF Expected, Bad, AskedFor
<1> QED
  BY <1>1, <1>2, <1>3, <1>4

\* Where each use of the bindings can be.
LEMMA Where ==
  ASSUME TypeOK
  PROVE  /\ pc \in {"idle", "next"} => use = "filter"
         /\ pc \in {"select", "forward", "ended"} => use = "watch"
         /\ use = "parse" => pc = "start"
BY DEF TypeOK, Uses

\* The first log of the channel, and the others.
LEMMA FirstLog ==
  ASSUME TypeOK, logs # <<>>
  PROVE  /\ Head(logs) = logs[1] /\ 1 \in DOMAIN logs /\ Head(logs) \in DOMAIN chain
         /\ Tail(logs) \in Seq(DOMAIN chain) /\ Len(Tail(logs)) = Len(logs) - 1
         /\ DOMAIN Tail(logs) = 1 .. Len(logs) - 1 /\ DOMAIN logs = 1 .. Len(logs)
         /\ \A i \in 1 .. Len(logs) - 1 : Tail(logs)[i] = logs[i + 1]
<1>1. logs \in Seq(DOMAIN chain) /\ Len(logs) \in Nat \ {0}
  BY EmptySeq DEF TypeOK
<1>2. Tail(logs) \in Seq(DOMAIN chain) /\ Len(Tail(logs)) = Len(logs) - 1
      /\ \A i \in 1 .. Len(Tail(logs)) : Tail(logs)[i] = logs[i + 1]
  BY <1>1, HeadTailProperties
<1>3. DOMAIN Tail(logs) = 1 .. Len(Tail(logs)) /\ DOMAIN logs = 1 .. Len(logs)
  BY <1>1, <1>2, LenProperties
<1>4. Head(logs) = logs[1] /\ 1 \in DOMAIN logs /\ Head(logs) \in DOMAIN chain
  BY <1>1, <1>3, HeadTailProperties
<1> QED
  BY <1>2, <1>3, <1>4

LEMMA TypeStep ==
  ASSUME EventsAssumption, TypeOK, [Next]_vars
  PROVE  TypeOK'
<1>1. UNCHANGED <<use, binding, rules, chain>> /\ Given'
  BY CallStays
<1>2. /\ pushing' \subseteq DOMAIN chain
      /\ err' \in {"open", "failure", "closed"} /\ fail' \in {"none", "unpack", "node"}
      /\ quit' \in BOOLEAN /\ asked' \in BOOLEAN /\ done' \in BOOLEAN
      /\ answer' \in {"none", "true", "false"}
  BY Cases DEF TypeOK, subVars, codeVars, Push, PushingEnds, NodeEnds, Open, Close, CallNext,
     Forward, Parse, NextFailed, NextTakes, NextFindsNothing, NextCompletes, WatchTakes,
     WatchFails, WatchQuits, vars, Comes, Unsubscribe, Return, End, Released
<1>3. logs' \in Seq(DOMAIN chain) /\ Len(logs') <= Buffer
  <2>1. logs \in Seq(DOMAIN chain) /\ Len(logs) \in Nat /\ Len(logs) <= Buffer /\ Buffer \in Nat
    BY LenProperties DEF TypeOK, EventsAssumption
  <2>2. CASE Push
    BY <2>1, <2>2 DEF Push, TypeOK
  <2>3. CASE NextTakes \/ WatchTakes
    BY <2>1, <2>3, FirstLog DEF NextTakes, WatchTakes
  <2>4. CASE ~Push /\ ~NextTakes /\ ~WatchTakes
    <3>1. logs' = logs
      BY <2>4, Cases DEF subVars, PushingEnds, NodeEnds, Open, Close, CallNext,
         Forward, Parse, NextFailed, NextFindsNothing, NextCompletes,
         WatchFails, WatchQuits, vars
    <3> QED
      BY <2>1, <3>1
  <2> QED
    BY <2>2, <2>3, <2>4
<1>4. /\ use = "filter" => pc' \in {"start", "failed", "idle", "next"}
      /\ use = "watch" => pc' \in {"start", "failed", "select", "forward", "ended"}
      /\ use = "parse" => pc' = "start"
      /\ pc' = "ended" => err' = "closed"
  <2>1. /\ use = "filter" => pc \in {"start", "failed", "idle", "next"}
        /\ use = "watch" => pc \in {"start", "failed", "select", "forward", "ended"}
        /\ use = "parse" => pc = "start"
        /\ pc = "ended" => err = "closed"
        /\ use \in {"filter", "watch", "parse"}
    BY DEF TypeOK, Uses
  <2>2. CASE WatchTakes \/ WatchFails \/ WatchQuits
    BY <2>1, <2>2 DEF WatchTakes, WatchFails, WatchQuits, End, Released, HeedsQuit
  <2>3. CASE NextFailed \/ NextTakes \/ NextFindsNothing \/ CallNext \/ Forward
    BY <2>1, <2>3 DEF NextFailed, NextTakes, NextFindsNothing, CallNext, Forward, Return
  <2>4. CASE Open
    BY <2>1, <2>4 DEF Open
  <2>5. CASE Push \/ PushingEnds \/ NodeEnds \/ Close \/ Parse \/ NextCompletes \/ UNCHANGED vars
    BY <2>1, <2>5 DEF subVars, codeVars, Push, PushingEnds, NodeEnds, Close, Parse, NextCompletes, vars
  <2> QED
    BY <2>2, <2>3, <2>4, <2>5, Cases
<1>5. IF pc' = "forward" THEN held' \in DOMAIN chain ELSE held' = 0
  <2>1. IF pc = "forward" THEN held \in DOMAIN chain ELSE held = 0
    BY DEF TypeOK
  <2>2. CASE WatchTakes
    BY <2>1, <2>2, FirstLog DEF WatchTakes, End
  <2>3. CASE Forward \/ WatchFails \/ WatchQuits
    BY <2>3 DEF Forward, WatchFails, WatchQuits, End
  <2>4. CASE NextFailed \/ NextTakes \/ NextFindsNothing \/ CallNext \/ Open
    BY <2>1, <2>4 DEF NextFailed, NextTakes, NextFindsNothing, CallNext, Open, Return
  <2>5. CASE Push \/ PushingEnds \/ NodeEnds \/ Close \/ Parse \/ NextCompletes \/ UNCHANGED vars
    BY <2>1, <2>5 DEF codeVars, Push, PushingEnds, NodeEnds, Close, Parse, NextCompletes, vars
  <2> QED
    BY <2>2, <2>3, <2>4, <2>5, Cases
<1>6. delivered' \in Seq({Event(p) : p \in DOMAIN chain})
  <2>1. CASE NextTakes
    <3>1. Head(logs) \in DOMAIN chain /\ (delivered' = delivered \/ delivered' = Append(delivered, Event(Head(logs))))
      BY <2>1, FirstLog DEF NextTakes
    <3> QED
      BY <3>1 DEF TypeOK
  <2>2. CASE Forward
    BY <2>2 DEF Forward, TypeOK
  <2>3. CASE Parse
    BY <2>3 DEF Parse, TypeOK
  <2>4. CASE ~NextTakes /\ ~Forward /\ ~Parse
    <3>1. delivered' = delivered
      BY <2>4, Cases DEF codeVars, Push, PushingEnds, NodeEnds, Open, Close, CallNext,
         NextFailed, NextFindsNothing, NextCompletes, WatchTakes, WatchFails, WatchQuits, vars
    <3> QED
      BY <3>1 DEF TypeOK
  <2> QED
    BY <2>1, <2>2, <2>3, <2>4
<1>7. \A p : Event(p)' = Event(p)
  BY <1>1 DEF Event, Unpacked
<1> QED
  BY <1>1, <1>2, <1>3, <1>4, <1>5, <1>6, <1>7 DEF TypeOK, Given

-----------------------------------------------------------------------------
(* What is still to come.                                                   *)

InLogs == {logs[i] : i \in DOMAIN logs}

LEMMA PushedLogs ==
  ASSUME TypeOK, NEW p \in DOMAIN chain, logs' = Append(logs, p)
  PROVE  /\ InLogs' = InLogs \cup {p}
         /\ DOMAIN logs' = 1 .. Len(logs) + 1 /\ DOMAIN logs = 1 .. Len(logs) /\ Len(logs) \in Nat
         /\ logs'[Len(logs) + 1] = p /\ \A i \in DOMAIN logs : logs'[i] = logs[i]
<1>1. DOMAIN logs = 1 .. Len(logs) /\ Len(logs) \in Nat
  BY LenProperties DEF TypeOK
<1>2. /\ DOMAIN logs' = 1 .. Len(logs) + 1
      /\ logs'[Len(logs) + 1] = p /\ \A i \in DOMAIN logs : logs'[i] = logs[i]
  BY <1>1 DEF TypeOK
<1>3. DOMAIN logs' = DOMAIN logs \cup {Len(logs) + 1}
  BY <1>1, <1>2
<1>4. InLogs' = InLogs \cup {p}
  BY <1>2, <1>3 DEF InLogs
<1> QED
  BY <1>1, <1>2, <1>4

LEMMA TakenLogs ==
  ASSUME EventsAssumption, TypeOK, InOrder, logs # <<>>, logs' = Tail(logs)
  PROVE  /\ InLogs' = InLogs \ {Head(logs)} /\ Head(logs) \in InLogs
         /\ \A p \in InLogs' : Head(logs) < p
         /\ \A i, j \in DOMAIN logs' : i < j => logs'[i] < logs'[j]
<1>1. /\ Head(logs) = logs[1] /\ 1 \in DOMAIN logs /\ DOMAIN logs = 1 .. Len(logs)
      /\ DOMAIN logs' = 1 .. Len(logs) - 1 /\ \A i \in DOMAIN logs' : logs'[i] = logs[i + 1]
  BY FirstLog
<1>2. Len(logs) \in Nat /\ DOMAIN chain \subseteq Nat /\ \A i \in DOMAIN logs : logs[i] \in DOMAIN chain
  BY Places, LenProperties, ElementOfSeq DEF TypeOK, Given
<1>3. \A i \in DOMAIN logs' : i + 1 \in DOMAIN logs /\ i + 1 > 1 /\ i \in Nat
  BY <1>1, <1>2
<1>4. ASSUME NEW i \in DOMAIN logs'
      PROVE  Head(logs) < logs'[i]
  BY <1>1, <1>3 DEF InOrder
<1>5. \A p \in InLogs' : Head(logs) < p
  BY <1>4 DEF InLogs
<1>6. Head(logs) \notin InLogs'
  BY <1>1, <1>2, <1>5
<1>7. InLogs' \subseteq InLogs
  BY <1>1, <1>3 DEF InLogs
<1>8. ASSUME NEW p \in InLogs, p # Head(logs)
      PROVE  p \in InLogs'
  <2>1. PICK i \in DOMAIN logs : p = logs[i]
    BY DEF InLogs
  <2>2. i # 1
    BY <1>1, <1>8, <2>1
  <2>3. i - 1 \in DOMAIN logs' /\ i - 1 + 1 = i
    BY <1>1, <1>2, <2>2
  <2>4. logs'[i - 1] = p
    BY <1>1, <2>1, <2>3
  <2> QED
    BY <2>3, <2>4 DEF InLogs
<1>9. ASSUME NEW i \in DOMAIN logs', NEW j \in DOMAIN logs', i < j
      PROVE  logs'[i] < logs'[j]
  <2>1. i + 1 \in DOMAIN logs /\ j + 1 \in DOMAIN logs /\ i + 1 < j + 1
    BY <1>3, <1>9
  <2> QED
    BY <1>1, <2>1 DEF InOrder
<1> QED
  BY <1>1, <1>5, <1>6, <1>7, <1>8, <1>9 DEF InLogs

LEMMA Parts ==
  /\ Remaining = pushing \cup InLogs \cup (IF pc = "forward" THEN {held} ELSE {})
  /\ Remaining' = pushing' \cup InLogs' \cup (IF pc' = "forward" THEN {held'} ELSE {})
BY DEF Remaining, InLogs

\* What waits is on the chain.
LEMMA RemainingPlaces ==
  ASSUME EventsAssumption, TypeOK
  PROVE  Remaining \subseteq DOMAIN chain /\ DOMAIN chain \subseteq Nat
<1>1. InLogs \subseteq DOMAIN chain
  BY LenProperties, ElementOfSeq DEF TypeOK, InLogs
<1> QED
  BY <1>1, Parts, Places DEF TypeOK, Given

LEMMA InOrderStep ==
  ASSUME EventsAssumption, TypeOK, InOrder, NothingIsLost, [Next]_vars
  PROVE  InOrder'
<1> DEFINE Increasing(l) == \A i, j \in DOMAIN l : i < j => l[i] < l[j]
<1>1. /\ Increasing(logs) /\ \A q \in InLogs : \A p \in pushing : q < p
      /\ pc = "forward" => held \in Expected /\ \A p \in pushing \cup InLogs : held < p
      /\ Expected' = Expected
  BY CallStays DEF InOrder, InLogs
<1>2. ASSUME Increasing(logs'), \A q \in InLogs' : \A p \in pushing' : q < p,
             pc' = "forward" => held' \in Expected /\ \A p \in pushing' \cup InLogs' : held' < p
      PROVE  InOrder'
  BY <1>1, <1>2 DEF InOrder, InLogs
<1>3. DOMAIN chain \subseteq Nat /\ Remaining \subseteq DOMAIN chain
  BY RemainingPlaces
<1>4. CASE Push
  <2>1. PICK p \in pushing : Comes(p) /\ logs' = Append(logs, p)
    BY <1>4 DEF Push
  <2>2. p \in DOMAIN chain /\ UNCHANGED <<pc, held>>
    BY <1>4 DEF Push, codeVars, TypeOK
  <2>3. /\ InLogs' = InLogs \cup {p} /\ pushing' = pushing \ {p}
        /\ DOMAIN logs' = 1 .. Len(logs) + 1 /\ DOMAIN logs = 1 .. Len(logs) /\ Len(logs) \in Nat
        /\ logs'[Len(logs) + 1] = p /\ \A i \in DOMAIN logs : logs'[i] = logs[i]
    BY <2>1, <2>2, PushedLogs DEF Comes
  <2>4. ASSUME NEW i \in DOMAIN logs', NEW j \in DOMAIN logs', i < j
        PROVE  logs'[i] < logs'[j]
    <3>1. i \in DOMAIN logs /\ (j \in DOMAIN logs \/ j = Len(logs) + 1)
      BY <2>3, <2>4
    <3>2. CASE j \in DOMAIN logs
      BY <1>1, <2>3, <2>4, <3>1, <3>2
    <3>3. CASE j = Len(logs) + 1
      BY <1>1, <2>3, <3>1, <3>3 DEF InLogs
    <3> QED
      BY <3>1, <3>2, <3>3
  <2>5. \A q \in pushing' : p < q
    <3>1. pushing \subseteq Nat
      BY <1>3, Parts
    <3> QED
      BY <2>1, <2>3, <3>1 DEF Comes
  <2> QED
    BY <1>1, <1>2, <2>2, <2>3, <2>4, <2>5
<1>5. CASE NextTakes \/ WatchTakes
  <2>1. /\ logs # <<>> /\ logs' = Tail(logs) /\ UNCHANGED pushing
        /\ pc # "forward" /\ (pc' = "forward" => held' = Head(logs) /\ CanUnpack(held') /\ pc = "select")
    BY <1>5 DEF NextTakes, WatchTakes, Return, End
  <2>2. /\ InLogs' = InLogs \ {Head(logs)} /\ Head(logs) \in InLogs
        /\ Increasing(logs') /\ \A p \in InLogs' : Head(logs) < p
    BY <2>1, TakenLogs
  <2>3. pc' = "forward" => held' \in Expected
    <3>1. pc = "select" => Head(logs) \in Expected \cup Bad
      BY <2>2, Parts, Where DEF NothingIsLost
    <3> QED
      BY <2>1, <3>1, CallStays, UnpacksExpected
  <2> QED
    BY <1>1, <1>2, <2>1, <2>2, <2>3
<1>6. CASE Parse
  <2>1. UNCHANGED <<logs, pc, held>> /\ pushing' \subseteq pushing
    BY <1>6 DEF Parse, Comes
  <2> QED
    BY <1>1, <1>2, <2>1 DEF InLogs
<1>7. CASE Open
  <2>1. pc = "start" /\ use # "parse" /\ pc' # "forward" /\ UNCHANGED logs
    BY <1>7 DEF Open
  <2>2. Remaining = {}
    BY <2>1 DEF NothingIsLost
  <2>3. InLogs = {} /\ InLogs' = InLogs
    BY <2>1, <2>2, Parts DEF InLogs
  <2> QED
    BY <1>1, <1>2, <2>1, <2>3
<1>8. CASE PushingEnds \/ NodeEnds \/ Close \/ CallNext \/ Forward \/ NextFailed \/ NextFindsNothing
           \/ NextCompletes \/ WatchFails \/ WatchQuits \/ UNCHANGED vars
  <2>1. UNCHANGED <<logs, pushing>> /\ (pc' = "forward" => pc = "forward" /\ held' = held)
    BY <1>8 DEF PushingEnds, NodeEnds, Close, CallNext, Forward, NextFailed, NextFindsNothing,
       NextCompletes, WatchFails, WatchQuits, vars, subVars, codeVars, Return, End
  <2> QED
    BY <1>1, <1>2, <2>1 DEF InLogs
<1> QED
  BY <1>4, <1>5, <1>6, <1>7, <1>8, Cases

LEMMA EndsStep ==
  ASSUME TypeOK, EndsAfterLast, [Next]_vars
  PROVE  EndsAfterLast'
<1>1. use' = use
  BY CallStays
<1>2. quit' => asked'
  BY Cases DEF EndsAfterLast, subVars, codeVars, Push, PushingEnds, NodeEnds, Open, Close, CallNext,
     Forward, Parse, NextFailed, NextTakes, NextFindsNothing, NextCompletes, WatchTakes,
     WatchFails, WatchQuits, vars, Unsubscribe
<1>3. pc' \notin {"idle", "next", "ended"} => fail' = "none"
  BY Cases DEF EndsAfterLast, subVars, codeVars, Push, PushingEnds, NodeEnds, Open, Close, CallNext,
     Forward, Parse, NextFailed, NextTakes, NextFindsNothing, NextCompletes, WatchTakes,
     WatchFails, WatchQuits, vars, Return, End
<1>4. ASSUME use = "filter"
      PROVE  /\ err' # "failure"
             /\ pc' \in {"idle", "next"} /\ err' = "closed" /\ ~asked' => pushing' = {}
             /\ done' => err' = "closed" /\ pc' \in {"idle", "next"}
             /\ answer' = "false" /\ fail' = "none" => done' /\ logs' = <<>>
  <2>1. /\ err # "failure" /\ pc \in {"start", "failed", "idle", "next"} /\ (quit => asked)
        /\ pc \in {"idle", "next"} /\ err = "closed" /\ ~asked => pushing = {}
        /\ done => err = "closed" /\ pc \in {"idle", "next"}
        /\ answer = "false" /\ fail = "none" => done /\ logs = <<>>
        /\ err \in {"open", "closed"}
    BY <1>4 DEF EndsAfterLast, TypeOK
  <2>2. CASE Push \/ PushingEnds \/ Close
    BY <2>1, <2>2 DEF Push, PushingEnds, Close, codeVars
  <2>3. CASE Open
    BY <2>1, <2>3 DEF Open
  <2>4. CASE CallNext \/ NextFailed \/ NextTakes \/ NextFindsNothing \/ NextCompletes
    BY <2>1, <2>4 DEF CallNext, NextFailed, NextTakes, NextFindsNothing, NextCompletes, subVars,
       Return, Failed, NothingLeft
  <2>5. ~NodeEnds /\ ~Forward /\ ~Parse /\ ~WatchTakes /\ ~WatchFails /\ ~WatchQuits
    BY <1>4, <2>1 DEF NodeEnds, Forward, Parse, WatchTakes, WatchFails, WatchQuits, HeedsQuit
  <2>6. CASE UNCHANGED vars
    BY <2>1, <2>6 DEF vars, subVars, codeVars
  <2> QED
    BY <2>2, <2>3, <2>4, <2>5, <2>6, Cases
<1>5. ASSUME use = "parse"
      PROVE  err' = "closed" /\ logs' = <<>>
  <2>1. err = "closed" /\ logs = <<>> /\ pc = "start"
    BY <1>5, Where DEF EndsAfterLast
  <2> QED
    BY <1>5, <2>1, Cases DEF subVars, codeVars, Push, PushingEnds, NodeEnds, Open, Close, CallNext,
       Forward, Parse, NextFailed, NextTakes, NextFindsNothing, NextCompletes, WatchTakes,
       WatchFails, WatchQuits, HeedsQuit, vars
<1> QED
  BY <1>1, <1>2, <1>3, <1>4, <1>5 DEF EndsAfterLast

-----------------------------------------------------------------------------
(* What the steps do to what is to come and to what was delivered.           *)

\* p is the next log that comes to the caller.
Least(p) == p \in Remaining /\ \A q \in Remaining : q # p => p < q

\* Nothing comes, and nothing stops.
Still ==
  /\ Remaining' = Remaining /\ delivered' = delivered /\ (Running' => Running)
  /\ pc' = "start" => pc = "start"
  /\ use = "filter" /\ fail' # "none" => fail # "none"

\* The least comes to the caller, as an event if it can.
Takes(p) ==
  /\ Running /\ Least(p) /\ Remaining' = Remaining \ {p}
  /\ delivered' = IF CanUnpack(p) THEN Append(delivered, Event(p)) ELSE delivered
  /\ use # "parse" => pc' # "start"
  /\ use # "parse" /\ ~CanUnpack(p) => ~Running'
  /\ use = "filter" /\ fail' # "none" => ~CanUnpack(p)

\* The watching goroutine ends, or the query fails.
Stops ==
  /\ Remaining' \subseteq Remaining /\ delivered' = delivered /\ ~Running' /\ use # "parse"
  /\ pc' # "start" /\ (use = "filter" => fail' = "none")

Opens ==
  /\ use # "parse" /\ pc = "start" /\ pc' # "start" /\ fail' = fail
  /\ Remaining' = {p \in DOMAIN chain : Matches(chain[p])} /\ delivered' = delivered

LEMMA HeadIsLeast ==
  ASSUME EventsAssumption, TypeOK, InOrder, logs # <<>>, pc # "forward"
  PROVE  Least(Head(logs))
<1>1. Head(logs) = logs[1] /\ 1 \in DOMAIN logs /\ DOMAIN logs = 1 .. Len(logs) /\ Len(logs) \in Nat
  BY FirstLog, LenProperties DEF TypeOK
<1>2. Remaining = pushing \cup InLogs
  BY Parts
<1>3. \A q \in pushing : Head(logs) < q
  BY <1>1 DEF InOrder
<1>4. ASSUME NEW q \in InLogs, q # Head(logs)
      PROVE  Head(logs) < q
  <2>1. PICK i \in DOMAIN logs : q = logs[i]
    BY DEF InLogs
  <2>2. 1 < i
    BY <1>1, <1>4, <2>1
  <2> QED
    BY <1>1, <2>1, <2>2 DEF InOrder
<1> QED
  BY <1>1, <1>2, <1>3, <1>4 DEF Least, InLogs

LEMMA Progress ==
  ASSUME EventsAssumption, TypeOK, TypeOK', InOrder, NothingIsLost, EndsAfterLast, [Next]_vars
  PROVE  Still \/ Stops \/ Opens \/ \E p \in DOMAIN chain : Takes(p)
<1>1. /\ Remaining = pushing \cup InLogs \cup (IF pc = "forward" THEN {held} ELSE {})
      /\ Remaining' = pushing' \cup InLogs' \cup (IF pc' = "forward" THEN {held'} ELSE {})
      /\ (logs' = logs => InLogs' = InLogs) /\ use' = use
  BY Parts, CallStays DEF InLogs
<1>2. Remaining \subseteq DOMAIN chain /\ DOMAIN chain \subseteq Nat
  BY RemainingPlaces
<1>3. CASE Push
  <2>1. PICK p \in pushing : Comes(p) /\ logs' = Append(logs, p)
    BY <1>3 DEF Push
  <2>2. UNCHANGED <<pc, fail, held, delivered>>
    BY <1>3 DEF Push, codeVars
  <2>3. p \in DOMAIN chain
    BY DEF TypeOK
  <2>4. InLogs' = InLogs \cup {p} /\ pushing' = pushing \ {p}
    BY <2>1, <2>3, PushedLogs DEF Comes
  <2>5. Remaining' = Remaining
    BY <1>1, <2>1, <2>2, <2>4
  <2> QED
    BY <1>1, <2>2, <2>5 DEF Still, Running
<1>4. CASE PushingEnds \/ NodeEnds \/ Close \/ UNCHANGED vars
  <2>1. UNCHANGED <<pushing, logs, pc, fail, held, delivered>>
    BY <1>4 DEF PushingEnds, NodeEnds, Close, vars, subVars, codeVars
  <2> QED
    BY <1>1, <2>1 DEF Still, Running
<1>5. CASE CallNext \/ NextFailed \/ NextFindsNothing \/ NextCompletes
  <2>1. /\ UNCHANGED <<pushing, logs, held, delivered>> /\ pc \in {"idle", "next"}
        /\ pc' \in {"idle", "next"} /\ (fail' = fail \/ (fail' = "none" /\ ~Failed))
    <3>1. use = "filter" /\ err # "failure"
      <4>1. pc \in {"idle", "next"}
        BY <1>5 DEF CallNext, NextFailed, NextFindsNothing, NextCompletes
      <4> QED
        BY <4>1, Where DEF EndsAfterLast
    <3> QED
      BY <1>5, <3>1 DEF CallNext, NextFailed, NextFindsNothing, NextCompletes, subVars, Return
  <2> QED
    BY <1>1, <2>1 DEF Still, Running, Failed
<1>6. CASE Open
  <2>1. pc = "start" /\ use # "parse" /\ UNCHANGED <<logs, fail, held, delivered>>
    BY <1>6 DEF Open
  <2>2. Remaining = {} /\ InLogs = {} /\ InLogs' = {}
    BY <1>1, <2>1 DEF NothingIsLost
  <2>3. CASE pc' = "failed" /\ UNCHANGED pushing
    <3>1. Remaining' = {} /\ ~Running'
      BY <1>1, <2>1, <2>2, <2>3 DEF Running
    <3>2. fail' = "none"
      BY <2>1 DEF EndsAfterLast
    <3> QED
      BY <2>1, <2>3, <3>1, <3>2 DEF Stops
  <2>4. CASE /\ pc' = IF use = "filter" THEN "idle" ELSE "select"
             /\ pushing' = {p \in DOMAIN chain : Matches(chain[p])}
    BY <1>1, <2>1, <2>2, <2>4 DEF Opens
  <2> QED
    BY <1>6, <2>3, <2>4 DEF Open
<1>7. CASE NextTakes
  <2>1. /\ pc = "next" /\ pc' = "idle" /\ fail = "none" /\ logs # <<>> /\ logs' = Tail(logs)
        /\ UNCHANGED <<pushing, held>>
        /\ delivered' = IF CanUnpack(Head(logs)) THEN Append(delivered, Event(Head(logs))) ELSE delivered
        /\ fail' = IF CanUnpack(Head(logs)) THEN "none" ELSE "unpack"
    BY <1>7 DEF NextTakes, Return, Failed
  <2>2. InLogs' = InLogs \ {Head(logs)} /\ Head(logs) \in InLogs /\ Least(Head(logs))
    BY <2>1, TakenLogs, HeadIsLeast
  <2>3. Head(logs) \notin pushing
    BY <1>2, <2>2, FirstLog, <2>1 DEF InOrder
  <2>4. Remaining' = Remaining \ {Head(logs)}
    BY <1>1, <2>1, <2>2, <2>3
  <2>5. Head(logs) \in DOMAIN chain
    BY <1>2, <2>2 DEF Least
  <2>6. use = "filter"
    BY <2>1, Where
  <2> QED
    BY <1>1, <2>1, <2>2, <2>4, <2>5, <2>6 DEF Takes, Running
<1>8. CASE WatchTakes
  <2>1. /\ pc = "select" /\ logs # <<>> /\ logs' = Tail(logs) /\ UNCHANGED <<pushing, delivered>>
        /\ \/ pc' = "forward" /\ held' = Head(logs) /\ UNCHANGED fail
           \/ pc' = "ended"
    BY <1>8 DEF WatchTakes, End
  <2>2. InLogs' = InLogs \ {Head(logs)} /\ Head(logs) \in InLogs
    BY <2>1, TakenLogs
  <2>3. use = "watch"
    BY <2>1, Where
  <2>4. CASE pc' = "forward" /\ held' = Head(logs) /\ UNCHANGED fail
    BY <1>1, <2>1, <2>2, <2>3, <2>4 DEF Still, Running
  <2>5. CASE pc' = "ended"
    BY <1>1, <2>1, <2>2, <2>3, <2>5 DEF Stops, Running
  <2> QED
    BY <2>1, <2>4, <2>5
<1>9. CASE Forward
  <2>1. /\ pc = "forward" /\ pc' = "select" /\ UNCHANGED <<pushing, logs, fail>>
        /\ delivered' = Append(delivered, Event(held))
    BY <1>9 DEF Forward, subVars
  <2>2. use = "watch" /\ held \in DOMAIN chain /\ fail = "none"
    BY <2>1, Where DEF TypeOK, EndsAfterLast
  <2>3. \A p \in pushing \cup InLogs : held < p
    BY <2>1 DEF InOrder, InLogs
  <2>4. held \notin pushing \cup InLogs /\ Least(held)
    BY <1>1, <1>2, <2>1, <2>2, <2>3 DEF Least
  <2>5. Remaining' = Remaining \ {held}
    BY <1>1, <2>1, <2>4
  <2>6. Running /\ Running'
    BY <2>1, <2>2 DEF Running
  <2>7. CanUnpack(held)
    BY <2>1, CallStays, UnpacksExpected DEF InOrder
  <2>8. Takes(held)
    BY <1>1, <2>1, <2>2, <2>4, <2>5, <2>6, <2>7 DEF Takes
  <2> QED
    BY <2>2, <2>8
<1>10. CASE Parse
  <2>1. PICK p \in pushing :
          /\ Comes(p)
          /\ delivered' = IF CanUnpack(p) THEN Append(delivered, Event(p)) ELSE delivered
    BY <1>10 DEF Parse
  <2>2. use = "parse" /\ pc = "start" /\ UNCHANGED <<logs, pc, fail, held>>
    BY <1>10, Where DEF Parse
  <2>3. InLogs = {} /\ pushing' = pushing \ {p} /\ p \in DOMAIN chain
    BY <2>1, <2>2 DEF EndsAfterLast, InLogs, Comes, TypeOK
  <2>4. Remaining = pushing /\ Remaining' = pushing \ {p}
    BY <1>1, <2>2, <2>3
  <2>5. Least(p)
    BY <1>2, <2>1, <2>4 DEF Least, Comes
  <2>6. Takes(p)
    BY <2>1, <2>2, <2>4, <2>5 DEF Takes, Running
  <2> QED
    BY <2>3, <2>6
<1>11. CASE WatchFails \/ WatchQuits
  <2>1. /\ pc \in {"select", "forward"} /\ pc' = "ended" /\ UNCHANGED <<pushing, logs, delivered>>
    BY <1>11 DEF WatchFails, WatchQuits, HeedsQuit, End
  <2>2. use = "watch"
    BY <2>1, Where
  <2> QED
    BY <1>1, <2>1, <2>2 DEF Stops, Running
<1> QED
  BY <1>3, <1>4, <1>5, <1>6, <1>7, <1>8, <1>9, <1>10, <1>11, Cases

\* The next log is an event: it goes behind those delivered.
LEMMA TakesEvent ==
  ASSUME EventsAssumption, TypeOK, NothingIsLost, [Next]_vars,
         NEW p \in DOMAIN chain, Takes(p), CanUnpack(p)
  PROVE  /\ p \in Expected /\ p \notin Bad
         /\ GotBy(delivered', chain', Expected \ Remaining')
         /\ \A q \in Expected \ Remaining', r \in Remaining' : q < r
<1>1. UNCHANGED chain /\ Given
  BY CallStays
<1>2. /\ GotBy(delivered, chain, Expected \ Remaining)
      /\ \A q \in Expected \ Remaining, r \in Remaining : q < r
      /\ p \in Remaining /\ \A q \in Remaining : q # p => p < q
      /\ use # "parse" => Remaining \subseteq Expected \cup Bad
  BY GotIs DEF NothingIsLost, Takes, Least
<1>3. p \in Expected /\ p \notin Bad
  BY <1>1, <1>2, UnpacksExpected
<1>4. Remaining' = Remaining \ {p} /\ delivered' = Append(delivered, Event(p))
  BY DEF Takes
<1>5. Expected \ Remaining' = (Expected \ Remaining) \cup {p}
  BY <1>2, <1>3, <1>4
<1>6. \A q \in Expected \ Remaining', r \in Remaining' : q < r
  BY <1>2, <1>4, <1>5
<1>7. Expected \ Remaining \in SUBSET DOMAIN chain
  BY DEF Expected
<1>8. \A q \in Expected \ Remaining : q < p
  BY <1>2
<1> DEFINE places == Expected \ Remaining
<1>9. places \in SUBSET DOMAIN chain /\ Got(places) /\ \A q \in places : q < p
  BY <1>2, <1>7, <1>8, GotIs
<1>10. Expected \ Remaining' = places \cup {p}
  BY <1>5
<1> HIDE DEF places
<1>11. GotBy(delivered', chain', places \cup {p})
  <2>1. delivered \in Seq({Event(q) : q \in DOMAIN chain})
    BY DEF TypeOK
  <2> QED
    BY <1>1, <1>4, <1>9, <2>1, GotOneMore
<1> QED
  BY <1>3, <1>6, <1>10, <1>11

\* Nothing was delivered, and the error is the one before.
LEMMA BeforeBadStays ==
  ASSUME TypeOK, [Next]_vars, delivered' = delivered, GotAllBeforeBad
  PROVE  GotAllBeforeBad'
<1>1. chain' = chain /\ Expected' = Expected /\ Bad' = Bad
  BY CallStays
<1>2. PICK b \in Bad : (\A c \in Bad : b <= c) /\ Got({p \in Expected : p < b})
  BY DEF GotAllBeforeBad
<1>3. GotBy(delivered', chain', {p \in Expected' : p < b})
  BY <1>1, <1>2, GotIs
<1> QED
  BY <1>1, <1>2, <1>3 DEF GotAllBeforeBad, Got, GotBy

\* The next log does not decode: the caller has got what comes before it.
LEMMA TakesBad ==
  ASSUME EventsAssumption, TypeOK, NothingIsLost, [Next]_vars, use # "parse",
         NEW p \in DOMAIN chain, Takes(p), ~CanUnpack(p)
  PROVE  GotAllBeforeBad'
<1>1. chain' = chain /\ Expected' = Expected /\ Bad' = Bad /\ Given
  BY CallStays
<1>2. /\ GotBy(delivered, chain, Expected \ Remaining)
      /\ \A q \in Expected \ Remaining, r \in Remaining : q < r
      /\ p \in Remaining /\ \A q \in Remaining : q # p => p < q
      /\ Remaining \subseteq Expected \cup Bad /\ Bad \subseteq Remaining
  BY GotIs DEF NothingIsLost, Takes, Least
<1>3. p \in Bad /\ Expected \cap Bad = {}
  BY <1>1, <1>2, UnpacksExpected
<1>4. DOMAIN chain \subseteq Nat /\ Bad \subseteq DOMAIN chain /\ Expected \subseteq DOMAIN chain
  BY <1>1, Places DEF Bad, Expected
<1>5. \A c \in Bad : p <= c
  BY <1>2, <1>3, <1>4
<1>6. {q \in Expected : q < p} = Expected \ Remaining
  <2>1. \A q \in Expected : q < p => q \notin Remaining
    BY <1>2, <1>3, <1>4
  <2> QED
    BY <1>2, <2>1
<1>7. GotBy(delivered', chain', {q \in Expected' : q < p})
  BY <1>1, <1>2, <1>6 DEF Takes
<1> QED
  BY <1>1, <1>3, <1>5, <1>7 DEF GotAllBeforeBad, Got, GotBy

LEMMA NothingIsLostStep ==
  ASSUME EventsAssumption, TypeOK, TypeOK', InOrder, NothingIsLost, EndsAfterLast, [Next]_vars
  PROVE  NothingIsLost'
<1>1. UNCHANGED <<use, chain>> /\ Expected' = Expected /\ Bad' = Bad /\ Given
  BY CallStays
<1>2. /\ Running => /\ GotBy(delivered, chain, Expected \ Remaining)
                    /\ \A p \in Expected \ Remaining, q \in Remaining : p < q
      /\ use # "parse" => Remaining \subseteq Expected \cup Bad
      /\ Running /\ use # "parse" => Bad \subseteq Remaining
      /\ use # "parse" /\ pc = "start" => Remaining = {} /\ delivered = <<>>
      /\ use = "filter" /\ fail # "none" => GotAllBeforeBad
  BY GotIs DEF NothingIsLost
<1>3. SUFFICES
        /\ Running' => /\ GotBy(delivered', chain', Expected \ Remaining')
                       /\ \A p \in Expected \ Remaining', q \in Remaining' : p < q
        /\ use # "parse" => Remaining' \subseteq Expected \cup Bad
        /\ Running' /\ use # "parse" => Bad \subseteq Remaining'
        /\ use # "parse" /\ pc' = "start" => Remaining' = {} /\ delivered' = <<>>
        /\ use = "filter" /\ fail' # "none" => GotAllBeforeBad'
  BY <1>1, <1>3 DEF NothingIsLost, Got, GotBy
<1>4. CASE Still
  BY <1>1, <1>2, <1>4, BeforeBadStays DEF Still
<1>5. CASE Stops
  BY <1>2, <1>5 DEF Stops
<1>6. CASE Opens
  <2>1. /\ Remaining' = Expected \cup Bad /\ delivered' = <<>> /\ pc' # "start"
        /\ fail' = "none" /\ use # "parse"
    BY <1>1, <1>2, <1>6, UnpacksExpected DEF Opens, EndsAfterLast
  <2>2. Expected \ Remaining' = {}
    BY <2>1
  <2>3. GotBy(delivered', chain', Expected \ Remaining')
    BY <2>1, <2>2, GotNothing
  <2> QED
    BY <2>1, <2>2, <2>3
<1>7. ASSUME NEW p \in DOMAIN chain, Takes(p), CanUnpack(p)
      PROVE  <1>3!1
  BY <1>2, <1>7, TakesEvent DEF Takes
<1>8. ASSUME NEW p \in DOMAIN chain, Takes(p), ~CanUnpack(p), use = "parse"
      PROVE  <1>3!1
  <2>1. p \notin Expected
    BY <1>1, <1>8, UnpacksExpected
  <2>2. /\ Remaining' = Remaining \ {p} /\ delivered' = delivered /\ Running
    BY <1>8 DEF Takes
  <2>3. Expected \ Remaining' = Expected \ Remaining
    BY <2>1, <2>2
  <2> QED
    BY <1>1, <1>2, <1>8, <2>2, <2>3
<1>9. ASSUME NEW p \in DOMAIN chain, Takes(p), ~CanUnpack(p), use # "parse"
      PROVE  <1>3!1
  BY <1>2, <1>9, TakesBad DEF Takes
<1> QED
  BY <1>4, <1>5, <1>6, <1>7, <1>8, <1>9, Progress

LEMMA DeliversInOrderStep ==
  ASSUME EventsAssumption, TypeOK, TypeOK', Streams, [Next]_vars
  PROVE  DeliversInOrder'
<1>1. chain' = chain /\ Expected' = Expected
  BY CallStays
<1>2. CASE delivered' = delivered
  <2>1. PICK places \in SUBSET Expected :
          Got(places) /\ \A p \in places, q \in Expected \ places : p < q
    BY DEF Streams, DeliversInOrder
  <2>2. GotBy(delivered', chain', places)
    BY <1>1, <1>2, <2>1, GotIs
  <2> QED
    BY <1>1, <2>1, <2>2 DEF DeliversInOrder, Got, GotBy
<1>3. ASSUME NEW p \in DOMAIN chain, Takes(p), CanUnpack(p)
      PROVE  DeliversInOrder'
  <2> DEFINE places == Expected \ Remaining'
  <2>1. /\ GotBy(delivered', chain', places) /\ places \in SUBSET Expected
        /\ \A q \in places, r \in Expected \ places : q < r
    BY <1>3, TakesEvent DEF Streams
  <2> HIDE DEF places
  <2> QED
    BY <1>1, <2>1 DEF DeliversInOrder, Got, GotBy
<1>4. delivered' = delivered \/ \E p \in DOMAIN chain : Takes(p) /\ CanUnpack(p)
  BY Progress DEF Streams, Still, Stops, Opens, Takes
<1> QED
  BY <1>2, <1>3, <1>4

-----------------------------------------------------------------------------
(* The theorems.                                                            *)

Invariant == TypeOK /\ Streams

LEMMA InitInvariant ==
  ASSUME EventsAssumption, Init
  PROVE  Invariant
<1>1. TypeOK
  <2>1. delivered \in Seq({Event(p) : p \in DOMAIN chain}) /\ logs \in Seq(DOMAIN chain)
        /\ Len(logs) <= Buffer
    BY DEF Init, EventsAssumption
  <2> QED
    BY <2>1 DEF Init, TypeOK, Uses
<1>2. Given /\ Got({})
  BY GotNothing, GotIs DEF Init, Given
<1>3. DOMAIN chain \subseteq Nat
  BY <1>2, Places
<1>4. InOrder /\ EndsAfterLast
  BY DEF Init, InOrder, EndsAfterLast
<1>5. DeliversInOrder
  BY <1>2 DEF DeliversInOrder
<1>6. Remaining = pushing
  BY DEF Init, Remaining
<1>7. NothingIsLost
  <2>1. CASE use = "parse"
    <3>1. Expected \ Remaining = {}
      BY <1>6, <2>1 DEF Init, Expected
    <3> QED
      BY <1>2, <2>1, <3>1 DEF NothingIsLost
  <2>2. CASE use # "parse"
    BY <1>6, <2>2 DEF NothingIsLost, Init, Running
  <2> QED
    BY <2>1, <2>2
<1> QED
  BY <1>1, <1>4, <1>5, <1>7 DEF Invariant, Streams

LEMMA InvariantStep ==
  ASSUME EventsAssumption, Invariant, [Next]_vars
  PROVE  Invariant'
<1>1. TypeOK'
  BY TypeStep DEF Invariant
<1>2. InOrder' /\ EndsAfterLast' /\ NothingIsLost' /\ DeliversInOrder'
  BY <1>1, InOrderStep, EndsStep, NothingIsLostStep, DeliversInOrderStep DEF Invariant, Streams
<1> QED
  BY <1>1, <1>2 DEF Invariant, Streams

LEMMA Invariance == Spec => []Invariant
BY EventsAssumption, InitInvariant, InvariantStep, PTL DEF Spec

\* The watching goroutine holds an event exactly while it forwards it and leaves
\* no subscription behind, for every event, chain and buffer
\* (entrypoint.go:2071-2096).
THEOREM TypeCorrect == Spec => []TypeOK
BY Invariance, PTL DEF Invariant

\* What waits in the channel, what is still to be pushed and what was delivered
\* are, together and in order, what the caller asked for (entrypoint.go:1948-2118).
THEOREM StreamsInvariant == Spec => []Streams
BY Invariance, PTL DEF Invariant

\* The caller gets exactly the events it asked for, in the order of the chain,
\* up to the point reached: the rules of each generated function are in the order
\* of its event's topics (entrypoint.go:2039, 2066).
THEOREM Delivery == Spec => []DeliversInOrder
BY Invariance, PTL DEF Invariant, Streams

\* When Next returned false and Error returns nil, nothing is missing; when Error
\* returns an error, everything before the log that did not decode was delivered
\* (entrypoint.go:1961-1997).
THEOREM FalseIsTrue == Spec => []FalseTellsTheTruth
<1>1. ASSUME Invariant
      PROVE  FalseTellsTheTruth
  <2> SUFFICES ASSUME use = "filter", answer = "false", ~asked, fail = "none"
               PROVE  Got(Expected)
    BY <1>1 DEF Invariant, Streams, NothingIsLost, FalseTellsTheTruth
  <2>1. done /\ logs = <<>> /\ err = "closed" /\ pc \in {"idle", "next"}
    BY <1>1 DEF Invariant, Streams, EndsAfterLast
  <2>2. pushing = {}
    BY <1>1, <2>1 DEF Invariant, Streams, EndsAfterLast
  <2>3. Remaining = {}
    BY <2>1, <2>2 DEF Remaining
  <2>4. Running
    BY <2>1 DEF Running
  <2> QED
    BY <1>1, <2>3, <2>4, GotIs DEF Invariant, Streams, NothingIsLost
<1> QED
  BY <1>1, Invariance, PTL

\* A failure is final: no action of the iterator or of the goroutine delivers
\* anything or changes the error after it (entrypoint.go:1962-1964, 2077-2085).
THEOREM FailuresAreFinal == Spec => FailureIsFinal
<1>1. ASSUME Invariant, [Next]_vars
      PROVE  [fail # "none" => fail' = fail /\ delivered' = delivered]_vars
  <2> SUFFICES ASSUME fail # "none", Next
               PROVE  fail' = fail /\ delivered' = delivered
    BY <1>1
  <2>1. pc \in {"idle", "next", "ended"} /\ use # "parse"
    BY <1>1, Where DEF Invariant, Streams, EndsAfterLast
  <2>2. ~Open /\ ~Forward /\ ~Parse /\ ~NextTakes /\ ~NextFindsNothing /\ ~NextCompletes
        /\ ~WatchTakes /\ ~WatchFails /\ ~WatchQuits
    BY <2>1 DEF Open, Forward, Parse, NextTakes, NextFindsNothing, NextCompletes,
       WatchTakes, WatchFails, WatchQuits, HeedsQuit, Failed
  <2>3. Push \/ PushingEnds \/ NodeEnds \/ Close \/ CallNext \/ NextFailed
    BY <2>2 DEF Next, NextStep, WatchStep
  <2> QED
    BY <2>3 DEF Push, PushingEnds, NodeEnds, Close, CallNext, NextFailed, codeVars
<1> QED
  BY <1>1, Invariance, PTL DEF Spec, FailureIsFinal
=============================================================================
