---------------------------- MODULE WaitOpProofs ----------------------------
(***************************************************************************)
(* Theorems about WaitOp for every interval, timeout and latency.           *)
(***************************************************************************)
EXTENDS WaitOp, TLAPS

\* The ranges of the countdowns, in plain arithmetic.
LEMMA Ranges ==
  ASSUME TypeOK
  PROVE  /\ setting.interval \in Nat \ {0} /\ setting.timeout \in Nat \ {0}
         /\ setting.latency \in Nat
         /\ toTick \in Nat /\ toTick <= setting.interval
         /\ toDeadline \in Nat /\ toDeadline <= setting.timeout
         /\ age \in Nat /\ age <= setting.latency
         /\ available \in Nat /\ available <= setting.timeout
         /\ overdue \in Nat /\ overdue <= setting.latency + 1
<1>1. /\ setting.interval \in Nat \ {0} /\ setting.timeout \in Nat \ {0}
      /\ setting.latency \in Nat
  BY WaitAssumption DEF TypeOK
<1>2. /\ toTick \in 0 .. setting.interval
      /\ toDeadline \in 0 .. setting.timeout
      /\ age \in 0 .. setting.latency
      /\ available \in 0 .. setting.timeout
      /\ overdue \in 0 .. setting.latency + 1
  BY DEF TypeOK
<1> QED
  BY ONLY <1>1, <1>2

\* Types and ranges of the countdowns are kept by every step.
LEMMA TypeStep == TypeOK /\ ReceiptIsFresh /\ [Next]_vars => TypeOK'
<1> SUFFICES ASSUME TypeOK, ReceiptIsFresh, [Next]_vars
             PROVE  TypeOK'
  OBVIOUS
<1>1. /\ setting.interval \in Nat \ {0} /\ setting.timeout \in Nat \ {0}
      /\ setting.latency \in Nat
      /\ toTick \in Nat /\ toTick <= setting.interval
      /\ toDeadline \in Nat /\ toDeadline <= setting.timeout
      /\ age \in Nat /\ age <= setting.latency
      /\ available \in Nat /\ available <= setting.timeout
      /\ overdue \in Nat /\ overdue <= setting.latency + 1
  BY Ranges
<1> USE <1>1 DEF TypeOK, timers, historyVars
<1>2. CASE Poll
  BY <1>2 DEF Poll
<1>3. CASE GiveUp
  BY <1>3 DEF GiveUp, Return
<1>4. CASE Serve
  BY <1>4 DEF Serve
<1>5. CASE Receive
  BY <1>5 DEF Receive, Return, HasReceipt
<1>6. CASE CallFails
  BY <1>6 DEF CallFails, Return
<1>7. CASE TickerFires
  <2>1. toTick' = setting.interval /\ channel' = 1
    BY <1>7 DEF TickerFires, WithTick
  <2>2. toTick' \in 0 .. setting.interval
    BY ONLY <2>1, <1>1
  <2>3. UNCHANGED <<setting, pc, result, toDeadline, caller, answer, age, hung, known, historyVars>>
    BY <1>7 DEF TickerFires
  <2> QED
    BY <2>1, <2>2, <2>3
<1>8. CASE Tick
  <2>1. /\ toTick # 0 /\ toTick' = toTick - 1
        /\ pc = "call" /\ ~hung => age # setting.latency
        /\ UNCHANGED <<setting, pc, result, channel, caller, answer, hung, known>>
    BY <1>8 DEF Tick, Urgent
  <2>2. toTick' \in 0 .. setting.interval
    BY ONLY <2>1, <1>1
  <2>3. toDeadline' \in 0 .. setting.timeout
    <3>1. toDeadline' = IF toDeadline = 0 THEN 0 ELSE toDeadline - 1
      BY <1>8 DEF Tick
    <3> QED
      BY ONLY <3>1, <1>1
  <2>4. age' \in 0 .. setting.latency
    <3>1. age' = IF pc = "call" /\ ~hung THEN age + 1 ELSE age
      BY <1>8 DEF Tick
    <3> QED
      BY ONLY <2>1, <3>1, <1>1
  <2>5. available' \in 0 .. setting.timeout
    <3>1. \/ available' = available
          \/ available' = available + 1 /\ toDeadline # 0
      BY <1>8 DEF Tick, ContextEnded
    <3>2. available + toDeadline <= setting.timeout
      BY DEF ReceiptIsFresh
    <3> QED
      BY ONLY <3>1, <3>2, <1>1
  <2>6. overdue' \in 0 .. setting.latency + 1
    <3>1. \/ overdue' = overdue
          \/ overdue' = overdue + 1 /\ overdue <= setting.latency
      BY <1>8 DEF Tick
    <3> QED
      BY ONLY <3>1, <1>1
  <2> QED
    BY <2>1, <2>2, <2>3, <2>4, <2>5, <2>6
<1>9. CASE Cancel
  BY <1>9 DEF Cancel
<1>10. CASE Mine
  BY <1>10 DEF Mine
<1>11. CASE Hang
  BY <1>11 DEF Hang
<1>12. CASE UNCHANGED vars
  BY <1>12 DEF vars
<1> QED
  BY <1>2, <1>3, <1>4, <1>5, <1>6, <1>7, <1>8, <1>9, <1>10, <1>11, <1>12 DEF Next

LEMMA FreshStep == TypeOK /\ ReceiptIsFresh /\ [Next]_vars => ReceiptIsFresh'
<1> SUFFICES ASSUME TypeOK, ReceiptIsFresh, [Next]_vars
             PROVE  ReceiptIsFresh'
  OBVIOUS
<1> USE Ranges DEF ReceiptIsFresh, Longer, timers, historyVars
<1>1. CASE Poll
  BY <1>1 DEF Poll
<1>2. CASE GiveUp
  BY <1>2 DEF GiveUp, Return
<1>3. CASE Serve
  BY <1>3 DEF Serve
<1>4. CASE Receive
  <2>1. CASE answer = "receipt"
    BY <1>4, <2>1 DEF Receive, Return, HasReceipt
  <2>2. CASE answer = "null"
    <3>1. /\ pc = "call" /\ pc' = "select"
          /\ UNCHANGED <<setting, channel, toTick, toDeadline, known, available>>
      BY <1>4, <2>2 DEF Receive, HasReceipt
    <3> QED
      BY <2>2, <3>1
  <2> QED
    BY <1>4, <2>1, <2>2 DEF Receive, TypeOK
<1>5. CASE CallFails
  BY <1>5 DEF CallFails, Return
<1>6. CASE TickerFires
  <2>1. /\ toTick = 0 /\ toTick' = setting.interval /\ channel' = 1
        /\ UNCHANGED <<setting, pc, toDeadline, answer, age, known, available>>
    BY <1>6 DEF TickerFires, WithTick
  <2> QED
    BY <2>1
<1>7. CASE Tick
  <2>1. /\ toTick # 0 /\ toTick' = toTick - 1
        /\ toDeadline' = IF toDeadline = 0 THEN 0 ELSE toDeadline - 1
        /\ age' = IF pc = "call" /\ ~hung THEN age + 1 ELSE age
        /\ hung => answer = "none"
        /\ \/ available' = available
           \/ available' = available + 1 /\ toDeadline # 0 /\ known = "receipt"
        /\ UNCHANGED <<setting, pc, channel, answer, known>>
    BY <1>7 DEF Tick, Urgent, ContextEnded, TypeOK
  <2>2. pc = "select" => channel = 0
    BY <1>7 DEF Tick, Urgent, TypeOK
  <2> QED
    BY <2>1, <2>2
<1>8. CASE Cancel
  BY <1>8 DEF Cancel
<1>9. CASE Mine
  BY <1>9 DEF Mine
<1>10. CASE Hang
  BY <1>10 DEF Hang
<1>11. CASE UNCHANGED vars
  BY <1>11 DEF vars
<1> QED
  BY <1>1, <1>2, <1>3, <1>4, <1>5, <1>6, <1>7, <1>8, <1>9, <1>10, <1>11 DEF Next

LEMMA PollStep == TypeOK /\ PollStartsAtTick /\ [Next]_vars => PollStartsAtTick'
<1> SUFFICES ASSUME TypeOK, PollStartsAtTick, [Next]_vars,
                    setting'.latency < setting'.interval, ~hung'
             PROVE  /\ pc' = "select" /\ channel' = 1 => toTick' = setting'.interval
                    /\ pc' = "call" => channel' = 0 /\ toTick' + age' = setting'.interval
                    /\ overdue' <= setting'.latency
                    /\ pc' = "call" => overdue' <= age'
                    /\ overdue' > 0 => ContextEnded'
                    /\ pc' = "select" /\ overdue' > 0 => channel' = 0 /\ toTick' > 0
  BY DEF PollStartsAtTick
<1>1. setting' = setting /\ ~hung
  <2>1. setting' = setting
    BY DEF Next, vars, Poll, GiveUp, Serve, Receive, CallFails, Hang, TickerFires, Tick, Cancel, Mine
  <2>2. CASE Hang
    BY <2>2, Zenon DEF Hang
  <2>3. CASE ~Hang
    <3>1. UNCHANGED hung
      BY <2>3, Zenon
         DEF Next, vars, Poll, GiveUp, Serve, Receive, CallFails, TickerFires, Tick, Cancel, Mine
    <3> QED
      BY <2>1, <3>1, Zenon
  <2> QED
    BY <2>2, <2>3
<1>2. setting.latency < setting.interval
  BY <1>1
<1> USE Ranges, <1>1, <1>2 DEF PollStartsAtTick, ContextEnded, timers, historyVars
<1>3. CASE Poll
  <2>1. overdue = 0
    BY <1>3 DEF Poll
  <2> QED
    BY <1>3, <2>1 DEF Poll
<1>4. CASE GiveUp
  BY <1>4 DEF GiveUp, Return
<1>5. CASE Serve
  BY <1>5 DEF Serve
<1>6. CASE Receive \/ CallFails
  <2>1. /\ pc = "call" /\ pc' \in {"select", "returned"}
        /\ UNCHANGED <<toTick, toDeadline, caller, channel, age, overdue>>
    BY <1>6 DEF Receive, CallFails, Return
  <2> QED
    BY <2>1
<1>7. CASE TickerFires
  <2>1. /\ toTick = 0 /\ toTick' = setting.interval /\ channel' = 1
        /\ UNCHANGED <<pc, toDeadline, caller, age, overdue>>
    BY <1>7 DEF TickerFires, WithTick
  <2>2. pc # "call"
    BY <2>1
  <2> QED
    BY <2>1, <2>2
<1>8. CASE Tick
  <2>1. /\ toTick' = toTick - 1
        /\ age' = IF pc = "call" THEN age + 1 ELSE age
        /\ \/ overdue' = overdue
           \/ overdue' = overdue + 1 /\ ContextEnded
        /\ ContextEnded => ContextEnded'
        /\ pc = "call" => age # setting.latency
        /\ UNCHANGED <<pc, channel>>
    BY <1>8 DEF Tick, Urgent
  <2>2. pc = "select" => ~ContextEnded /\ channel # 1
    BY <1>8 DEF Tick, Urgent, ContextIsDone
  <2>3. pc \in {"select", "call"}
    BY <1>8 DEF Tick, TypeOK
  <2>4. CASE pc = "select"
    BY <2>1, <2>2, <2>4
  <2>5. CASE pc = "call"
    BY <2>1, <2>5
  <2> QED
    BY <2>3, <2>4, <2>5
<1>9. CASE Cancel
  BY <1>9 DEF Cancel
<1>10. CASE Mine
  BY <1>10 DEF Mine
<1>11. CASE UNCHANGED vars
  BY <1>11 DEF vars
<1>12. ~Hang
  BY DEF Hang
<1> QED
  BY <1>3, <1>4, <1>5, <1>6, <1>7, <1>8, <1>9, <1>10, <1>11, <1>12 DEF Next

LEMMA MissedStep ==
  TypeOK /\ ReceiptIsFresh /\ NoReceiptMissed /\ [Next]_vars => NoReceiptMissed'
<1> SUFFICES ASSUME TypeOK, ReceiptIsFresh, NoReceiptMissed, [Next]_vars,
                    result' = "no receipt"
             PROVE  available' <= Longer(setting'.interval, setting'.latency)
  BY DEF NoReceiptMissed
<1>1. CASE GiveUp
  BY <1>1 DEF GiveUp, ReceiptIsFresh, historyVars
<1>2. CASE ~GiveUp
  <2>1. result = "no receipt" /\ UNCHANGED <<setting, available>>
    BY <1>2 DEF Next, vars, historyVars, TypeOK, Return, Poll, Serve, Receive, HasReceipt,
                CallFails, Hang, TickerFires, Tick, Cancel, Mine
  <2> QED
    BY <2>1 DEF NoReceiptMissed
<1> QED
  BY <1>1, <1>2

\* In every reachable state the countdowns are in range and no poll is behind
\* the ticker by more than its own duration.
THEOREM PollInvariant == Spec => [](TypeOK /\ PollsKeepUp)
<1>1. Init => TypeOK /\ PollsKeepUp
  <2> SUFFICES ASSUME Init
               PROVE  TypeOK /\ PollsKeepUp
    OBVIOUS
  <2>1. hung \in BOOLEAN /\ ~hung
    BY Zenon DEF Init
  <2>2. TypeOK
    BY <2>1, WaitAssumption DEF Init, TypeOK
  <2>3. PollsKeepUp
    BY WaitAssumption
       DEF Init, PollsKeepUp, ReceiptIsFresh, PollStartsAtTick, NoReceiptMissed, Longer,
           ContextEnded
  <2> QED
    BY <2>2, <2>3
<1>2. TypeOK /\ PollsKeepUp /\ [Next]_vars => (TypeOK /\ PollsKeepUp)'
  BY TypeStep, FreshStep, PollStep, MissedStep DEF PollsKeepUp
<1> QED
  BY <1>1, <1>2, PTL DEF Spec

\* The countdowns stay in range for any interval, timeout and latency: no tick is
\* due twice, no exchange outlives its bound (bundler.go:126-145).
THEOREM TypeCorrect == Spec => []TypeOK
BY PollInvariant, PTL

\* "no receipt found" is never said of a receipt that was there for longer than
\* one interval and one exchange before the context ended.
THEOREM NoMissedReceipt == Spec => []NoReceiptMissed
<1>1. PollsKeepUp => NoReceiptMissed
  BY DEF PollsKeepUp
<1> QED
  BY <1>1, PollInvariant, PTL

\* With exchanges shorter than the interval the call ends within one exchange
\* of its context, unless that exchange hangs.
THEOREM InTime == Spec => []ReturnsInTime
<1>1. PollsKeepUp => ReturnsInTime
  BY DEF PollsKeepUp, PollStartsAtTick, ReturnsInTime
<1> QED
  BY <1>1, PollInvariant, PTL
=============================================================================
