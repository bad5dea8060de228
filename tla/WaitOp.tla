------------------------------- MODULE WaitOp -------------------------------
(***************************************************************************)
(* WaitForUserOperation (bundler.go): a ticker polls the bundler for the    *)
(* receipt until a deadline, with every poll a blocking HTTP exchange that   *)
(* the context does not interrupt, and which may never end.                 *)
(*                                                                         *)
(* Time is discrete and kept in countdowns, so no clock needs a bound.  It   *)
(* advances only when the goroutine has nothing to do: a ready case of the   *)
(* select is taken, and a timer fires, at the instant it becomes ready, in   *)
(* any order if several do.                                                 *)
(***************************************************************************)
EXTENDS Integers

CONSTANT
  Settings   (* the interval, the timeout and the longest HTTP exchange     *)

ASSUME WaitAssumption ==
  Settings \subseteq [interval : Nat \ {0}, timeout : Nat \ {0}, latency : Nat]

VARIABLES
  setting,    \* WaitReceiptInterval, defaultWaitTimeout, an exchange's bound
  pc,         \* "select", "call" (in GetUserOpReceipt) or "returned"
  result,     \* how the call ended
  channel,    \* number of ticks in ticker.C, whose capacity is one
  toTick,     \* time until the ticker fires
  toDeadline, \* time until the timeout of the context
  caller,     \* the caller's context: "open" or "cancelled"
  answer,     \* the bundler's answer to the poll under way, or "none"
  age,        \* time since the poll under way was sent
  hung,       \* the exchange of the poll under way never ends
  known,      \* what the bundler has: "null" or the "receipt"
  \* History, read by no action:
  available,  \* time for which the receipt was there before the context ended
  overdue     \* time for which the context has ended and the call has not

timers == <<channel, toTick, toDeadline>>
historyVars == <<available, overdue>>
vars == <<setting, pc, result, timers, caller, answer, age, hung, known, historyVars>>

Init ==
  /\ setting \in Settings
  /\ pc = "select"
  /\ result = "none"
  /\ channel = 0
  /\ toTick = setting.interval
  /\ toDeadline = setting.timeout
  /\ caller = "open"
  /\ answer = "none"
  /\ age = 0
  /\ hung = FALSE
  /\ known = "null"
  /\ available = 0
  /\ overdue = 0

Return(how) == pc' = "returned" /\ result' = how

-----------------------------------------------------------------------------
(* The two cases of the select; Go picks at random when both are ready.      *)

ContextEnded == toDeadline = 0 \/ caller = "cancelled"

\* Faulty variant: the caller's context is waited for, not the one with the
\* timeout.
CallerIsDone == caller = "cancelled"

ContextIsDone == ContextEnded

Poll ==
  /\ pc = "select"
  /\ channel = 1
  /\ channel' = 0
  /\ pc' = "call"
  /\ answer' = "none"
  /\ age' = 0
  /\ UNCHANGED <<setting, result, toTick, toDeadline, caller, hung, known, historyVars>>

GiveUp ==
  /\ pc = "select"
  /\ ContextIsDone
  /\ Return("no receipt")
  /\ UNCHANGED <<setting, timers, caller, answer, age, hung, known, historyVars>>

-----------------------------------------------------------------------------
(* GetUserOpReceipt.                                                        *)

\* External: the bundler reads the request and answers.
Serve ==
  /\ pc = "call" /\ ~hung
  /\ answer = "none"
  /\ answer' = known
  /\ UNCHANGED <<setting, pc, result, timers, caller, age, hung, known, historyVars>>

\* Faulty variant: the first answer is returned, a null one too.
AnyAnswer == TRUE

HasReceipt == answer = "receipt"

\* A null result is no error: the loop goes on.
Receive ==
  /\ pc = "call"
  /\ answer # "none"
  /\ IF HasReceipt THEN Return(answer) ELSE pc' = "select" /\ UNCHANGED result
  /\ UNCHANGED <<setting, timers, caller, answer, age, hung, known, historyVars>>

\* The exchange or the decoding fails, or the bundler reports an error: one
\* failure ends the wait.
CallFails ==
  /\ pc = "call" /\ ~hung
  /\ Return("error")
  /\ UNCHANGED <<setting, timers, caller, answer, age, hung, known, historyVars>>

\* External: the peer keeps the connection and is never heard of again.  The
\* HTTP client has no timeout, and the request does not know the context.
Hang ==
  /\ pc = "call" /\ ~hung
  /\ hung' = TRUE
  /\ answer' = "none"
  /\ UNCHANGED <<setting, pc, result, timers, caller, age, known, historyVars>>

-----------------------------------------------------------------------------
(* Timers, the caller and the chain.                                        *)

\* Faulty variant: ticks that fall into a poll are lost.
DropInCall == IF pc = "select" THEN 1 ELSE channel

WithTick == 1

\* The ticker sends without blocking: a tick on a full channel is dropped.
TickerFires ==
  /\ pc # "returned"
  /\ toTick = 0
  /\ channel' = WithTick
  /\ toTick' = setting.interval
  /\ UNCHANGED <<setting, pc, result, toDeadline, caller, answer, age, hung, known, historyVars>>

\* Time cannot pass over something that is due.
Urgent ==
  \/ toTick = 0
  \/ pc = "select" /\ (channel = 1 \/ ContextIsDone)
  \/ pc = "call" /\ ~hung /\ age = setting.latency

Tick ==
  /\ pc # "returned"
  /\ ~Urgent
  /\ toTick' = toTick - 1
  /\ toDeadline' = IF toDeadline = 0 THEN 0 ELSE toDeadline - 1
  /\ age' = IF pc = "call" /\ ~hung THEN age + 1 ELSE age
  /\ available' = IF known = "receipt" /\ ~ContextEnded THEN available + 1 ELSE available
  /\ overdue' = IF ContextEnded /\ overdue <= setting.latency THEN overdue + 1 ELSE overdue
  /\ UNCHANGED <<setting, pc, result, channel, caller, answer, hung, known>>

\* External: the caller cancels its context.
Cancel ==
  /\ pc # "returned"
  /\ caller = "open"
  /\ caller' = "cancelled"
  /\ UNCHANGED <<setting, pc, result, timers, answer, age, hung, known, historyVars>>

\* External: the operation is included and the bundler knows its receipt.
Mine ==
  /\ pc # "returned"
  /\ known = "null"
  /\ known' = "receipt"
  /\ UNCHANGED <<setting, pc, result, timers, caller, answer, age, hung, historyVars>>

Next ==
  \/ Poll \/ GiveUp \/ Serve \/ Receive \/ CallFails \/ Hang
  \/ TickerFires \/ Tick \/ Cancel \/ Mine

Spec == Init /\ [][Next]_vars

\* Timers fire, an exchange that does not hang ends, and the random choice of
\* the select does not avoid GiveUp for ever.
Fairness ==
  /\ WF_vars(Tick \/ TickerFires)
  /\ WF_vars(Serve) /\ WF_vars(Receive \/ CallFails)
  /\ WF_vars(Poll) /\ SF_vars(GiveUp)

FairSpec == Spec /\ Fairness

-----------------------------------------------------------------------------
(* Properties.                                                              *)

Longer(a, b) == IF a > b THEN a ELSE b

\* The countdowns stay in range: no tick is due twice, no exchange outlives its
\* bound (bundler.go:126-145).
TypeOK ==
  /\ setting \in Settings
  /\ pc \in {"select", "call", "returned"}
  /\ result \in {"none", "receipt", "no receipt", "error"}
  /\ channel \in {0, 1}
  /\ caller \in {"open", "cancelled"}
  /\ known \in {"null", "receipt"}
  /\ toTick \in 0 .. setting.interval
  /\ toDeadline \in 0 .. setting.timeout
  /\ answer \in {"none", "receipt", "null"}
  /\ age \in 0 .. setting.latency
  /\ available \in 0 .. setting.timeout
  /\ overdue \in 0 .. setting.latency + 1
  /\ pc = "returned" <=> result # "none"
  /\ hung \in BOOLEAN
  /\ hung => pc = "call" /\ answer = "none"

\* "no receipt found" is said only of an operation whose receipt was not there
\* for longer than one interval, or one slow exchange, before the context ended
\* (bundler.go:133-143).
NoReceiptMissed ==
  result = "no receipt" => available <= Longer(setting.interval, setting.latency)

\* When exchanges are shorter than the interval, the call outlives its context
\* by at most one exchange, although the HTTP request ignores the context; unless
\* that exchange hangs (bundler.go:129, 134, 165).
ReturnsInTime ==
  setting.latency < setting.interval /\ ~hung => overdue <= setting.latency

\* The call ends, with a receipt or an error, or hangs in a poll whose exchange
\* never ends: also when polls take so long that a tick is always waiting, and
\* although nothing bounds the number of polls but the context (bundler.go:131).
Returns == <>(pc = "returned" \/ hung)

-----------------------------------------------------------------------------
(* The inductive invariant behind NoReceiptMissed and ReturnsInTime.         *)

\* The receipt came after the last answered poll began: it has been there for
\* no longer than that poll, and until a tick waits for no longer than the
\* ticker has run.
ReceiptIsFresh ==
  /\ available + toDeadline <= setting.timeout
  /\ known = "null" => available = 0
  /\ pc = "select" => available <= Longer(setting.interval, setting.latency)
  /\ pc = "call" /\ answer = "null" => available <= age
  /\ channel = 0 /\ (pc = "select" \/ (pc = "call" /\ answer = "null"))
       => available <= setting.interval - toTick

\* When exchanges are shorter than the interval a poll starts at its tick, so
\* no second tick waits at its end and none is polled after the context ended.
PollStartsAtTick ==
  setting.latency < setting.interval /\ ~hung =>
    /\ pc = "select" /\ channel = 1 => toTick = setting.interval
    /\ pc = "call" => channel = 0 /\ toTick + age = setting.interval
    /\ overdue <= setting.latency
    /\ pc = "call" => overdue <= age
    /\ overdue > 0 => ContextEnded
    /\ pc = "select" /\ overdue > 0 => channel = 0 /\ toTick > 0

\* A poll is never behind the ticker by more than its own duration (bundler.go
\* 127-145): from this the two bounds follow.
PollsKeepUp == ReceiptIsFresh /\ PollStartsAtTick /\ NoReceiptMissed
=============================================================================
