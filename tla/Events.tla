------------------------------- MODULE Events -------------------------------
(***************************************************************************)
(* The event functions of the generated bindings: FilterX with its          *)
(* iterator, WatchX with its goroutine, and ParseX.  In a behaviour the     *)
(* caller uses one of the three on one event of the table in EventBindings. *)
(*                                                                         *)
(* FilterX and WatchX both get a channel of logs and a subscription from    *)
(* go-ethereum's bind package (external): a goroutine pushes the logs that  *)
(* match the query into the channel, which has a bounded buffer.  For       *)
(* FilterX these are the logs of one answer of the node, and the goroutine  *)
(* ends after the last of them; for WatchX the node sends them as they      *)
(* come, until the connection fails or is closed.                           *)
(***************************************************************************)
EXTENDS EventBindings, Naturals, SequencesExt

CONSTANTS
  Bindings,  (* the events considered, a subset of AllBindings             *)
  MaxLogs,   (* bound: logs on the chain                                   *)
  Buffer     (* capacity of the channel of logs                            *)

ASSUME EventsAssumption ==
  /\ Bindings \subseteq AllBindings
  /\ MaxLogs \in Nat
  /\ Buffer \in Nat \ {0}

Uses == {"filter", "watch", "parse"}

VARIABLES
  use,       \* what the caller does: "filter", "watch" or "parse"
  binding,   \* the event it does it for
  rules,     \* rules[arg]: the values it asks for, {} for any
  chain,     \* the logs on the chain, in order
  pushing,   \* places on the chain of the logs on their way to the channel, or
             \* still to parse
  logs,      \* the channel of logs: their places
  err,       \* sub.Err(): "open", "failure" with an error in it, or "closed"
  asked,     \* the caller has called Close or Unsubscribe
  quit,      \* the quit channel of the caller's subscription is closed
  pc,        \* where the iterator's caller or the watching goroutine is
  done,      \* it.done
  fail,      \* it.fail, or the error the watching goroutine ended with
  held,      \* place of the log whose event the watching goroutine is about to
             \* forward, or 0
  answer,    \* what Next returned last
  delivered  \* the events the caller got

callVars == <<use, binding, rules, chain>>
subVars == <<pushing, logs, err, asked, quit>>
codeVars == <<pc, done, fail, held, answer, delivered>>
vars == <<callVars, subVars, codeVars>>

-----------------------------------------------------------------------------
(* The logs that matter to a query: of the event with one or no indexed     *)
(* argument asked for, from another contract, of another event, and one     *)
(* that does not decode (an older version of the contract).                 *)

Log(from, event, decodes, args) ==
  [from |-> from, event |-> event, decodes |-> decodes, args |-> args]

ArgsWith(b, name) == [a \in Args(b.abi) |-> IF a = name THEN "asked" ELSE "else"]

Indexed(b) == {b.abi.indexed[i] : i \in DOMAIN b.abi.indexed}

LogsFor(b) ==
  {Log("bound", b.event, TRUE, ArgsWith(b, a)) : a \in Indexed(b) \cup {"none"}} \cup
  {Log("other", b.event, TRUE, ArgsWith(b, "none")),
   Log("bound", "another", TRUE, ArgsWith(b, "none")),
   Log("bound", b.event, FALSE, ArgsWith(b, "none"))}

RulesFor(b) ==
  {[a \in Indexed(b) |-> IF a = n THEN {"asked"} ELSE {}] : n \in Indexed(b) \cup {"none"}}

\* External: what UnpackLog makes of a log that has the event's signature and
\* decodes into the struct.
Unpacks(b, log) ==
  log.event = b.event /\ log.decodes /\ Args(b.abi) \subseteq b.fields

Unpacked(b, log) == [raw |-> log, fields |-> [f \in b.fields |-> log.args[f]]]

CanUnpack(p) == Unpacks(binding, chain[p])

Event(p) == Unpacked(binding, chain[p])

\* The query FilterX and WatchX make of the caller's rules.
Query == [i \in DOMAIN binding.rules |-> rules[binding.rules[i]]]

\* External: the node gives the logs of the bound contract that match.
Matches(log) ==
  /\ log.from = "bound"
  /\ log.event = binding.event
  /\ TopicsMatch(Query, Topics(binding, log))

Init ==
  /\ use \in Uses
  /\ binding \in Bindings
  /\ rules \in RulesFor(binding)
  /\ chain \in SeqOf(LogsFor(binding), MaxLogs)
  /\ pushing = IF use = "parse" THEN DOMAIN chain ELSE {}
  /\ logs = <<>>
  /\ err = "closed"
  /\ asked = FALSE
  /\ quit = FALSE
  /\ pc = "start"
  /\ done = FALSE
  /\ fail = "none"
  /\ held = 0
  /\ answer = "none"
  /\ delivered = <<>>

-----------------------------------------------------------------------------
(* The subscription (external: bind.FilterLogs, bind.WatchLogs, event,      *)
(* ethclient).                                                              *)

\* Logs are pushed, and parsed, in the order of the chain.
Comes(p) ==
  /\ \A q \in pushing : p <= q
  /\ pushing' = pushing \ {p}

Push ==
  /\ err = "open"
  /\ Len(logs) < Buffer
  /\ \E p \in pushing : Comes(p) /\ logs' = Append(logs, p)
  /\ UNCHANGED <<callVars, err, asked, quit, codeVars>>

\* FilterX: the goroutine ends after the last log, or because of Close.
PushingEnds ==
  /\ use = "filter"
  /\ err = "open"
  /\ pushing = {} \/ quit
  /\ err' = "closed"
  /\ UNCHANGED <<callVars, pushing, logs, asked, quit, codeVars>>

\* WatchX: the node's subscription fails, or the client is closed.
NodeEnds ==
  /\ use = "watch"
  /\ err = "open"
  /\ err' \in {"failure", "closed"}
  /\ UNCHANGED <<callVars, pushing, logs, asked, quit, codeVars>>

Unsubscribe == quit' = TRUE

\* Close of an iterator, Unsubscribe of a watch: by any goroutine, any time.
Close ==
  /\ use # "parse"
  /\ pc # "start"
  /\ ~asked
  /\ asked' = TRUE
  /\ Unsubscribe
  /\ UNCHANGED <<callVars, pushing, logs, err, codeVars>>

-----------------------------------------------------------------------------
(* FilterX and its iterator.                                                *)

\* FilterX and WatchX: the query fails, or logs begin to come.
Open ==
  /\ use # "parse"
  /\ pc = "start"
  /\ \/ /\ pc' = "failed"
        /\ UNCHANGED <<pushing, err>>
     \/ /\ pc' = IF use = "filter" THEN "idle" ELSE "select"
        /\ pushing' = {p \in DOMAIN chain : Matches(chain[p])}
        /\ err' = "open"
  /\ UNCHANGED <<callVars, logs, asked, quit, done, fail, held, answer, delivered>>

\* Next is called.
CallNext ==
  /\ pc = "idle"
  /\ pc' = "next"
  /\ UNCHANGED <<callVars, subVars, done, fail, held, answer, delivered>>

Return(result) == pc' = "idle" /\ answer' = result

\* Faulty variant: the iterator does not remember that it failed.
Forgets == FALSE

Failed == fail # "none"

NextFailed ==
  /\ pc = "next"
  /\ Failed
  /\ Return("false")
  /\ UNCHANGED <<callVars, subVars, done, fail, held, delivered>>

\* A log is there: in both selects.
NextTakes ==
  /\ pc = "next"
  /\ ~Failed
  /\ logs # <<>>
  /\ logs' = Tail(logs)
  /\ IF CanUnpack(Head(logs))
     THEN /\ delivered' = Append(delivered, Event(Head(logs)))
          /\ Return("true")
          /\ UNCHANGED fail
     ELSE /\ fail' = "unpack"
          /\ Return("false")
          /\ UNCHANGED delivered
  /\ UNCHANGED <<callVars, pushing, err, asked, quit, done, held>>

\* Faulty variants: the completed iterator does not look at the channel, or
\* waits for it.
IgnoresRest == done
Blocks == FALSE

NothingLeft == done /\ logs = <<>>

\* The subscription has ended and the channel is empty.
NextFindsNothing ==
  /\ pc = "next"
  /\ ~Failed
  /\ NothingLeft
  /\ Return("false")
  /\ UNCHANGED <<callVars, subVars, done, fail, held, delivered>>

\* sub.Err() is taken, although a log may be there: Next calls itself.
NextCompletes ==
  /\ pc = "next"
  /\ ~Failed
  /\ ~done
  /\ err # "open"
  /\ done' = TRUE
  /\ fail' = IF err = "failure" THEN "node" ELSE "none"
  /\ UNCHANGED <<callVars, subVars, pc, held, answer, delivered>>

-----------------------------------------------------------------------------
(* WatchX: the goroutine, which unsubscribes from the node when it ends.    *)

\* Faulty variant: the deferred Unsubscribe is missing.
Leaks == UNCHANGED err

Released == err' = "closed"

End(result) == pc' = "ended" /\ fail' = result /\ Released

WatchTakes ==
  /\ pc = "select"
  /\ logs # <<>>
  /\ logs' = Tail(logs)
  /\ IF CanUnpack(Head(logs))
     THEN /\ held' = Head(logs)
          /\ pc' = "forward"
          /\ UNCHANGED <<fail, err>>
     ELSE End("unpack") /\ UNCHANGED held
  /\ UNCHANGED <<callVars, pushing, asked, quit, done, answer, delivered>>

\* The caller receives from the sink.
Forward ==
  /\ pc = "forward"
  /\ delivered' = Append(delivered, Event(held))
  /\ held' = 0
  /\ pc' = "select"
  /\ UNCHANGED <<callVars, subVars, done, fail, answer>>

\* Both selects wait for sub.Err(); a held event is lost.
WatchFails ==
  /\ pc \in {"select", "forward"}
  /\ err # "open"
  /\ End(IF err = "failure" THEN "node" ELSE "none")
  /\ held' = 0
  /\ UNCHANGED <<callVars, pushing, logs, asked, quit, done, answer, delivered>>

\* Faulty variant: the inner select does not wait for quit.
OnlyBetweenLogs == {"select"}

HeedsQuit == {"select", "forward"}

WatchQuits ==
  /\ pc \in HeedsQuit
  /\ quit
  /\ End("none")
  /\ held' = 0
  /\ UNCHANGED <<callVars, pushing, logs, asked, quit, done, answer, delivered>>

-----------------------------------------------------------------------------
(* ParseX, for one log after the other, as found in a receipt: it looks at  *)
(* the signature and not at the contract.                                   *)

Parse ==
  /\ use = "parse"
  /\ \E p \in pushing :
       /\ Comes(p)
       /\ delivered' = IF CanUnpack(p) THEN Append(delivered, Event(p)) ELSE delivered
  /\ UNCHANGED <<callVars, logs, err, asked, quit, pc, done, fail, held, answer>>

-----------------------------------------------------------------------------

NextStep == NextFailed \/ NextTakes \/ NextFindsNothing \/ NextCompletes

WatchStep == WatchTakes \/ WatchFails \/ WatchQuits

Next ==
  \/ Push \/ PushingEnds \/ NodeEnds
  \/ Open \/ Close \/ CallNext \/ Forward \/ Parse
  \/ NextStep \/ WatchStep

Spec == Init /\ [][Next]_vars

\* The goroutines run; the node need not fail, nor the caller call or receive.
Fairness ==
  WF_vars(Push) /\ WF_vars(PushingEnds) /\ WF_vars(NextStep)
  /\ WF_vars(WatchStep) /\ WF_vars(WatchQuits)

FairSpec == Spec /\ Fairness

-----------------------------------------------------------------------------
(* Properties.                                                              *)

\* Types; the watching goroutine holds an event exactly while it forwards it,
\* and leaves no subscription behind (entrypoint.go:2071-2096).
TypeOK ==
  /\ use \in Uses
  /\ binding \in Bindings
  /\ rules \in RulesFor(binding)
  /\ chain \in SeqOf(LogsFor(binding), MaxLogs)
  /\ pushing \subseteq DOMAIN chain
  /\ logs \in Seq(DOMAIN chain) /\ Len(logs) <= Buffer
  /\ err \in {"open", "failure", "closed"}
  /\ quit \in BOOLEAN /\ asked \in BOOLEAN /\ done \in BOOLEAN
  /\ use = "filter" => pc \in {"start", "failed", "idle", "next"}
  /\ use = "watch" => pc \in {"start", "failed", "select", "forward", "ended"}
  /\ use = "parse" => pc = "start"
  /\ fail \in {"none", "unpack", "node"}
  /\ pc = "ended" => err = "closed"
  /\ IF pc = "forward" THEN held \in DOMAIN chain ELSE held = 0
  /\ answer \in {"none", "true", "false"}
  /\ delivered \in Seq({Event(p) : p \in DOMAIN chain})

\* What the caller asked for, argument by argument; ParseX takes no rules and
\* does not look at the contract.
AskedFor(log) ==
  /\ log.event = binding.event
  /\ use # "parse" =>
       /\ log.from = "bound"
       /\ \A a \in DOMAIN rules : rules[a] = {} \/ log.args[a] \in rules[a]

\* Places of the events to deliver, and of the logs in their midst that do not
\* decode.
Expected == {p \in DOMAIN chain : AskedFor(chain[p]) /\ chain[p].decodes}

Bad == {p \in DOMAIN chain : AskedFor(chain[p]) /\ ~chain[p].decodes}

\* The caller has got the events at these places, each once, in the order of the
\* chain, and with every argument in its field.
Got(places) ==
  \E at \in [DOMAIN delivered -> places] :
    /\ places = {at[i] : i \in DOMAIN delivered}
    /\ \A i, j \in DOMAIN delivered : i < j => at[i] < at[j]
    /\ \A i \in DOMAIN delivered :
         delivered[i] = [raw |-> chain[at[i]], fields |-> chain[at[i]].args]

\* The caller gets exactly the events it asked for, in order, up to the point
\* reached: a rule stands for the argument whose name it has, for each of the
\* events (entrypoint.go:2039, 2066).
DeliversInOrder ==
  \E places \in SUBSET Expected :
    Got(places) /\ \A p \in places, q \in Expected \ places : p < q

\* The caller has got everything before the first log that does not decode, and
\* there is one.
GotAllBeforeBad ==
  \E b \in Bad : (\A c \in Bad : b <= c) /\ Got({p \in Expected : p < b})

\* When Next returns false before any Close, Error tells the truth: without an
\* error the caller has got everything, although sub.Err() may have been taken
\* while logs were waiting; with one it has got everything before the log that
\* did not decode, and there is one (entrypoint.go:1966-1997).
FalseTellsTheTruth ==
  use = "filter" /\ answer = "false" /\ ~asked =>
    IF fail = "none" THEN Got(Expected) ELSE GotAllBeforeBad

\* A failure is final: after it nothing is delivered, and the error that Error
\* returns stays (entrypoint.go:1962-1964, 2077-2085).
FailureIsFinal ==
  [][fail # "none" => fail' = fail /\ delivered' = delivered]_vars

\* Places of the logs that are still to come to the caller.
Remaining ==
  pushing \cup {logs[i] : i \in DOMAIN logs} \cup (IF pc = "forward" THEN {held} ELSE {})

\* Logs go through the channel in their order, to be forwarded one by one.
InOrder ==
  /\ \A i, j \in DOMAIN logs : i < j => logs[i] < logs[j]
  /\ \A i \in DOMAIN logs : \A p \in pushing : logs[i] < p
  /\ pc = "forward" =>
       held \in Expected /\ \A p \in pushing \cup {logs[i] : i \in DOMAIN logs} : held < p

\* Events may still come.
Running == use = "parse" \/ (pc \in {"idle", "next", "select", "forward"} /\ fail = "none")

\* What was pushed and is not waiting has been delivered: all before what waits.
NothingIsLost ==
  /\ Running => Got(Expected \ Remaining) /\ \A p \in Expected \ Remaining, q \in Remaining : p < q
  /\ use # "parse" => Remaining \subseteq Expected \cup Bad
  /\ Running /\ use # "parse" => Bad \subseteq Remaining
  /\ use # "parse" /\ pc = "start" => Remaining = {} /\ delivered = <<>>
  /\ use = "filter" /\ fail # "none" => GotAllBeforeBad

\* The iterator's subscription ends when all is pushed or the caller wants no
\* more, and Next finds nothing only after that.
EndsAfterLast ==
  /\ quit => asked
  /\ use = "parse" => err = "closed" /\ logs = <<>>
  /\ use = "filter" =>
       /\ err # "failure"
       /\ pc \in {"idle", "next"} /\ err = "closed" /\ ~asked => pushing = {}
       /\ done => err = "closed" /\ pc \in {"idle", "next"}
       /\ answer = "false" /\ fail = "none" => done /\ logs = <<>>
  /\ pc \notin {"idle", "next", "ended"} => fail = "none"

\* The inductive invariant behind the properties above, for the code that abigen
\* writes for every event (entrypoint.go:1948-2118).
Streams == InOrder /\ DeliversInOrder /\ NothingIsLost /\ EndsAfterLast

\* Next always returns: it waits only while the subscription is open
\* (entrypoint.go:1966-1997).
NextReturns == pc = "next" ~> pc # "next"

\* Close and Unsubscribe end the goroutine behind them, though nobody reads
\* its channel any more (entrypoint.go:2007, 2071-2093).
CloseReleases == asked ~> err = "closed"
=============================================================================
