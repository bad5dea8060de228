------------------------------ MODULE OpLedger ------------------------------
(***************************************************************************)
(* What a program may rely on when it sends UserOperation objects through   *)
(* the SDK, however often it retries: each account executes objects of its  *)
(* own, one after the other and none twice, and an object is lost only to   *)
(* another one of its account that executes in its place, and then for good. *)
(* Calls, nonces, signatures, requests and the bundler are out of sight.    *)
(***************************************************************************)
EXTENDS Sequences

CONSTANTS
  Ops,       (* the objects                                                *)
  Accounts,  (* the accounts                                               *)
  Sender     (* Sender[o]: the account of object o                         *)

VARIABLES
  order,  \* order[a]: the objects account a has executed
  lost    \* objects that will never execute

ledgerVars == <<order, lost>>

LedgerInit ==
  /\ order = [a \in Accounts |-> <<>>]
  /\ lost = {}

HasExecuted(o) == \E a \in Accounts : \E i \in DOMAIN order[a] : order[a][i] = o

Execute(a, o, losers) ==
  /\ Sender[o] = a
  /\ o \notin lost /\ ~HasExecuted(o)
  /\ order' = [order EXCEPT ![a] = Append(@, o)]
  /\ \A p \in losers : p # o /\ Sender[p] = a /\ ~HasExecuted(p)
  /\ lost' = lost \cup losers

LedgerNext ==
  \E a \in Accounts, o \in Ops, losers \in SUBSET Ops : Execute(a, o, losers)

LedgerSpec == LedgerInit /\ [][LedgerNext]_ledgerVars
=============================================================================
