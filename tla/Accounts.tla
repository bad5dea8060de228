------------------------------ MODULE Accounts ------------------------------
(***************************************************************************)
(* Smart account addresses: GetAccount (client.go) with its LRU cache       *)
(* (cache.go), shared by the goroutines and clients it was given to.  The   *)
(* cache is tested and filled in two steps with a node call in between.     *)
(*                                                                         *)
(* An address is the record of what CREATE2 derives it from: the factory,   *)
(* the owner given to the factory and the salt.                             *)
(***************************************************************************)
EXTENDS Naturals, Sequences

CONSTANTS
  Goroutines,  (* callers                                                  *)
  Clients,     (* clients of the program                                   *)
  WithCache,   (* clients that were given the cache; the others have none  *)
  Factory,     (* Factory[c]: Config.AccountFactory of client c            *)
  Keys,        (* addresses of externally owned accounts                   *)
  Salts,       (* salts of accounts                                        *)
  Capacity,    (* maxSize of the cache                                     *)
  MaxCalls,    (* bound: calls made over a behaviour                       *)
  Nil          (* no address: the zero address beside an error             *)

Address(c, owner, salt) == [factory |-> Factory[c], owner |-> owner, salt |-> salt]

\* What GetAccount returns for the keys, on each client.
Accounts == {Address(c, k, s) : c \in Clients, k \in Keys, s \in Salts}

ASSUME AccountsAssumption ==
  /\ Nil \notin Keys \cup Accounts
  /\ Keys \cap Accounts = {}
  /\ WithCache \subseteq Clients
  /\ Capacity \in Nat \ {0}
  /\ MaxCalls \in Nat

VARIABLES
  cache,     \* the entries of the LRU cache, the most recently used first
  call,      \* call[g]: the call goroutine g is in, or its outcome
  calls      \* number of calls made (bounds the model)

vars == <<cache, call, calls>>

Quiet == [pc |-> "idle"]

Init ==
  /\ cache = <<>>
  /\ call = [g \in Goroutines |-> Quiet]
  /\ calls = 0

At(g, pc) == call[g].pc = pc

\* The call returns: its arguments stay for the properties to look at.
Return(g, status, address) ==
  call' = [call EXCEPT ![g].pc = "done", ![g].status = status, ![g].address = address]

Begin(g, pc, c, owner, salt) ==
  /\ At(g, "idle") \/ At(g, "done")
  /\ calls < MaxCalls
  /\ calls' = calls + 1
  /\ call' = [call EXCEPT ![g] =
       [pc |-> pc, client |-> c, owner |-> owner, salt |-> salt,
        status |-> "none", address |-> Nil]]

-----------------------------------------------------------------------------
(* The LRU cache (external: hashicorp/golang-lru), safe for concurrent use.  *)

\* The cache key: owner and salt.
CacheKey(g) == <<call[g].owner, call[g].salt>>

Cached(key) == \E i \in DOMAIN cache : cache[i].key = key

Position(key) == CHOOSE i \in DOMAIN cache : cache[i].key = key

Lookup(key) == cache[Position(key)].address

\* The entries of the other keys; no key has two.
Others(key) ==
  IF Cached(key)
  THEN SubSeq(cache, 1, Position(key) - 1) \o SubSeq(cache, Position(key) + 1, Len(cache))
  ELSE cache

\* Using an entry puts it in front; what is over the capacity is evicted.
Use(key, address) ==
  LET entries == <<[key |-> key, address |-> address]>> \o Others(key)
  IN  cache' = IF Len(entries) > Capacity THEN SubSeq(entries, 1, Capacity) ELSE entries

-----------------------------------------------------------------------------
(* GetAccount.                                                              *)

GetAccount(g, c, k, s) ==
  /\ Begin(g, IF c \in WithCache THEN "lookup" ELSE "query", c, k, s)
  /\ UNCHANGED cache

LookupHits(g) ==
  /\ At(g, "lookup")
  /\ Cached(CacheKey(g))
  /\ Use(CacheKey(g), Lookup(CacheKey(g)))
  /\ Return(g, "ok", Lookup(CacheKey(g)))
  /\ UNCHANGED calls

LookupMisses(g) ==
  /\ At(g, "lookup")
  /\ ~Cached(CacheKey(g))
  /\ call' = [call EXCEPT ![g].pc = "query"]
  /\ UNCHANGED <<cache, calls>>

\* The factory's getAddress answers.
QueryAnswers(g) ==
  /\ At(g, "query")
  /\ LET address == Address(call[g].client, call[g].owner, call[g].salt)
     IN  IF call[g].client \in WithCache
         THEN call' = [call EXCEPT ![g].pc = "store", ![g].address = address]
         ELSE Return(g, "ok", address)
  /\ UNCHANGED <<cache, calls>>

\* Faulty variant: the zero address of a failed query is stored.
CacheFailure(g) == Use(CacheKey(g), Nil)

KeepCache(g) == UNCHANGED cache

QueryFails(g) ==
  /\ At(g, "query")
  /\ Return(g, "error", Nil)
  /\ KeepCache(g)
  /\ UNCHANGED calls

Store(g) ==
  /\ At(g, "store")
  /\ Use(CacheKey(g), call[g].address)
  /\ Return(g, "ok", call[g].address)
  /\ UNCHANGED calls

-----------------------------------------------------------------------------

Step(g) ==
  \/ LookupHits(g) \/ LookupMisses(g) \/ QueryAnswers(g) \/ QueryFails(g) \/ Store(g)

Next ==
  \E g \in Goroutines :
    \/ Step(g)
    \/ \E c \in Clients, k \in Keys, s \in Salts : GetAccount(g, c, k, s)

Spec == Init /\ [][Next]_vars

-----------------------------------------------------------------------------
(* Properties.                                                              *)

CacheKeys == Keys \X Salts

Calls ==
  [pc : {"lookup", "query", "store", "done"}, client : Clients, owner : Keys, salt : Salts,
   status : {"none", "ok", "error"}, address : Accounts \cup {Nil}]

\* The cache holds at most its size of distinct keys and no zero address, and a
\* call past the node's answer carries an address (client.go:83-97, cache.go).
TypeOK ==
  /\ cache \in Seq([key : CacheKeys, address : Accounts])
  /\ Len(cache) <= Capacity
  /\ \A i, j \in DOMAIN cache : cache[i].key = cache[j].key => i = j
  /\ calls \in 0 .. MaxCalls
  /\ DOMAIN call = Goroutines
  /\ \A g \in Goroutines : call[g] = Quiet \/
       /\ call[g] \in Calls
       /\ At(g, "store") => call[g].address # Nil

\* GetAccount gives the address the client's own factory computes, from the
\* cache as from the node, whatever other goroutines and clients look up, fail
\* to look up or evict meanwhile (client.go:83-97).
AnswersAreRight ==
  \A g \in Goroutines : At(g, "done") /\ call[g].status = "ok" =>
    call[g].address = Address(call[g].client, call[g].owner, call[g].salt)

\* The clients whose answers c may get: its own, and through the cache those of
\* all that have it.
Peers(c) == IF c \in WithCache THEN WithCache ELSE {c}

\* Whatever their factories are, an entry of the cache is what one of its clients
\* would be told by the node, and an answer what a peer would be, for the owner
\* and salt in question (client.go:83-97).
AnswersComeFromPeers ==
  /\ \A i \in DOMAIN cache :
       \E c \in WithCache : cache[i].address = Address(c, cache[i].key[1], cache[i].key[2])
  /\ \A g \in Goroutines : call[g].pc \in {"lookup", "store"} => call[g].client \in WithCache
  /\ \A g \in Goroutines : At(g, "store") =>
       call[g].address = Address(call[g].client, call[g].owner, call[g].salt)
  /\ \A g \in Goroutines : At(g, "done") /\ call[g].status = "ok" =>
       \E c \in Peers(call[g].client) :
         call[g].address = Address(c, call[g].owner, call[g].salt)
=============================================================================
