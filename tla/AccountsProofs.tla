--------------------------- MODULE AccountsProofs ---------------------------
(* Proofs about Accounts, for any clients, factories, owners, salts and cache *)
(* size: what the LRU cache holds, and which answers GetAccount gives.       *)
EXTENDS Accounts, SequenceTheorems, TLAPS

Entries == [key : CacheKeys, address : Accounts]

Unique(s) == \A i, j \in DOMAIN s : s[i].key = s[j].key => i = j

-----------------------------------------------------------------------------
(* The cache.                                                               *)

\* Where a cached key is.
LEMMA PositionFound ==
  ASSUME NEW key, Cached(key)
  PROVE  Position(key) \in DOMAIN cache /\ cache[Position(key)].key = key
BY DEF Cached, Position

\* Others gives the entries of the other keys, each from one place.
LEMMA OthersFromCache ==
  ASSUME cache \in Seq(Entries), Unique(cache), NEW key
  PROVE  /\ Others(key) \in Seq(Entries)
         /\ Unique(Others(key))
         /\ \A i \in DOMAIN Others(key) :
              /\ Others(key)[i].key # key
              /\ \E j \in DOMAIN cache : Others(key)[i] = cache[j]
<1>1. CASE ~Cached(key)
  BY <1>1 DEF Others, Cached
<1>2. CASE Cached(key)
  <2> DEFINE p == Position(key)
             front == SubSeq(cache, 1, p - 1)
             back == SubSeq(cache, p + 1, Len(cache))
  <2>1. Len(cache) \in Nat /\ DOMAIN cache = 1 .. Len(cache) /\ \A i \in DOMAIN cache : cache[i] \in Entries
    BY LenProperties, ElementOfSeq
  <2>2. p \in 1 .. Len(cache) /\ cache[p].key = key
    BY <1>2, <2>1, PositionFound
  <2>3. Others(key) = front \o back
    BY <1>2 DEF Others
  <2> HIDE DEF p
  <2>4. /\ front \in Seq(Entries) /\ Len(front) = p - 1
        /\ \A i \in 1 .. p - 1 : front[i] = cache[i]
    <3>1. 1 \in Int /\ p - 1 \in Int /\ \A i \in 1 .. p - 1 : cache[i] \in Entries
      BY <2>1, <2>2
    <3> QED
      BY <2>2, <3>1, SubSeqProperties
  <2>5. /\ back \in Seq(Entries) /\ Len(back) = Len(cache) - p
        /\ \A i \in 1 .. Len(cache) - p : back[i] = cache[i + p]
    <3>1. p + 1 \in Int /\ Len(cache) \in Int /\ \A i \in p + 1 .. Len(cache) : cache[i] \in Entries
      BY <2>1, <2>2
    <3>2. /\ back \in Seq(Entries)
          /\ Len(back) = IF p + 1 <= Len(cache) THEN Len(cache) - (p + 1) + 1 ELSE 0
          /\ \A i \in 1 .. Len(cache) - (p + 1) + 1 : back[i] = cache[p + 1 + i - 1]
      BY <3>1, SubSeqProperties
    <3>3. /\ Len(cache) - (p + 1) + 1 = Len(cache) - p
          /\ ~(p + 1 <= Len(cache)) => Len(cache) - p = 0
          /\ \A i \in 1 .. Len(cache) - p : p + 1 + i - 1 = i + p
      <4>1. p \in Int /\ Len(cache) \in Int /\ p <= Len(cache)
        BY <2>1, <2>2
      <4> QED
        BY ONLY <4>1
    <3> QED
      BY ONLY <3>2, <3>3
  <2> DEFINE from(i) == IF i < p THEN i ELSE i + 1
  <2> HIDE DEF front, back
  <2>6. /\ front \o back \in Seq(Entries) /\ DOMAIN (front \o back) = 1 .. Len(cache) - 1
        /\ \A i \in 1 .. Len(cache) - 1 :
             (front \o back)[i] = IF i <= p - 1 THEN front[i] ELSE back[i - (p - 1)]
    <3>1. /\ front \o back \in Seq(Entries) /\ Len(front \o back) = Len(front) + Len(back)
          /\ \A i \in 1 .. Len(front) + Len(back) :
               (front \o back)[i] = IF i <= Len(front) THEN front[i] ELSE back[i - Len(front)]
      BY <2>4, <2>5, ConcatProperties
    <3>2. DOMAIN (front \o back) = 1 .. Len(front \o back)
      BY <3>1, LenProperties
    <3>3. Len(front) + Len(back) = Len(cache) - 1 /\ Len(front) = p - 1
      BY <2>1, <2>2, <2>4, <2>5
    <3> QED
      BY <3>1, <3>2, <3>3
  <2>7. ASSUME NEW i \in 1 .. Len(cache) - 1
        PROVE  (front \o back)[i] = cache[from(i)] /\ from(i) \in DOMAIN cache /\ from(i) # p
    <3>1. CASE i < p
      <4>1. i <= p - 1 /\ i \in 1 .. p - 1 /\ i \in DOMAIN cache /\ i # p
        BY <2>1, <2>2, <3>1
      <4>2. front[i] = cache[i]
        BY <2>4, <4>1
      <4> QED
        BY <2>6, <3>1, <4>1, <4>2
    <3>2. CASE ~(i < p)
      <4>1. /\ ~(i <= p - 1) /\ i - (p - 1) \in 1 .. Len(cache) - p /\ i - (p - 1) + p = i + 1
            /\ i + 1 \in DOMAIN cache /\ i + 1 # p
        BY <2>1, <2>2, <3>2
      <4>2. back[i - (p - 1)] = cache[i + 1]
        BY <2>5, <4>1
      <4> QED
        BY <2>6, <3>2, <4>1, <4>2
    <3> QED
      BY <3>1, <3>2
  <2>8. \A i \in 1 .. Len(cache) - 1 : (front \o back)[i].key # key
    BY <2>1, <2>2, <2>7 DEF Unique
  <2>9. \A i, j \in 1 .. Len(cache) - 1 : from(i) = from(j) => i = j
    BY <2>1, <2>2
  <2> HIDE DEF from
  <2>10. Unique(front \o back)
    <3> SUFFICES ASSUME NEW i \in 1 .. Len(cache) - 1, NEW j \in 1 .. Len(cache) - 1,
                        (front \o back)[i].key = (front \o back)[j].key
                 PROVE  i = j
      BY <2>6 DEF Unique
    <3>1. cache[from(i)].key = cache[from(j)].key
      BY <2>7
    <3>2. from(i) = from(j)
      BY <2>7, <3>1 DEF Unique
    <3> QED
      BY <2>9, <3>2
  <2> QED
    BY <2>3, <2>6, <2>7, <2>8, <2>10
<1> QED
  BY <1>1, <1>2

\* After a use, the cache holds the entry used and some of those it held.
LEMMA UseEffect ==
  ASSUME AccountsAssumption, cache \in Seq(Entries), Unique(cache),
         NEW key \in CacheKeys, NEW address \in Accounts, Use(key, address)
  PROVE  /\ cache' \in Seq(Entries) /\ Len(cache') <= Capacity /\ Unique(cache')
         /\ \A i \in DOMAIN cache' :
              \/ cache'[i] = [key |-> key, address |-> address]
              \/ \E j \in DOMAIN cache : cache'[i] = cache[j]
<1> DEFINE entry == [key |-> key, address |-> address]
           rest == Others(key)
           entries == <<entry>> \o rest
<1>1. entry \in Entries /\ entry.key = key
  BY DEF Entries
<1>2. /\ rest \in Seq(Entries) /\ Unique(rest) /\ \A i \in DOMAIN rest : rest[i].key # key
      /\ \A i \in DOMAIN rest : \E j \in DOMAIN cache : rest[i] = cache[j]
  BY OthersFromCache
<1>3. cache' = IF Len(entries) > Capacity THEN SubSeq(entries, 1, Capacity) ELSE entries
  BY DEF Use
<1>4. Capacity \in Nat \ {0}
  BY DEF AccountsAssumption
<1> HIDE DEF rest, entry
<1>5. <<entry>> \in Seq(Entries) /\ Len(<<entry>>) = 1 /\ <<entry>>[1] = entry
  BY <1>1
<1>6. /\ entries \in Seq(Entries) /\ Len(entries) = Len(rest) + 1
      /\ Len(rest) \in Nat /\ DOMAIN rest = 1 .. Len(rest) /\ DOMAIN entries = 1 .. Len(entries)
  BY <1>2, <1>5, ConcatProperties, LenProperties
<1>7. entries[1] = entry /\ \A i \in 2 .. Len(entries) : entries[i] = rest[i - 1]
  BY <1>2, <1>5, <1>6, ConcatProperties
<1> HIDE DEF entries
<1>8. ASSUME NEW i \in DOMAIN entries
      PROVE  \/ i = 1 /\ entries[i] = entry
             \/ i - 1 \in DOMAIN rest /\ entries[i] = rest[i - 1]
  BY <1>6, <1>7
<1>12. ASSUME NEW i \in DOMAIN entries
       PROVE  entries[i] = entry \/ \E j \in DOMAIN cache : entries[i] = cache[j]
  BY <1>2, <1>8
<1>9. Unique(entries)
  <2> SUFFICES ASSUME NEW i \in DOMAIN entries, NEW j \in DOMAIN entries,
                      entries[i].key = entries[j].key
               PROVE  i = j
    BY DEF Unique
  <2>1. \/ i = 1 /\ entries[i] = entry
        \/ i - 1 \in DOMAIN rest /\ entries[i] = rest[i - 1]
    BY <1>8
  <2>2. \/ j = 1 /\ entries[j] = entry
        \/ j - 1 \in DOMAIN rest /\ entries[j] = rest[j - 1]
    BY <1>8
  <2>3. (i = 1 /\ j = 1) \/ i - 1 = j - 1
    BY <1>1, <1>2, <2>1, <2>2 DEF Unique
  <2> QED
    BY <1>6, <2>3
<1>10. CASE Len(entries) > Capacity
  <2>1. 1 \in Int /\ Capacity \in Int /\ \A i \in 1 .. Capacity : entries[i] \in Entries
    BY <1>4, <1>6, <1>10, ElementOfSeq
  <2>2. /\ cache' \in Seq(Entries) /\ Len(cache') = Capacity
        /\ \A i \in 1 .. Capacity : cache'[i] = entries[i]
    BY <1>3, <1>4, <1>10, <2>1, SubSeqProperties
  <2>3. DOMAIN cache' = 1 .. Capacity /\ 1 .. Capacity \subseteq DOMAIN entries
    BY <1>4, <1>6, <1>10, <2>2, LenProperties
  <2> QED
    BY <1>4, <1>12, <1>9, <2>2, <2>3 DEF Unique, entry
<1>11. CASE ~(Len(entries) > Capacity)
  BY <1>3, <1>4, <1>6, <1>12, <1>9, <1>11 DEF entry
<1> QED
  BY <1>10, <1>11

-----------------------------------------------------------------------------
(* The calls.                                                               *)

Invariant == TypeOK /\ AnswersComeFromPeers

\* Begin puts a call of the right type in place, and nothing else.
LEMMA GetAccountEffect ==
  ASSUME AccountsAssumption, TypeOK, NEW g \in Goroutines, NEW c \in Clients,
         NEW k \in Keys, NEW s \in Salts, GetAccount(g, c, k, s)
  PROVE  /\ UNCHANGED cache /\ calls' \in 0 .. MaxCalls
         /\ DOMAIN call' = Goroutines /\ \A h \in Goroutines : h # g => call'[h] = call[h]
         /\ call'[g] \in Calls /\ call'[g].pc \in {"lookup", "query"}
         /\ call'[g].pc = "lookup" => call'[g].client \in WithCache
<1> DEFINE new == [pc |-> IF c \in WithCache THEN "lookup" ELSE "query",
                   client |-> c, owner |-> k, salt |-> s, status |-> "none", address |-> Nil]
<1>1. call' = [call EXCEPT ![g] = new] /\ calls < MaxCalls /\ calls' = calls + 1 /\ cache' = cache
  BY DEF GetAccount, Begin
<1>2. new \in Calls /\ new.pc \in {"lookup", "query"} /\ new.client = c
      /\ (new.pc = "lookup" => c \in WithCache)
  BY DEF Calls
<1> HIDE DEF new
<1>3. DOMAIN call' = Goroutines /\ call'[g] = new /\ \A h \in Goroutines : h # g => call'[h] = call[h]
  BY <1>1 DEF TypeOK
<1>4. calls' \in 0 .. MaxCalls
  BY <1>1 DEF TypeOK, AccountsAssumption
<1> QED
  BY <1>1, <1>2, <1>3, <1>4

\* What the steps of a call have in common.
LEMMA StepEffect ==
  ASSUME TypeOK, NEW g \in Goroutines, Step(g)
  PROVE  /\ UNCHANGED calls /\ call[g] \in Calls /\ call[g].pc \in {"lookup", "query", "store"}
         /\ DOMAIN call' = Goroutines /\ \A h \in Goroutines : h # g => call'[h] = call[h]
         /\ call'[g].client = call[g].client /\ call'[g].owner = call[g].owner
         /\ call'[g].salt = call[g].salt
<1>1. call[g].pc \in {"lookup", "query", "store"}
  BY DEF Step, LookupHits, LookupMisses, QueryAnswers, QueryFails, Store, At
<1>2. call[g] \in Calls
  BY <1>1 DEF TypeOK, Quiet
<1>3. UNCHANGED calls
  BY DEF Step, LookupHits, LookupMisses, QueryAnswers, QueryFails, Store
<1>4. DOMAIN call' = Goroutines /\ \A h \in Goroutines : h # g => call'[h] = call[h]
  BY DEF Step, LookupHits, LookupMisses, QueryAnswers, QueryFails, Store, Return, TypeOK
<1>5. /\ call'[g].client = call[g].client /\ call'[g].owner = call[g].owner
      /\ call'[g].salt = call[g].salt
  BY <1>2 DEF Step, LookupHits, LookupMisses, QueryAnswers, QueryFails, Store, Return, TypeOK, Calls
<1> QED
  BY <1>1, <1>2, <1>3, <1>4, <1>5

\* The address for the call's own arguments is one of Accounts.
LEMMA OwnAddress ==
  ASSUME NEW c \in Calls
  PROVE  /\ <<c.owner, c.salt>> \in CacheKeys
         /\ \A d \in Clients : Address(d, c.owner, c.salt) \in Accounts
<1>1. c.owner \in Keys /\ c.salt \in Salts
  BY DEF Calls
<1> QED
  BY <1>1 DEF CacheKeys, Accounts

\* The invariant, of the cache and of each call.
CacheRight(entries) ==
  /\ entries \in Seq(Entries) /\ Len(entries) <= Capacity /\ Unique(entries)
  /\ \A i \in DOMAIN entries :
       \E c \in WithCache : entries[i].address = Address(c, entries[i].key[1], entries[i].key[2])

CallRight(c) ==
  /\ c \in Calls
  /\ c.pc \in {"lookup", "store"} => c.client \in WithCache
  /\ c.pc = "store" => c.address # Nil /\ c.address = Address(c.client, c.owner, c.salt)
  /\ c.pc = "done" /\ c.status = "ok" =>
       \E d \in Peers(c.client) : c.address = Address(d, c.owner, c.salt)

Parts(present, answers, made) ==
  /\ CacheRight(present) /\ made \in 0 .. MaxCalls /\ DOMAIN answers = Goroutines
  /\ \A g \in Goroutines : answers[g] = Quiet \/ CallRight(answers[g])

LEMMA InvariantParts == Invariant <=> Parts(cache, call, calls)
<1>1. ASSUME Invariant
      PROVE  Parts(cache, call, calls)
  <2>1. CacheRight(cache)
    BY <1>1 DEF Invariant, TypeOK, AnswersComeFromPeers, CacheRight, Unique, Entries
  <2>2. \A g \in Goroutines : call[g] = Quiet \/ CallRight(call[g])
    BY <1>1 DEF Invariant, TypeOK, AnswersComeFromPeers, CallRight, At
  <2> QED
    BY <1>1, <2>1, <2>2 DEF Invariant, TypeOK, Parts
<1>2. ASSUME Parts(cache, call, calls)
      PROVE  Invariant
  <2>1. \A g \in Goroutines : call[g] = Quiet \/ CallRight(call[g])
    BY <1>2 DEF Parts
  <2>2. TypeOK
    BY <1>2, <2>1 DEF Parts, CacheRight, CallRight, Unique, Entries, TypeOK, At
  <2>3. \A g \in Goroutines : call[g].pc = "idle" \/ CallRight(call[g])
    <3>1. Quiet.pc = "idle"
      BY DEF Quiet
    <3> QED
      BY ONLY <2>1, <3>1, Zenon
  <2>4. AnswersComeFromPeers
    BY <1>2, <2>3 DEF Parts, CacheRight, CallRight, AnswersComeFromPeers, At
  <2> QED
    BY <2>2, <2>4 DEF Invariant
<1> QED
  BY <1>1, <1>2

\* Using an entry computed by a client with the cache keeps the cache right.
LEMMA UseKeepsCacheRight ==
  ASSUME AccountsAssumption, CacheRight(cache), NEW c \in Calls, NEW d \in WithCache,
         Use(<<c.owner, c.salt>>, Address(d, c.owner, c.salt))
  PROVE  CacheRight(cache)'
<1> DEFINE key == <<c.owner, c.salt>>
           address == Address(d, c.owner, c.salt)
<1>1. d \in Clients
  BY DEF AccountsAssumption
<1>2. key \in CacheKeys /\ address \in Accounts
  BY <1>1, OwnAddress
<1>3. key[1] = c.owner /\ key[2] = c.salt
  OBVIOUS
<1>4. address = Address(d, key[1], key[2])
  BY <1>3
<1> HIDE DEF key, address
<1>5. /\ cache' \in Seq(Entries) /\ Len(cache') <= Capacity /\ Unique(cache')
      /\ \A i \in DOMAIN cache' :
           \/ cache'[i] = [key |-> key, address |-> address]
           \/ \E j \in DOMAIN cache : cache'[i] = cache[j]
  BY <1>2, UseEffect DEF CacheRight, key, address
<1>6. ASSUME NEW i \in DOMAIN cache'
      PROVE  \E e \in WithCache : cache'[i].address = Address(e, cache'[i].key[1], cache'[i].key[2])
  <2>1. CASE cache'[i] = [key |-> key, address |-> address]
    BY <1>4, <2>1
  <2>2. ASSUME NEW j \in DOMAIN cache, cache'[i] = cache[j]
        PROVE  \E e \in WithCache : cache'[i].address = Address(e, cache'[i].key[1], cache'[i].key[2])
    BY <2>2 DEF CacheRight
  <2> QED
    BY <1>5, <2>1, <2>2
<1> QED
  BY <1>5, <1>6 DEF CacheRight

\* What is found in the cache was computed by a client that has it.
LEMMA LookupRight ==
  ASSUME CacheRight(cache), NEW owner, NEW salt, Cached(<<owner, salt>>)
  PROVE  \E d \in WithCache : Lookup(<<owner, salt>>) = Address(d, owner, salt)
<1> DEFINE key == <<owner, salt>>
           p == Position(key)
<1>1. p \in DOMAIN cache /\ cache[p].key = key /\ Lookup(key) = cache[p].address
  BY PositionFound DEF Lookup
<1>2. key[1] = owner /\ key[2] = salt
  OBVIOUS
<1> HIDE DEF key, p
<1>3. PICK d \in WithCache : cache[p].address = Address(d, cache[p].key[1], cache[p].key[2])
  BY <1>1 DEF CacheRight
<1>4. Lookup(key) = Address(d, owner, salt)
  BY <1>1, <1>2, <1>3
<1> QED
  BY <1>4 DEF key

\* A step of a call leaves the call and the cache right.
LEMMA StepIsRight ==
  ASSUME AccountsAssumption, TypeOK, CacheRight(cache), NEW g \in Goroutines,
         CallRight(call[g]), Step(g)
  PROVE  CacheRight(cache)' /\ CallRight(call'[g])
<1> DEFINE c == call[g]
           key == <<c.owner, c.salt>>
           own == Address(c.client, c.owner, c.salt)
<1>1. c \in Calls /\ CacheKey(g) = key /\ g \in DOMAIN call
  BY DEF CallRight, CacheKey, TypeOK
<1>2. c.client \in Clients /\ WithCache \subseteq Clients /\ Nil \notin Accounts
      /\ c.client \in Peers(c.client)
  BY <1>1 DEF AccountsAssumption, Calls, Peers
<1>3. own \in Accounts /\ own # Nil /\ \A d \in WithCache : Address(d, c.owner, c.salt) \in Accounts
  BY <1>1, <1>2, OwnAddress
<1>4. ASSUME NEW status, NEW address, Return(g, status, address),
             status \in {"ok", "error"}, address \in Accounts \cup {Nil},
             status = "ok" => \E d \in Peers(c.client) : address = Address(d, c.owner, c.salt)
      PROVE  CallRight(call'[g])
  <2>1. call'[g] = [c EXCEPT !.pc = "done", !.status = status, !.address = address]
    BY <1>1, <1>4 DEF Return
  <2>2. /\ call'[g] \in Calls /\ call'[g].pc = "done" /\ call'[g].status = status
        /\ call'[g].address = address /\ call'[g].client = c.client
        /\ call'[g].owner = c.owner /\ call'[g].salt = c.salt
    BY <1>1, <1>4, <2>1 DEF Calls
  <2> QED
    BY <1>4, <2>2 DEF CallRight
<1>5. CASE LookupHits(g)
  <2>1. /\ At(g, "lookup") /\ Cached(key) /\ Use(key, Lookup(key)) /\ Return(g, "ok", Lookup(key))
    BY <1>1, <1>5 DEF LookupHits
  <2>2. c.client \in WithCache
    BY <2>1 DEF CallRight, At
  <2>3. PICK d \in WithCache : Lookup(key) = Address(d, c.owner, c.salt)
    BY <2>1, LookupRight
  <2>4. CacheRight(cache)'
    BY <1>1, <2>1, <2>3, UseKeepsCacheRight
  <2>5. d \in Peers(c.client)
    BY <2>2 DEF Peers
  <2>6. CallRight(call'[g])
    BY <1>3, <1>4, <2>1, <2>3, <2>5
  <2> QED
    BY <2>4, <2>6
<1>6. CASE LookupMisses(g)
  <2>1. call'[g] = [c EXCEPT !.pc = "query"] /\ cache' = cache
    BY <1>1, <1>6 DEF LookupMisses
  <2>2. call'[g] \in Calls /\ call'[g].pc = "query"
    BY <1>1, <2>1 DEF Calls
  <2> QED
    BY <2>1, <2>2 DEF CallRight
<1>7. CASE QueryAnswers(g)
  <2>1. cache' = cache
    BY <1>7 DEF QueryAnswers
  <2>2. CASE c.client \in WithCache
    <3>1. call'[g] = [c EXCEPT !.pc = "store", !.address = own]
      BY <1>1, <1>7, <2>2 DEF QueryAnswers
    <3>2. /\ call'[g] \in Calls /\ call'[g].pc = "store" /\ call'[g].address = own
          /\ call'[g].client = c.client /\ call'[g].owner = c.owner /\ call'[g].salt = c.salt
      BY <1>1, <1>3, <3>1 DEF Calls
    <3> QED
      BY <1>3, <2>1, <2>2, <3>2 DEF CallRight
  <2>3. CASE c.client \notin WithCache
    <3>1. Return(g, "ok", own)
      BY <1>7, <2>3 DEF QueryAnswers
    <3>2. CallRight(call'[g])
      BY <1>2, <1>3, <1>4, <3>1
    <3> QED
      BY <2>1, <3>2
  <2> QED
    BY <2>2, <2>3
<1>8. CASE QueryFails(g)
  <2>1. Return(g, "error", Nil) /\ cache' = cache
    BY <1>8 DEF QueryFails, KeepCache
  <2>2. CallRight(call'[g])
    BY <1>4, <2>1
  <2> QED
    BY <2>1, <2>2
<1>9. CASE Store(g)
  <2>1. At(g, "store") /\ Use(key, c.address) /\ Return(g, "ok", c.address)
    BY <1>1, <1>9 DEF Store
  <2>2. c.client \in WithCache /\ c.address = own
    BY <2>1 DEF CallRight, At
  <2>3. CacheRight(cache)'
    BY <1>1, <2>1, <2>2, UseKeepsCacheRight
  <2>4. CallRight(call'[g])
    BY <1>2, <1>3, <1>4, <2>1, <2>2
  <2> QED
    BY <2>3, <2>4
<1> QED
  BY <1>5, <1>6, <1>7, <1>8, <1>9 DEF Step

-----------------------------------------------------------------------------
(* The theorems.                                                            *)

LEMMA InitInvariant == Init => Invariant
<1> SUFFICES ASSUME Init
             PROVE  Invariant
  OBVIOUS
<1>1. cache = <<>> /\ <<>> \in Seq(Entries) /\ Len(cache) = 0 /\ DOMAIN cache = {}
  BY EmptySeq DEF Init
<1>2. CacheRight(cache)
  BY <1>1, AccountsAssumption DEF CacheRight, Unique, AccountsAssumption
<1>3. calls \in 0 .. MaxCalls /\ DOMAIN call = Goroutines /\ \A g \in Goroutines : call[g] = Quiet
  BY AccountsAssumption DEF Init, AccountsAssumption
<1> QED
  BY <1>2, <1>3, InvariantParts DEF Parts

LEMMA InvariantStep == Invariant /\ [Next]_vars => Invariant'
<1> SUFFICES ASSUME Invariant, [Next]_vars
             PROVE  Parts(cache, call, calls)'
  <2>1. Parts(cache, call, calls)' => Invariant'
    BY InvariantParts, PTL
  <2> QED
    BY <2>1
<1>1. /\ TypeOK /\ CacheRight(cache) /\ calls \in 0 .. MaxCalls /\ DOMAIN call = Goroutines
      /\ \A g \in Goroutines : call[g] = Quiet \/ CallRight(call[g])
  BY InvariantParts DEF Invariant, Parts
<1>2. ASSUME NEW g \in Goroutines, Step(g)
      PROVE  Parts(cache, call, calls)'
  <2>1. /\ UNCHANGED calls /\ call[g].pc \in {"lookup", "query", "store"}
        /\ DOMAIN call' = Goroutines /\ \A h \in Goroutines : h # g => call'[h] = call[h]
    BY <1>1, <1>2, StepEffect
  <2>2. CallRight(call[g])
    BY <1>1, <2>1 DEF Quiet
  <2>3. CacheRight(cache)' /\ CallRight(call'[g])
    BY <1>1, <1>2, <2>2, StepIsRight, AccountsAssumption
  <2> QED
    BY <1>1, <2>1, <2>3 DEF Parts
<1>3. ASSUME NEW g \in Goroutines, NEW c \in Clients, NEW k \in Keys, NEW s \in Salts,
             GetAccount(g, c, k, s)
      PROVE  Parts(cache, call, calls)'
  <2>1. /\ UNCHANGED cache /\ calls' \in 0 .. MaxCalls
        /\ DOMAIN call' = Goroutines /\ \A h \in Goroutines : h # g => call'[h] = call[h]
        /\ call'[g] \in Calls /\ call'[g].pc \in {"lookup", "query"}
        /\ call'[g].pc = "lookup" => call'[g].client \in WithCache
    BY <1>1, <1>3, GetAccountEffect, AccountsAssumption
  <2>2. CallRight(call'[g])
    BY <2>1 DEF CallRight
  <2> QED
    BY <1>1, <2>1, <2>2 DEF Parts
<1>4. CASE UNCHANGED vars
  BY <1>1, <1>4 DEF vars, Parts
<1> QED
  BY <1>2, <1>3, <1>4 DEF Next

LEMMA InvariantHolds == Spec => []Invariant
  BY InitInvariant, InvariantStep, PTL DEF Spec

\* TypeOK holds for any clients and cache size: the cache never exceeds its size
\* and has no key twice (client.go:83-97, cache.go).
THEOREM TypeCorrect == Spec => []TypeOK
<1>1. Invariant => TypeOK
  BY DEF Invariant
<1> QED
  BY <1>1, InvariantHolds, PTL

\* The inductive invariant, of any factories: what GetAccount answers, from the
\* cache or from the node, is what a client with that cache is told by its own
\* factory (client.go:83-97).
THEOREM PeersAnswer == Spec => []AnswersComeFromPeers
<1>1. Invariant => AnswersComeFromPeers
  BY DEF Invariant
<1> QED
  BY <1>1, InvariantHolds, PTL

\* GetAccount's answers are right when the clients on a cache have one factory;
\* the run accounts_two_factories shows that they must (client.go:83-97).
THEOREM AnswersRight ==
  ASSUME \A c, d \in WithCache : Factory[c] = Factory[d]
  PROVE  Spec => []AnswersAreRight
<1>1. ASSUME Invariant
      PROVE  AnswersAreRight
  <2> SUFFICES ASSUME NEW g \in Goroutines, At(g, "done"), call[g].status = "ok"
               PROVE  call[g].address = Address(call[g].client, call[g].owner, call[g].salt)
    BY DEF AnswersAreRight
  <2>1. PICK c \in Peers(call[g].client) : call[g].address = Address(c, call[g].owner, call[g].salt)
    BY <1>1 DEF Invariant, AnswersComeFromPeers
  <2>2. Factory[c] = Factory[call[g].client]
    BY DEF Peers
  <2> QED
    BY <2>1, <2>2 DEF Address
<1> QED
  BY <1>1, InvariantHolds, PTL

=============================================================================
