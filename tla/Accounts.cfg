\* Two goroutines; two clients of one factory on a cache of one entry for two keys, and a
\* client of another factory without a cache.
SPECIFICATION Spec
CONSTANTS
  g1 = g1
  g2 = g2
  c1 = c1
  c2 = c2
  c3 = c3
  f1 = f1
  f2 = f2
  k1 = k1
  k2 = k2
  Nil = Nil
  Goroutines <- TwoGoroutines
  Clients <- ThreeClients
  WithCache <- TwoClients
  Salts <- OneSalt
  Factory <- SharedFactory
  Keys <- TwoKeys
  Capacity = 1
  MaxCalls = 4
INVARIANTS
  TypeOK
  AnswersAreRight
CHECK_DEADLOCK FALSE
