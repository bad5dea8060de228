\* Two clients with different factories on one cache.
SPECIFICATION Spec
CONSTANTS
  g1 = g1
  g2 = g2
  c1 = c1
  c2 = c2
  c3 = c3
  f1 = f1
  f2 = f2
  k1 = k1
  k2 = k2
  Nil = Nil
  Goroutines <- TwoGoroutines
  Clients <- ThreeClients
  WithCache <- TwoClients
  Salts <- OneSalt
  Factory <- TwoFactories
  Keys <- OneKey
  Capacity = 1
  MaxCalls = 2
INVARIANT
  AnswersAreRight
CHECK_DEADLOCK FALSE
