SPECIFICATION Spec
CONSTANTS
  a1 = a1 b1 = b1 c1 = c1 c2 = c2 one = one two = two three = three
  w1 = w1 w2 = w2 d1 = d1 d2 = d2
  Tasks = {a1, b1, c1, c2}
  Runs = {one, two, three}
  Projects = {1, 2}
  Workers = {w1, w2}
  Drains = {d1, d2}
  RunOf <- MCRunOf
  ProjectOf <- MCProjectOf
  WorkerOf <- MCWorkerOf
  MaxRuns <- MCMaxRuns
  NoLimit = NoLimit
  Batch = 2
  Concurrency = 3
  TTL = 2
  MaxAge = 1
  MaxFaults = 0
SYMMETRY Symmetry
INVARIANTS ClaimInv ExclusiveLease SlotsWithinLimit NoCircularWait
