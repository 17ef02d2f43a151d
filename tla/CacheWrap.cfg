SPECIFICATION Spec
CONSTANTS
  w1 = w1  w2 = w2  dev = dev  b1 = b1  b2 = b2  l1 = l1  l2 = l2  l3 = l3
  None = None
  Words = {w1, w2, dev}
  Pmem = {w1, w2}
  MayFail = {dev}
  Bytes = {b1, b2}
  Values = {v1, v2}
  Lines = {0}
  LineOf <- OneLine
  LoadTokens = {l1, l2, l3}
  Gens = 4
  FirstGen = 0
  MaxStores = 2
  Workloads <- WrapWorkloads
SYMMETRY Names
INVARIANTS
  ShownLineIsMemory
