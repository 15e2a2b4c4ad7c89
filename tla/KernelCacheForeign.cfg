SPECIFICATION Spec
CONSTANTS
  Threads = {t1, t2}
  k1 = k1  k2 = k2
  Keys = {k1}
  Stems = {"gemm"}
  Stem <- OneKeyStem
  Registry = {"gemm"}
  PtxRegistry = {"gemm"}
  Addrs = {1}
  Paths = {"raw"}
  MaxInst = 2
  MaxGen = 2
  Watched = 1
  NoThread = NoThread  NoHandle = NoHandle  Err = Err
INVARIANTS ForeignContextsCovered
