SPECIFICATION Spec
CONSTANTS
  Threads = {t1, t2}
  k1 = k1  k2 = k2
  Keys = {k1, k2}
  Stems = {"gemm", "unknown"}
  Stem <- KnownAndUnknown
  Registry = {"gemm"}
  PtxRegistry = {"gemm"}
  Addrs = {1}
  Paths = {"fn", "raw"}
  MaxInst = 2
  MaxGen = 1
  Watched = 1
  NoThread = NoThread  NoHandle = NoHandle  Err = Err
SYMMETRY ThreadSymmetry
INVARIANTS TypeOK FnEntriesPinContext LoadedOnce UnwrapFindsMap LoadReadsWholeFile OnlyFailedJitLeavesFile
PROPERTIES LoadKernelIsOnceLoader
