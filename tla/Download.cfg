SPECIFICATION Spec
CONSTANTS
  p1 = p1  t1 = t1  t2 = t2  t3 = t3
  NoFile = NoFile
  Threads <- ThreeThreads
  Attempts = 2
  Procs <- OneProc
  Owner <- OwnedByOne
  ChunkCount = 3
  Budget = 3
  Files = {f1, f2, f3}
  MaxCrashes = 1
PROPERTIES ImplementsAtomicReplace Terminates
