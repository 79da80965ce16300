CONSTANTS
  leaf = leaf
  fork = fork
  used = used
  spare = spare
  place = place
  view = view
  join = join
  s1 = s1
  s2 = s2
  Sync = Sync
  Arrays <- MCArrays
  Leaves <- MCLeaves
  Inputs <- MCInputs
  Outputs <- MCOutputs
  Views <- MCViews
  Streams <- MCStreams
  StreamOf <- MCStreamOf
  Requests <- MCRequests
  Failing <- None
  InPlace <- MCInPlace
  Kept <- MCKept
  MaxActive = 20
  PerTask = 20
  MaxEvals = 2
  MaxSyncs = 0
SPECIFICATION MemSpec
INVARIANTS InputsIntact HeldIntact KernelsOwnBuffers
