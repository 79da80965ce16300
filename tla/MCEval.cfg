CONSTANTS
  l = l
  a = a
  b = b
  c1 = c1
  c2 = c2
  d = d
  s1 = s1
  s2 = s2
  Sync = Sync
  Arrays <- MCArrays
  Leaves <- MCLeaves
  Inputs <- MCInputs
  Outputs <- MCOutputs
  Views <- MCViews
  Streams <- MCStreams
  StreamOf <- MCStreamOf
  Requests <- AllRequests
  Failing <- None
  MaxActive = 1
  PerTask = 2
  MaxEvals = 2
  MaxSyncs = 0
SPECIFICATION Spec
INVARIANTS TypeOK InputsComputed SafeToRead FenceWaitCovered
PROPERTY ImplementsDataflow
