CONSTANTS
  N = 4
  Nodes <- MCNodes
  Sync <- Root
  Requests <- TwoRequests
  Codes = {5}
  Graphs <- MCGraphs
  MaxWidths = {1, 2, 20}
SPECIFICATION Spec
INVARIANTS LookupFound ConsumersFirst TapeComplete FencesMarked
PROPERTY Terminates
