\* Each server with small constants of its own; the designs do not interact.
SPECIFICATION Spec
CONSTANTS
  Nodeslots = {0, 1}
  NeighbourCounts = {1, 3}
  ADJ_QUEUE_DEPTH = 2
  MESSAGE_QUEUE_DEPTH = 2
  NoTag = NoTag
  DEPTH = 2
  NoPtr = NoPtr
  MaxWraps = 2
  CYCLES_BETWEEN_REFRESH = 20
  INIT_WAIT = 3
  REFRESH_WAIT = 2
  AG_WB_BOUND = 8
  Features = 4
  ROWS = 10
  Registers = {x0, x1}
  AluOps = {"add", "xnor"}
  alu_op_names = {"add"}
  NotSeen = NotSeen
  Words = {add, lui, bad, nop}
  Typed = {add, lui}
  Listed = {add}
  None = None
  NoInsn = nop
  KeptInsns = 3
  Cycles = 1
  Unchanged = 2
  MaxInsns = 1
INVARIANTS
  AllocatedHeld
  WrapsInOrder
  WithinDepth
  ProtocolOrder
  RefreshInTime
  OneAccess
  LaterBurstMeasured
  SeenIsDone
  BufferKept
PROPERTIES
  OnlyRefusedFetch
  RefusalsCounted
