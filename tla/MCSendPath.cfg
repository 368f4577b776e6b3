SPECIFICATION Spec
CONSTANTS
  BUFFER_SIZE = 8
  FLUSH_LEVEL = 2
  PIPE_SIZE = 2
  HEADER = 1
  TRAILER = 3
  MaxLen = 1
  Preempt = FALSE
INVARIANTS TypeOK SendBufferBounded ReceiveBufferBounded WholeFrames
