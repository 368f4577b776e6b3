SPECIFICATION Spec
CONSTANTS
  BUFFER_SIZE = 10
  FLUSH_LEVEL = 3
  PIPE_SIZE = 2
  HEADER = 2
  TRAILER = 3
  MaxLen = 2
  Preempt = TRUE
INVARIANTS WholeFrames
