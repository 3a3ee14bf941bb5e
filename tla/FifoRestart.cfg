SPECIFICATION FifoSpec
CONSTANTS
  RequestIds = {1, 2}
  MaxFibers = 2
  MaxNodes = 1
  MaxFailures = 0
  MaxStarts = 2
CHECK_DEADLOCK FALSE
INVARIANT AtLeastOneWorker
