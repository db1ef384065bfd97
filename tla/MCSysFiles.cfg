SPECIFICATION MCSpec
CONSTANTS
  NULL = NULL
  Counting = {"tx_frames", "tx_words", "rx_frames", "rx_words", "fcp_input_requests"}
  Unsupported = {"nos_count"}
  MaxCount = 1
  MaxMissed = 1
  kernel_speeds <- Kernel
INVARIANTS
  ValuesFromTheCall
  StatusTellsAll
  WordsCoverFrames
  BindingKept
  AllSpeedsRead
