SPECIFICATION FairSpec
CONSTANTS
  a = a
  b = b
  Stdout = Stdout
  Streams <- TwoStreams
  MaxLines = 4
CHECK_DEADLOCK FALSE
INVARIANTS TypeOK OnlyLateLinesAreLost CutOffByAnother
PROPERTIES Relayed FailedHandshakeReturns
