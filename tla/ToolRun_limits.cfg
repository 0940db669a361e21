SPECIFICATION FairSpec
CONSTANTS
  None = None
  Kinds = {"ping", "route", "nmap", "http", "dns", "tcp", "tls", "withheld"}
  MaxStdout = 2
  MaxStderr = 1
  MaxResponse = 2
  MaxPrinted = 4
  PipeSize = 2
  Helpers = TRUE
  AddressBits = 9
  WordBits = 6
  MaxShift = 4
  HostLimits = {1, 4}
INVARIANTS
  TypeOK
  BuffersExact
  FailureJustified
  TruncationTold
  ScanBounded
PROPERTIES
  RunEnds
