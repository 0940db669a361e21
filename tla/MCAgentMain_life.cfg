SPECIFICATION FairSpec
CONSTANTS
  None = None
  Modules <- MCModules
  Tools <- MCTools
  RequiredTool <- MCRequiredTool
  Capability <- MCCapability
  Rank <- MCRank
  Withheld = {"traffic.zeek"}
  Unsupported = {}
  Environments <- MCEnvironments
  Defaults <- MCDefaults
  MinHeartbeat = 2
  MaxHeartbeat = 4
  MaxJobs = 3
  JitterPart = 3
  MaxShift = 3
  MaxDelay = 4
  WordBits = 4
  MaxAttempts = 5
  MaxRestarts = 1
INVARIANTS
  TypeOK
  ManifestAgrees
  PollsPaced
PROPERTIES
  TimersRecur
